----------------------------- MODULE IssueDispatch -----------------------------
(***************************************************************************)
(* From an open issue to a queued run: the issue watcher                   *)
(* (core/orchestrator/issue-watcher.ts) beside the users who edit, close   *)
(* and trigger issues, the orchestrator whose runs block or advance the    *)
(* issue they work on, and the daemon's crashes and restarts.              *)
(*                                                                         *)
(* Handling of one issue event is a chain of awaits, named by pc; it is    *)
(* started by a Realtime event or by the startup sweep, its lane.          *)
(* Subscribing returns before the channel has joined (realtime.ts), so a   *)
(* watcher that has started may sweep while nothing is announced to it.    *)
(* Of the orchestrator only the writes to runs and issues are kept.        *)
(***************************************************************************)
EXTENDS Integers, FiniteSets

CONSTANTS
    Issues,
    Routed,          \* issues of projects with a defaultPipelineId
    NumRuns,         \* bound: pipeline_run rows ever inserted
    MaxConcurrent,   \* EventOrchestratorConfig.maxConcurrentRuns
    MaxActs,         \* bound: edits, triggers and cancels by users
    MaxOutages,      \* bound: crashes of the daemon and breaks of its config
    None

Runs == 1..NumRuns
Lanes == {"event", "sweep"}

ASSUME DispatchAssumption ==
    /\ Routed \subseteq Issues /\ None \notin Issues
    /\ NumRuns \in Nat /\ MaxConcurrent \in Nat
    /\ MaxActs \in Nat /\ MaxOutages \in Nat

VARIABLES
    issue,     \* the rows of issue
    run,       \* the rows of pipeline_run, and what the orchestrator does with them
    config,    \* is issues.status.on_create_key valid for every routed project?
    daemon,    \* "down", "booting" (the watcher is not started yet), "started"
               \* (its channels have not joined, or have dropped) or "up"
    events,    \* issues with a change that Realtime still has to deliver
    chain,     \* where the handling of an issue stands, in each lane
    sweep,     \* where startupSweep stands
    missed,    \* issues with a change that no reading of their row is to follow
    changed,   \* issues changed since dispatch last read their row
    acts,
    outages

vars == <<issue, run, config, daemon, events, chain, sweep, missed, changed, acts, outages>>

-------------------------------------------------------------------------------
(* Rows. *)

\* open: does the status resolve to the configured one?
Issue == [exists : BOOLEAN, open : BOOLEAN, closed : BOOLEAN]

Settled == {"completed", "failed", "blocked", "cancelled"}

\* phase: what the orchestrator's chain of the run is about to do.
Run == [status : {"absent", "pending", "running"} \union Settled,
        of : Issues \union {None},
        by : {"watcher", "user"},
        cancelled : BOOLEAN,               \* has a user cancelled it?
        phase : {"none", "drive", "block", "blocked", "stop", "deploy"}]

Active == {"pending", "running", "blocked"}     \* not in PIPELINE_RUN_TERMINAL

Chain == [pc : {"idle", "read", "status", "active", "insert"},
          open : BOOLEAN]        \* of the row that was read

Quiet == [pc |-> "idle", open |-> FALSE]

NoSweep == [pc |-> "none", todo |-> {}]

TypeOK ==
    /\ issue \in [Issues -> Issue]
    /\ run \in [Runs -> Run]
    /\ config \in BOOLEAN
    /\ daemon \in {"down", "booting", "started", "up"}
    /\ events \subseteq Issues
    /\ chain \in [Issues \X Lanes -> Chain]
    /\ sweep \in [pc : {"none", "list", "runs", "loop"}, todo : SUBSET Issues]
    /\ missed \subseteq Issues
    /\ changed \subseteq Issues
    /\ acts \in 0..MaxActs
    /\ outages \in 0..MaxOutages

Init ==
    /\ issue = [i \in Issues |-> [exists |-> FALSE, open |-> FALSE, closed |-> FALSE]]
    /\ run = [r \in Runs |-> [status |-> "absent", of |-> None, by |-> "user",
                              cancelled |-> FALSE, phase |-> "none"]]
    /\ config = TRUE
    /\ daemon = "up"
    /\ events = {}
    /\ chain = [x \in Issues \X Lanes |-> Quiet]
    /\ sweep = NoSweep
    /\ missed = {}
    /\ changed = {}
    /\ acts = 0
    /\ outages = 0

RunsOf(i) == {r \in Runs : run[r].status # "absent" /\ run[r].of = i}

\* Mutant of HasActiveRun: a blocked run is taken for a terminal one.
HasUnsettledRun(i) == \E r \in RunsOf(i) : run[r].status \notin Settled

HasActiveRun(i) == \E r \in RunsOf(i) : run[r].status \in Active

Dispatchable(i) == issue[i].exists /\ issue[i].open /\ ~issue[i].closed

\* Does a dispatch in flight hold what it read of the issue?
ReadBy(i) == \E l \in Lanes : chain[<<i, l>>].pc \notin {"idle", "read"}

InFlight(i) == \E l \in Lanes : chain[<<i, l>>].pc # "idle"

\* Will the sweep, or the dispatch in flight, read the row of the issue?
ToBeRead(i) == \/ sweep.pc = "list" \/ i \in sweep.todo
               \/ InFlight(i) /\ ~ReadBy(i)

\* A committed change of an issue row; Realtime announces it to a watcher
\* whose channels have joined, and to nobody else.
Commit(i, new) ==
    /\ issue' = [issue EXCEPT ![i] = new]
    /\ changed' = IF ReadBy(i) THEN changed \union {i} ELSE changed \ {i}
    /\ events' = IF daemon = "up" THEN events \union {i} ELSE events
    /\ missed' = IF daemon = "started" /\ ~ToBeRead(i) THEN missed \union {i} ELSE missed

\* Mutant of Enqueue: the run is given the first status of a stage run.
EnqueueDefault(r, i, who) ==
    /\ run[r].status = "absent" /\ \A q \in 1..r - 1 : run[q].status # "absent"
    /\ run' = [run EXCEPT ![r] = [status |-> "queued", of |-> i, by |-> who,
                                 cancelled |-> FALSE, phase |-> "none"]]

Enqueue(r, i, who) ==
    /\ run[r].status = "absent" /\ \A q \in 1..r - 1 : run[q].status # "absent"
    /\ run' = [run EXCEPT ![r] = [status |-> "pending", of |-> i, by |-> who,
                                 cancelled |-> FALSE, phase |-> "none"]]

-------------------------------------------------------------------------------
(* Users: the issue router and pipeline.runs.trigger and cancel. *)

Act == acts < MaxActs /\ acts' = acts + 1

\* A new issue has the configured status, is open and version 1.
File(i) ==
    /\ ~issue[i].exists
    /\ Commit(i, [issue[i] EXCEPT !.exists = TRUE, !.open = TRUE])
    /\ UNCHANGED <<run, config, daemon, chain, sweep, acts, outages>>

\* A change of status, a move to another state, or of fields only.
Edit(i) ==
    /\ issue[i].exists
    /\ Act
    /\ \/ Commit(i, [issue[i] EXCEPT !.open = ~@])
       \/ Commit(i, [issue[i] EXCEPT !.closed = ~@])
       \/ Commit(i, issue[i])
    /\ UNCHANGED <<run, config, daemon, chain, sweep, outages>>

\* trigger looks neither at the issue's status nor at its other runs.
Trigger(i, r) ==
    /\ issue[i].exists
    /\ Act
    /\ Enqueue(r, i, "user")
    /\ UNCHANGED <<issue, config, daemon, events, chain, sweep, missed, changed, outages>>

\* completeRun(cancelled) of a run that the user sees pending or running.
Cancel(r) ==
    /\ Act
    /\ run[r].status \in {"pending", "running"}
    /\ run' = [run EXCEPT ![r].status = "cancelled", ![r].cancelled = TRUE]
    /\ UNCHANGED <<issue, config, daemon, events, chain, sweep, missed, changed, outages>>

-------------------------------------------------------------------------------
(* The orchestrator: what its chains write to the runs and their issues.   *)

Claimable(r) ==
    /\ run[r].status = "pending"
    /\ Cardinality({q \in Runs : run[q].status = "running"}) < MaxConcurrent

Claim(r) ==
    /\ daemon # "down"
    /\ Claimable(r)
    /\ run' = [run EXCEPT ![r].status = "running", ![r].phase = "drive"]
    /\ UNCHANGED <<issue, config, daemon, events, chain, sweep, missed, changed, acts, outages>>

\* The chain of the run notices the cancellation, or decides the outcome:
\* completed and on to the deploy, failed, blocked by a dead end (the issue is
\* blocked by the terminal step), or by the sentinel (the issue comes first).
Decide(r) ==
    /\ run[r].phase = "drive"
    /\ \/ /\ run[r].cancelled
          /\ run' = [run EXCEPT ![r].phase = "none"]
       \/ run' = [run EXCEPT ![r].phase = "deploy", ![r].status = "completed"]
       \/ run' = [run EXCEPT ![r].phase = "none", ![r].status = "failed"]
       \/ run' = [run EXCEPT ![r].phase = "blocked", ![r].status = "blocked"]
       \/ run' = [run EXCEPT ![r].phase = "block"]
    /\ UNCHANGED <<issue, config, daemon, events, chain, sweep, missed, changed, acts, outages>>

\* blockIssueOnRun; a version conflict throws and leaves the rest undone.
Block(r) ==
    LET i == run[r].of IN
    /\ run[r].phase \in {"block", "blocked"}
    /\ \/ /\ Commit(i, [issue[i] EXCEPT !.open = FALSE])
          /\ run' = [run EXCEPT ![r].phase = IF @ = "block" THEN "stop" ELSE "none"]
       \/ /\ run' = [run EXCEPT ![r].phase = "none"]
          /\ UNCHANGED <<issue, changed, events, missed>>
    /\ UNCHANGED <<config, daemon, chain, sweep, acts, outages>>

Stop(r) ==
    /\ run[r].phase = "stop"
    /\ run' = [run EXCEPT ![r].phase = "none", ![r].status = "blocked"]
    /\ UNCHANGED <<issue, config, daemon, events, chain, sweep, missed, changed, acts, outages>>

\* The deploy moves the issue to the review state, which is not terminal,
\* and leaves its status alone; or it fails.
Deploy(r) ==
    /\ run[r].phase = "deploy"
    /\ run' = [run EXCEPT ![r].phase = "none"]
    /\ \/ Commit(run[r].of, issue[run[r].of])
       \/ UNCHANGED <<issue, changed, events, missed>>
    /\ UNCHANGED <<config, daemon, chain, sweep, acts, outages>>

-------------------------------------------------------------------------------
(* The watcher. *)

\* handleIssueEvent: an issue in flight is dropped.  If its row was already
\* read, what the event announces goes unseen.
HandleIssueEvent(i, l) ==
    IF InFlight(i)
    THEN /\ missed' = IF ReadBy(i)
                      THEN missed \union {i} ELSE missed
         /\ UNCHANGED chain
    ELSE /\ chain' = [chain EXCEPT ![<<i, l>>] = [Quiet EXCEPT !.pc = "read"]]
         /\ UNCHANGED missed

\* Realtime delivers an INSERT or UPDATE; of the payload only the id is used.
Deliver(i) ==
    /\ daemon = "up" /\ i \in events
    /\ events' = events \ {i}
    /\ HandleIssueEvent(i, "event")
    /\ UNCHANGED <<issue, run, config, daemon, sweep, changed, acts, outages>>

To(i, l, pc) == chain' = [chain EXCEPT ![<<i, l>>] = IF pc = "idle" THEN Quiet
                                                 ELSE [@ EXCEPT !.pc = pc]]

\* Mutant of Skips: whether the issue is closed is left to the payload.
SkipsMissing(i) == ~issue[i].exists \/ i \notin Routed

\* The guards on the row and on its project's default pipeline.
Skips(i) == ~issue[i].exists \/ issue[i].closed \/ i \notin Routed

\* dispatch re-reads the row (FLX-266).
Read(i, l) ==
    /\ chain[<<i, l>>].pc = "read"
    /\ chain' = [chain EXCEPT ![<<i, l>>] =
          IF Skips(i) THEN Quiet
          ELSE [pc |-> "status", open |-> issue[i].open]]
    /\ changed' = changed \ {i}
    /\ missed' = missed \ {i}
    /\ UNCHANGED <<issue, run, config, daemon, events, sweep, acts, outages>>

\* The process ends: chains, subscriptions and undelivered changes are gone.
Exit ==
    /\ daemon' = "down"
    /\ chain' = [x \in Issues \X Lanes |-> Quiet]
    /\ sweep' = NoSweep
    /\ events' = {}
    /\ run' = [r \in Runs |-> [run[r] EXCEPT !.phase = "none"]]

\* resolveOpenStatusId: an invalid config is fatal for the daemon.
ResolveStatus(i, l) ==
    /\ chain[<<i, l>>].pc = "status"
    /\ IF config
       THEN /\ To(i, l, IF chain[<<i, l>>].open THEN "active" ELSE "idle")
            /\ UNCHANGED <<run, daemon, events, sweep>>
       ELSE Exit
    /\ UNCHANGED <<issue, config, missed, changed, acts, outages>>

CheckActive(i, l) ==
    /\ chain[<<i, l>>].pc = "active"
    /\ To(i, l, IF HasActiveRun(i) THEN "idle" ELSE "insert")
    /\ UNCHANGED <<issue, run, config, daemon, events, sweep, missed, changed, acts, outages>>

InsertRun(i, l, r) ==
    /\ chain[<<i, l>>].pc = "insert"
    /\ Enqueue(r, i, "watcher")
    /\ To(i, l, "idle")
    /\ UNCHANGED <<issue, config, daemon, events, sweep, missed, changed, acts, outages>>

\* startupSweep: the open issues, less those with an active run, one by one;
\* every dispatch is awaited before the next.
SweepIssues ==
    /\ sweep.pc = "list"
    /\ sweep' = [pc |-> "runs", todo |-> {i \in Issues : issue[i].exists /\ ~issue[i].closed}]
    /\ UNCHANGED <<issue, run, config, daemon, events, chain, missed, changed, acts, outages>>

SweepRuns ==
    /\ sweep.pc = "runs"
    /\ sweep' = [pc |-> "loop", todo |-> {i \in sweep.todo : ~HasActiveRun(i)}]
    /\ UNCHANGED <<issue, run, config, daemon, events, chain, missed, changed, acts, outages>>

SweepNext(i) ==
    /\ sweep.pc = "loop" /\ i \in sweep.todo
    /\ \A j \in Issues : chain[<<j, "sweep">>].pc = "idle"
    /\ sweep' = [sweep EXCEPT !.todo = @ \ {i}]
    /\ HandleIssueEvent(i, "sweep")
    /\ UNCHANGED <<issue, run, config, daemon, events, changed, acts, outages>>

-------------------------------------------------------------------------------
(* The daemon's life. *)

Crash ==
    /\ daemon # "down" /\ outages < MaxOutages
    /\ outages' = outages + 1
    /\ Exit
    /\ UNCHANGED <<issue, config, missed, changed, acts>>

\* Recovery takes up some of the runs that say running, and fails the others
\* or leaves them where they are.
Boot ==
    /\ daemon = "down"
    /\ daemon' = "booting"
    /\ \E again \in SUBSET {r \in Runs : run[r].status = "running"} :
          run' = [r \in Runs |-> IF r \in again THEN [run[r] EXCEPT !.phase = "drive"]
                                 ELSE run[r]]
    /\ UNCHANGED <<issue, config, events, chain, sweep, missed, changed, acts, outages>>

\* Mutant of StartWatcher: it subscribes and does not sweep.
StartWatcherOnly ==
    /\ daemon = "booting"
    /\ IF config
       THEN /\ daemon' = "started" /\ sweep' = NoSweep /\ missed' = {}
            /\ UNCHANGED <<run, events, chain>>
       ELSE Exit /\ UNCHANGED missed
    /\ UNCHANGED <<issue, config, changed, acts, outages>>

\* start: validate the config or refuse, ask for the channels, then sweep.
StartWatcher ==
    /\ daemon = "booting"
    /\ IF config
       THEN /\ daemon' = "started" /\ sweep' = [pc |-> "list", todo |-> {}] /\ missed' = {}
            /\ UNCHANGED <<run, events, chain>>
       ELSE Exit /\ UNCHANGED missed
    /\ UNCHANGED <<issue, config, changed, acts, outages>>

\* The channels join: from now on changes are announced.
Join ==
    /\ daemon = "started"
    /\ daemon' = "up"
    /\ UNCHANGED <<issue, run, config, events, chain, sweep, missed, changed, acts, outages>>

\* They drop, with what they had not delivered; the watcher is not told.
Disconnect ==
    /\ daemon = "up" /\ outages < MaxOutages
    /\ daemon' = "started" /\ outages' = outages + 1
    /\ events' = {}
    /\ missed' = missed \union {i \in events : ~ToBeRead(i)}
    /\ UNCHANGED <<issue, run, config, chain, sweep, changed, acts>>

\* Somebody deletes the config row of a routed project, and mends it.
BreakConfig ==
    /\ config /\ outages < MaxOutages
    /\ config' = FALSE /\ outages' = outages + 1
    /\ UNCHANGED <<issue, run, daemon, events, chain, sweep, missed, changed, acts>>

MendConfig ==
    /\ ~config
    /\ config' = TRUE
    /\ UNCHANGED <<issue, run, daemon, events, chain, sweep, missed, changed, acts, outages>>

Users == \/ \E i \in Issues : File(i) \/ Edit(i) \/ \E r \in Runs : Trigger(i, r)
         \/ \E r \in Runs : Cancel(r)

Orchestrate(r) == Claim(r) \/ Decide(r) \/ Block(r) \/ Stop(r) \/ Deploy(r)

Dispatch(i, l) == \/ Read(i, l) \/ ResolveStatus(i, l) \/ CheckActive(i, l)
                  \/ \E r \in Runs : InsertRun(i, l, r)

Sweep == SweepIssues \/ SweepRuns \/ \E i \in Issues : SweepNext(i)

Next ==
    \/ Users
    \/ \E r \in Runs : Orchestrate(r)
    \/ \E i \in Issues : Deliver(i) \/ \E l \in Lanes : Dispatch(i, l)
    \/ Sweep
    \/ Crash \/ Boot \/ StartWatcher \/ Join \/ Disconnect
    \/ BreakConfig \/ MendConfig

\* The event loop resumes every chain of the watcher, Realtime delivers while
\* its channels are joined, and the supervisor restarts the daemon.
Fairness ==
    /\ \A i \in Issues :
          /\ WF_vars(Deliver(i))
          /\ \A l \in Lanes : WF_vars(Dispatch(i, l))
    /\ WF_vars(Sweep)
    /\ WF_vars(Boot) /\ WF_vars(StartWatcher)

Spec == Init /\ [][Next]_vars /\ Fairness

-------------------------------------------------------------------------------
(* Properties. *)

\* The watcher never queues a second run for an issue while one that it
\* queued is pending, running or blocked, whether Realtime events, the sweep
\* or a restart bring it to the issue (guards 3 and 4 of its contract).  Runs
\* triggered by a user, and cancelled runs whose own outcome was written over
\* the cancellation, do not count: the code promises nothing for them.
OneDispatchedRun ==
    \A r, q \in Runs :
        /\ run[r].of = run[q].of
        /\ \A x \in {r, q} : /\ run[x].status \in Active
                             /\ run[x].by = "watcher" /\ ~run[x].cancelled
        => r = q

\* A run is queued on the current state of the issue, never on what an event
\* or the sweep's list said (FLX-266): at the insertion the issue is open and
\* not closed, unless it was changed after dispatch read it.
DispatchIsFresh ==
    [][\A i \in Issues, l \in Lanes :
        chain[<<i, l>>].pc = "insert" /\ run' # run /\ chain'[<<i, l>>].pc = "idle"
            /\ daemon' # "down"
        => Dispatchable(i) \/ i \in changed]_vars

\* No open issue is forgotten: one that could be dispatched and never had a
\* run gets one, or is edited so that it cannot, wherever the daemon was when
\* it was filed or opened: down, booting, before the sweep lists the issues, or
\* in the middle of a dispatch that has not read the row.  Excepted are the
\* changes in missed (committed after the sweep's list and before the channels
\* join, lost with the channels, or announced while a dispatch that has
\* already read the row is in flight) until the issue is read again, a config
\* that is broken, and the bound on the runs.
OpenIssueGetsRun ==
    \A i \in Routed :
        Dispatchable(i) /\ RunsOf(i) = {}
        ~> \/ ~Dispatchable(i) \/ RunsOf(i) # {}
           \/ i \in missed \/ ~config
           \/ \A r \in Runs : run[r].status # "absent"

===============================================================================
