# A TLA+ model of cedarcli

`cedarcli` is the command line that builds, runs, deploys and releases the CEDAR
estate: some thirty Git repositories (Java services, npm frontends, packages)
that have to be built against one another, versioned together and published to
Maven, npm, GitHub and Docker registries.  Most of its 30,000 lines are
sequences of shell commands.  What is hard is what those sequences share: a
release that takes hours and is resumed after crashes, a scheduler with worker
threads, packages that are consumed before they are verified, and directories
several processes use at once.  This project models those parts.

All paths below are relative to `src/org/metadatacenter/`.

## Inventory

### 1. Release lifecycle controller
`release_train.py`, `release_support/{lifecycle,state,policy,errors,workspace}.py`

- **State.** On disk: `current.json` (which ledger is active, and whether the
  slot is still held), one manifest ("ledger") per attempt of a version, the
  attempt workspaces, and `release.lock`.  In memory: the attempt counter and
  the Nexus failure count of `_drive_release`.
- **Operations.** `release start`, `resume`, `abandon`; nine stages, each a
  function that checks the recorded phase, writes a running phase, works, and
  writes a done or a failed phase.
- **Interacts with** child processes (git, mvn, npm) which do not inherit the
  lock and outlive a killed controller; GitHub, Nexus and npm.
- **Hard.** A crash between any two durable writes; two commands at once;
  retries of operations that may have taken effect; rewinding.
- **Correct when** the slot always names a ledger, every external effect is
  announced by the ledger before it can happen, effects keep their stage order,
  nothing recorded is forgotten, abandonment is only of local work, acceptance
  is earned, and a release that is resumed comes to an end.

### 2. Build scheduler
`build_scheduler.py`, `release_support/scheduling.py`

- **State.** The coordinator's `remaining`, `running`, `results`, `packaged`; a
  queue of events; the worker threads.
- **Operations.** Derive dependencies, block, launch, hear "packaged" or
  "done", finish; cancellation.
- **Hard.** The coordinator knows the threads only through the queue.
- **Correct when** nothing starts before its producers have packaged, exclusive
  tasks are alone, the report is true, fail-fast starts nothing more, and the
  build ends.

### 3. Frontend reactor
`reactor.py`, `taskexecutor/ShellTaskExecutor.py`, `frontend_snapshot.py`, `build.py`

- **State.** The `_Build` object shared by the threads (available, pending,
  unverified, advertised, deferred packages), the `refs/` directory, the
  isolated copies.
- **Operations.** Resolve, materialise, reuse, offer early, verify and keep,
  advertise, select the runtime.
- **Interacts with** the scheduler (it is what runs on its threads) and the
  result cache.
- **Correct when** `refs/` names only packages whose whole chain of checks
  passed, all consumers see the same bytes, and a successful build selects what
  it advertised.

### 4. Release tasks
`release_support/{workspace,versioning,validation,distribution,refs,cee_promotion}.py`

- **State.** The isolated workspaces of an attempt (two variants of each
  repository), their builds, local branches and tag; hashes of all of them in
  the ledger.
- **Operations.** Clone and wire the frontends, stamp both versions, build,
  copy a validated build into the distribution repositories, commit, verify, tag.
- **Hard.** Each is resumed after a crash in its middle, and somebody else (a
  build that outlived its controller) may write into a workspace.
- **Correct when** it is idempotent, refuses a repository that is not in one of
  the states it leaves, and commits exactly what was validated.

### 5. Remote integration
`release_support/integration.py` — state: `main`, the tag, the release branch
and `develop` of each remote.  Survey, push, re-verify.  Hard: a push whose
answer is lost, a branch somebody moved, a crash between two pushes.  Correct
when a retry tells its own pushes from someone else's and never forces.

### 6. Artifact publication
`release_support/{publication,transport}.py` — state: what Nexus and npm hold
and what their indexes show, the recorded publication tasks.  Upload, read-back,
ambiguous answers.  Correct when a version is never published with two contents
and an artifact found in place is only taken for ours if it is.

### 7. Development verification and acceptance
`release_support/{development,acceptance}.py`, `github_ci.py` — state: dispatch
intents and the runs that answered.  Dispatch, polling of exact-commit CI, the
final re-reading of every remote and artifact.  Hard: runs are rerun, cancelled
and started by others, and a dispatch may be lost or arrive late.  Correct when
what is verified was proven by a run of exactly those commits.

### 8. Planning, preflight, readiness, reports
`release_support/{planning,packages,preflight,readiness,packaging,toolchain,presentation}.py`,
`release_readiness_report.py`, `release_resume_preview.py`, `release_timings.py`
— read-only: what a train must be like for a release to be planned from it, and
what must hold of the world for one to start or go on.  Correct when a plan is
proven by the packages and records it names, and when nothing is refused after
the first minute that could have been refused in it.

### 9. Reuse of verified results
`task_cache.py`, `reactor_{results,evidence,stages,tasks}.py` — a
content-addressed cache that many processes read and promote into without
locks.  Correct when a reader gets a complete entry or none, and a result is
used only for exactly its inputs.

### 10. Worker pool and local stack lock
`util/worker_pool.py`, `util/local_stack_lock.py` — slots and FIFO tickets as
directories, owners identified by process; a re-entrant file lock.  Correct when
a slot has one holder, a dead owner's slot is reclaimed once, and the queue
moves.

### 11. Plans and task execution
`planner/`, `operator/`, `executor/`, `taskfactory/` — a recursive expansion of
a repository list to a flat list of shell tasks, then sequential execution.

### 12. Process ownership and build safety
`util/{ProcessRunner,BuildSafety,InvocationContext}.py`, `npm_install.py` —
process groups, cancellation, temporary workspaces, the guard that a build
leaves tracked files alone.

### 13. Mode, Docker deployment and native services
`util/ModeManager.py`, `docker_support/`, `docker_*.py`, `mode.py`, `native.py`,
`{start,stop,restart}.py`, `worker/{DockerWorker,NativeWorker}.py`,
`util/local_stack_lock.py`

- **State.** The recorded mode and the recorded deployment, against the
  containers, networks, volumes, images and native processes that really exist.
- **Operations.** Select, adopt and clear the mode; start, stop, remove and set
  up Docker stacks; start, stop and restart native services.
- **Interacts with** the Docker daemon and `cedar-services.sh`; the smoke and the
  frontend reactor deploy through the same workers.
- **Hard.** What is asked at admission is not asked again while the command
  works; a daemon that is down answers as if nothing ran.
- **Correct when** nothing of another mode runs beside it, the record is cleared
  last, and whatever happened can be cleaned up again, where possible with the
  commands that refusals name.

### 14. Whole-stack smoke gate
`smoke_gate.py` — state: a record per set of source heads, and the latest one.
Judge the stack, read the heads, run the tiers, write the record; evaluate it.
Correct when the heads it names were what ran.

### 15. Build trains
`train_support/`, `util/BuildTrain.py`, `worker/BuildTrainWorker.py` — state: the
sources and runs on GitHub.  Identifier, preflight, dispatch; the train itself
runs in GitHub Actions.  Correct when no train carries source that was not
smoked, and a name means one source.

### 16. Component pins
`component_pins.py`, `worker/ComponentWorker.py` — publish a component and
repoint the consumers, some of which are components.

### 17. Everything else
Git commands over the estate, static checks and reports, certificates,
environment: sequential commands with no state of their own.

`PROJECT.json` lists each of these under "components" with its sources and
status, and 40 hazards at the lines where they bite.  Three have no property of a
run: `task_cache.py:178` and `component_pins.py:466`, which say which module is meant
to cover them, and `build_scheduler.py:148`, which a theorem covers.

## What is modelled

| module | models | composed of |
|---|---|---|
| `ReleaseContract` | what a release promises the outside | |
| `ReleaseLifecycle` | component 1, every durable write a step | implements `ReleaseContract` |
| `MCReleaseLifecycle` | symmetry for TLC | `ReleaseLifecycle` |
| `ReleaseLifecycleProofs` | inductive invariant and theorems | `ReleaseLifecycle`, TLAPS |
| `BuildScheduler` | component 2 | |
| `BuildSchedulerProofs` | inductive invariant and theorems | `BuildScheduler`, TLAPS |
| `FrontendReactor` | component 3 | extends and implements `BuildScheduler` |
| `MCFrontendReactor` | the plans TLC starts from | `FrontendReactor` |
| `FrontendReactorProofs` | inductive invariant and theorems | `FrontendReactor`, `BuildSchedulerProofs`, TLAPS |
| `CeePromotion` | when a package is the promotion of another (component 4) | |
| `ReleaseSource` | a train, what a plan, a readiness check and preflight ask of it and of the world (component 8) | extends `CeePromotion` |
| `ReleasePreparation` | the local stages of component 4 and the gates before them | extends `ReleaseSource` |
| `MCReleasePreparation` | the trains and worlds TLC starts from | `ReleasePreparation` |
| `ReleasePreparationProofs` | inductive invariant and theorems | `ReleasePreparation`, TLAPS |
| `Publication` | components 6 and 7 | |
| `MCPublication` | the order of the Maven files | `Publication` |
| `PublicationProofs` | inductive invariant and theorems | `Publication`, TLAPS |
| `Deployment` | component 13 | |
| `TrainGate` | components 14 and 15, and the lock | extends `Deployment` |
| `MCTrainGate` | the hosts TLC starts from | `TrainGate` |
| `TrainGateProofs` | inductive invariant and theorems | `TrainGate`, TLAPS |
| `RemoteIntegration` | component 5, and the local refs of component 4, for one repository | |
| `RemoteIntegrationProofs` | inductive invariant and theorems | `RemoteIntegration`, TLAPS |
| `WorkerPool` | the pool of component 10, one file-system call a step | |
| `MCWorkerPool` | two builds and what earlier ones left | `WorkerPool` |
| `WorkerPoolProofs` | inductive invariant and theorems | `WorkerPool`, TLAPS |

### ReleaseLifecycle

| variable | code |
|---|---|
| `current` | `current.json`: `manifest`, `status` (`state.py`) |
| `ledger[<<v, n>>]` | `releases/<v>.json`, `<v>-attempt-<n>.json`; `phase`, the evidence objects (`sections`), the recorded tasks (`completed`), the frontend workspace, whether development was verified |
| `attempts` | `attempts/<v>/<n>` on disk |
| `holder` | the process holding `release.lock` |
| `pc`, `mem` | where each `cedarcli` process is, and its locals |
| `inflight` | operations a child process is performing, with or without a living parent |
| `world` | operations that have taken effect on GitHub or in a registry |

A ledger is a record of what the properties tell apart; hashes, commits, paths
and times are left out.  The stage table (`RunningPhase`, `FailedPhase`,
`DonePhase`, `EntryPhases`, `NextStage`) is the table of
`advance_active_release` with the phases that the functions write.
`EntryPhases` is what the *search* for a stage reads and `AcceptedPhases` what
the stage's *function* checks: the two are separate in the code and differ.

Each durable write is an action: `Start` writes the ledger, `WritePointer` the
pointer, `PruneAttempt`/`PruneLedger` remove one thing each; `Abandon` writes
the manifest and `Conclude` the slot; a stage writes its running phase
(`EnterTasks`), one record per task (`FinishTask`) and its end
(`TasksSucceed`/`TasksFail`).  `Crash` may happen between any two.  An external
task is issued (`StartTask`) and lands (`Land`) or is lost (`Lose`) by itself;
`FailTask` with a transient kind is a lost answer.  A refused command changes
nothing and is not a step.

`ReleaseContract` has two variables, the slot and the effects of the release it
names.  The refinement maps `current.status` to the slot and the landed
operations of the active version to the effects; crashes, retries, pruning and
everything local stutter.

### BuildScheduler

`plan` holds what `dependencies` computed and the options; it is chosen in
`Init` over *all* plans whose edges are acyclic (the planner orders them so; a
cyclic plan is refused before anything runs).  `thread[i]` is what task *i* has
really done and `results[i]` what the coordinator has recorded: `End` and
`Package` change the former and queue an event, `HearDone` and `HearPackaged`
the latter.  One turn of the loop blocks everything that must be blocked, then
launches in plan order, then waits for one event; the guards `Blockable = {}`
and `Scanned` keep that order.  An exception of a task, Ctrl-C, and a second
Ctrl-C are `HearDone`, `Interrupt` and `Raise`.

### FrontendReactor

It extends the scheduler, and gives each thread a program: `Resolve`,
`Materialize`, `Reuse` or (`Offer`, `Announce`, `Check`, `Keep`), `Leave`.  The
`_Build` object is `build`, field by field; each method that holds its lock is
one action.  A package's bytes are one of two digests: what was packed first,
and anything else, which is what a non-reproducible pack gives.  `Settled` is
the fixpoint of `_advertise_settled` written as a union of closed sets.
`ImplementsScheduler` says that these threads do what the scheduler's model lets
a thread do, so what is shown of the scheduler holds in this composition.

### RemoteIntegration

One repository of one release: the stages that `ReleaseLifecycle` sees as one
operation "remotes" per repository.  `kind` says what the release does to it: a
stable version and no next one ("release"), both, or only a move of `develop`.

| variable | code |
|---|---|
| `remote` | the remote's `main`, `develop`, the two release branches, the tag |
| `prepared` | how far `ReleaseRefCreator.create` is in the clone |
| `clone` | the clone's two integration branches |
| `pc`, `mem` | the controller; the refs it looked at, the base it took, the position among its pushes, the attempt |
| `inflight` | pushes of child processes, which may outlive the controller |
| `recorded`, `accepted` | the task's record in the ledger; the verification at acceptance |
| `rewritten`, `others`, `faults` | history and bounds |

A commit of a branch is its first-parent history, a sequence of who made each
commit, so "contains" is a prefix and a push that is not forced is one that
extends.  `Look` reads the remote's refs once and the pushes decide from what it
saw, as `survey` and `integrate` do, while others push, edit the files the
release stamps, restore them, force `develop` back or take a ref of the
release's name.  A push lands or is refused by itself (`Land`, `Reject`); its
answer may be lost (`LoseAnswer`) and the push may still land later.  Hashes are
replaced by the commit's place in its history; the file comparison
(`_require_captured_files`) by who changed the files last.

### WorkerPool

| variable | code |
|---|---|
| `dir` | `slot-<i>`: absent, present without its `owner`, or owned by a process |
| `age` | its modification time: new, over a minute, over twelve hours |
| `queue`, `stamp`, `clock` | the ticket files, and the times in their names |
| `alive`, `cancelled` | processes, and builds that were cancelled |
| `pc`, `mem` | each thread inside `lease`, `take`, `_claim`, `give` |
| `horizon` | the names up to this time are more than twelve hours old |
| `disorder` | history: a ticket appeared behind one that was already being served, or grew twelve hours old while it was served |

`Name` and `Touch` are two steps because the name holds the time and the file
appears after it.  `_claim` is `Mkdir`, `Own`; `_abandoned` is `Stat`, `Read`;
`rmtree` is `Unlink` and a `rmdir` that fails on a directory that is not empty.
`OwnerUnwritable` is the exception of `write_text` when the directory has gone:
the ticket is removed and the slots taken so far stay until the process ends.
`Die` may happen at any step; so may `Pass`, a slot growing older, except where the
module's two comments about time say that it does not: an owner is written and a
directory removed within a minute, and a command ends within twelve hours.
The size is a constant.

A ticket's age is that of its name, which nothing renews, and no comment bounds
how long a request may wait: behind a long queue, or on a machine that slept, it
`GrowOld`s, with every ticket named before it.  `first()` drops whatever does not
stand (`Stands`, `Dropped`): the tickets of dead processes, and those of *living*
requests after twelve hours (`worker_pool.py:124`, `211-215`).  The code reckons
only with the former ("an older slot or request has lost its holder",
`worker_pool.py:34`).  A living request whose ticket was dropped is never first
again and polls for ever, which `Served` excepts (`Aged`); one that grows old while
it takes lets the next one take as well, which `OrderlySlotsAreExclusive` excepts
(`disorder`).

### Publication

What follows the local refs: deploy the snapshots, integrate the remotes (one
step here; `RemoteIntegration` is its interior), publish the files, see the CI
of the integrated commits pass, read everything back.

| variable | code |
|---|---|
| `phase`, `completed`, `requested`, `evidence` | the ledger: the stage, the recorded publication tasks, the dispatch intents, the run that answered for each repository |
| `pc`, `mem` | the controller inside a stage; its task, its upload, the polls it has made |
| `registry`, `visible` | what is stored at each place: nothing, ours, another's; what the search index or the npm metadata show |
| `inflight`, `asked` | uploads that may still be stored, dispatches that may still start a run |
| `remote`, `runs` | whether each develop still is the integrated commit; GitHub's runs of it, oldest first |
| `accepted` | the red run an operator accepted by number |
| `others`, `faults` | bounds |

An upload lands by itself (`Land`), also after the controller is gone or has lost
its answer (`Interrupt`), or never (`Vanish`).  The stage that is resumed asks
what is there before it uploads (`Check`): a Maven file is read and compared, an
npm version is looked for in the metadata, which are late (`Index`), and read
back (`Confirm`).  `Publish` is somebody else's upload to the same place,
`CleanUp` the train registry's retention.  A dispatch is announced in the ledger
first (`Intend`), may be refused (`DispatchRefused`), and starts a run later.  A
run is reduced to what `develop_runs`, `finished_runs` and `latest_runs_by_name`
tell apart: created before or after the second of the request, its event, its
result.  `pure` is history: whether every sibling was at its integrated commit
while it ran.

A gated develop that moved (`Move`) is put back by an operator (`Restore`), since
otherwise no stage goes on.  What ran meanwhile keeps its result, and
`development.py:138-169` looks at the refs only at the end: an aggregator run that
built a moved sibling then counts.  The comment there says more than that ("A
sibling move during an aggregator run invalidates its proof",
`development.py:165`).  `VerifiedIsProven` therefore asks `pure` only while no
develop was put back during verification (`restored`).

`NeedsOperator` names what may keep a release waiting, phase by phase: a moved ref
in each of them, a place that somebody else took from "artifacts" on, a train
package that was cleaned up once the npm tasks read it, and CI only in
"development", where its runs exist.

### ReleaseSource and CeePromotion

A **train** is a record of what the checks read: the npm and Docker plans and
completions, the component copies, the packages as served and as published, the
captured files.  A CEE package is its metadata, its changelog and its bundles,
each with its code, the names the minifier chose and its provenance marks;
`ComparesEqual` is the comparison of `packages.py`, and `IsPromotion` what it is
meant to establish.  `PlanAccepts` is a conjunction of one operator for each
check of `planning.py`; `Passes` gives one for each check of `preflight.py`, and
`StartGate` and `ResumeGate` say which of them `start` and `resume` run.  A
**world** is what they probe: tools, credentials, disk, checkouts, remotes, CI,
the answers of npm and Nexus.

### ReleasePreparation

| variable | code |
|---|---|
| `train`, `world` | what is released, and the world as it is now |
| `accepted` | the acceptances that the ledger records |
| `stage`, `pc`, `mem` | the next stage, the controller's step in it, its locals |
| `wired`, `sealed`, `built`, `spread`, `refs` | what the ledger records of the stages: the wired consumer, the hashes of both versions, the builds, the distribution files, the refs |
| `tree`, `output`, `branch`, `tag` | the workspaces, the builds in them, their branches and the tag |
| `late`, `raced` | history: a refusal after start; a write while a build is copied |
| `breaks`, `writes`, `crashes` | bounds |

One application stands for the repositories: it has a CEE consumer, a published
bundle and manifest, a source file, and a file that nothing of the release makes.
A content is the set of what was done to the captured one, so equality of
contents is equality of hashes.  `Crash` may come between any two writes, `Write`
and `Undo` are somebody else's at any moment, `Break` spoils the world and
`Repair` restores it.  The properties name two windows:

- `raced`: between `distribution.py:234` and `255` the files a build leaves are
  copied, hashed and recorded.  A write in between is recorded as if the build
  had made it; nothing compares it with the build or with the seal afterwards.
- `Emptied`: a crash between the deletion of a distribution directory
  (`distribution.py:93-97`) and the restoration of its preserved files (98-101)
  leaves a workspace that every resume refuses.

`Unasked` lists the conditions a stage refuses and preflight does not ask; they
are the only ones, which is what `SettledInTheFirstMinute` shows.

### Deployment

| variable | code |
|---|---|
| `mode`, `record` | `.cedar/mode.json`, `.cedar/docker-deployment.json` |
| `docker`, `images`, `provisioned`, `daemon` | what Docker holds and runs, and whether it answers |
| `native` | the host infrastructure and the groups of native services that run |
| `job` | per operator, the calls that the admitted command has still to make |
| `menu`, `typed`, `faults` | what may be typed, and bounds |
| `raced`, `blind` | history: a command was admitted while another was at work; natives were started while Docker could not be asked ("command") or without asking ("reactor") |
| `recovering` | the operators have given up and follow the remedies |

A command is admitted in one step (`Type`: the callbacks of the command line and
`ModeManager.bootstrap` read everything and write nothing), and then works
through its `todo`, one call that changes the host at a time, asking nothing
again.  `Kill` and `DaemonStops` come at any step.  A daemon that is down is read
as "no project runs", as in the code.  The scripts of `docker remove` read it so too:
they succeed, and the containers that still run lose their record
(`RemoveUnasked`; `docker_support/setup.py:143-160`, `172-237`).  With the daemon up
a removal may fail half-way and keeps the record (`RemoveContainersFails`).

`Named` is the command that the refusals tell an operator to give next.
`RemedyIsAdmitted` says that it is not itself refused when commands were given in
turn, with one exception, `Cornered`: native services that run under a mode
recorded without a profile.  Starting or stopping them is refused naming
`mode --clear` (`ModeManager.py:85-88`, asked by `bootstrap`, `620-634`), clearing is
refused naming `native stop all` (`154-169`), and so in a circle.  What is admitted
is to select the mode again with a profile (`adopt_profile`, `569-593`), which
neither message names: `Adoption`.  `Remedy`, which `AlwaysRecoverable` follows, is
`Named` and, when cornered, `Adoption`.  Even so there is no remedy after three chains of
events, and `AlwaysRecoverable` excepts exactly them.  In each both kinds run and the
mode is gone: then no mode can be selected, and without one nothing can be stopped.

- Three operators give commands at once: one clears the mode while another is
  starting native services and a third is starting containers.
- The daemon is stopped and native services are started meanwhile, an operator
  clears the mode with `--force` under the start, and the daemon brings the
  containers back.
- The daemon is stopped and `build frontends` (`build.py:375`) restarts native
  frontends, which asks no mode; then the containers come back.

### TrainGate

Extends `Deployment`: the same commands, with source, smokes and trains.

| variable | code |
|---|---|
| `develop`, `remote`, `sync`, `tree` | the heads of each repository here and on GitHub, how they relate, what is checked out |
| `clock` | the times of commits and jars |
| `jar`, `process`, `late` | the jar of each service on disk, the one that runs, and those newer than the head that may not hold it |
| `localStack` | the holder of `local-stack.lock` |
| `smoke`, `reports`, `latest` | a smoke in progress, the records |
| `train`, `sources`, `runs` | a dispatch in progress, the heads recorded for a train, the workflow's runs |
| `moves`, `smokes`, `trains` | bounds |

Developers commit, push, pull, build and edit (`Move`) between any two steps.
`Capture` is the workflow, which reads `remote` when it starts and not when it
was dispatched.  A step that compares two sources sets `steady`, and every move
clears it.  What `TrainIsCovered` takes as given is what the code leaves open:
source that moves during the smoke, or between the comparison with GitHub and the
capture; a jar that is newer than the head and does not hold it (built from
another or a dirty tree, or before an older commit was pulled); and libraries,
whose commits are compared with no jar.  Where git does not answer, the code takes
the answer for the good one, and so do the actions, which leave any set of
repositories `unread`: a jar that is not compared counts as current
(`smoke_gate.py:230-238`), a working tree as clean and on develop (`138-152`), a
checkout as aligned with GitHub and with nothing to push (`survey.py:63-66`,
`96-98`).  `TrainIsCovered` then speaks of what was compared: an old jar that was not
is `late` in the record, and sources that differ from GitHub's are not `steady`.
Every repository of a train is checked out here; the gate refuses a train with one
that is not (`preflight.py:361-372`).  The checks of a train's preflight that read
nothing modelled are one refusal (`RefuseTrain`).

## The runs

| run | instance | what it shows |
|---|---|---|
| `lifecycle` | 2 processes, 2 versions, 2 tasks, 2 ledgers, 2 faults | type, slot, announcement, abandonment, acceptance, workspace, records only grow; implements `ReleaseContract` |
| `lifecycle_live` | 1 process, 1 version, 2 tasks, 2 ledgers, 3 faults, 3 attempts, circuit at 2 | every command ends; a resumed release settles |
| `lifecycle_frontends` | 1 of each, 1 fault | finding 1 |
| `lifecycle_abandon` | 1 of each, 2 faults | finding 2 |
| `scheduler` | all plans of 3 tasks, 1 or 2 jobs | 6 safety properties and termination |
| `reactor` | connected plans of 3 repositories, 2 jobs | `refs/` is verified, no consumer is refused what it was promised; implements `BuildScheduler` |
| `remotes` | one repository of each kind, 3 acts of others, 2 faults, 3 attempts | one integration commit whatever answers are lost, nothing of others overwritten, evidence before branches; only what is left to the operator keeps a release from completing |
| `workers` | 2 builds that want 3 and 2 of 3 slots, one of which a dead process left; tickets that grow old | slots are exclusive as long as tickets are served in order; every request is served, given up or twelve hours old |
| `workers_exclusive` | the same | finding 3 |
| `preparation` | 73 trains, 18 worlds, 2 acceptances, 2 faults | what is planned is proven, the rehearsal agrees with the plan, what is refused after start was not known before, what is committed is what was sealed; a resumed release is prepared |
| `publication` | 3 repositories of each kind, 2 Maven files, 2 runs of a commit, 1 act of others, 1 fault | what is recorded is published, what is verified is proven; only what an operator must repair keeps a release from acceptance |
| `gate` | 7 hosts, 2 operators, 3 commands, 1 fault, 3 moves, 1 smoke, 2 trains | no tier is served twice, a train carries only smoked source, a host can always be cleaned up |

**Bounds.**  Two processes are enough for any race on one lock, because at most
one is inside; two versions show a slot that changes hands and ledgers of the
other version being pruned; two ledgers allow an attempt to be abandoned and
followed by its successor; two tasks tell "some" from "all" of a stage and let
one build fail while another runs; two faults give a crash followed by a
failure during its recovery (the liveness run has three, one per transient retry
and one crash).  `RetryAttempts` is the code's 5 in the safety run and is
lowered in the liveness run so that its limit is reached within `MaxFaults`.
`MaxLedgers` and `MaxFaults` are the only bounds the code does not have; the
theorems hold for any value of them.  Three tasks are the smallest plan with a
chain, a fork, a join and a task beside a chain; two jobs the smallest number
with overlap.  `MCFrontendReactor` leaves out plans with a repository that no
other uses (it cannot take part in any property but type) and fail-fast (which
only removes behaviours of the scheduler).

In `remotes`, three acts of others are the fewest that use up the three attempts
of `DEVELOPMENT_PUSH_ATTEMPTS`, and two faults allow a lost answer followed by a
crash.  In `workers`, a request for three has a minimum of two, so a take may
get some slots and give them back, and one for two has a minimum of one, so both
may run at once; the slot left behind is what the race of `_claim` needs.  Slots
without an owner come from the two builds themselves, one of which may die
between the directory and its owner.

In `preparation`, a train is the good one with at most one alteration, the worlds
likewise: each alteration is there to be refused by one check, and a pair of them
is refused by whichever comes first.  Two faults allow a write and its undoing,
or a crash before or after a write.  With three, a foreign write can appear after
the hashes are compared and go before the list of changes is read
(`_verify_commit` looks twice); `CommittedIsSealed` does not hold of three such
writes, timed to the command, and the bound leaves them out.

In `publication`, two runs of a commit are what "newest" needs, one fault is one
lost answer or one crash, and one act of others is a move that `Restore` takes back,
or somebody's upload or run.

In `gate`, each host comes with the commands worth typing there and with part of
the bounds spent, so that developers, smokes and trains appear where a stack can
be judged and modes change where no train is dispatched.  Two trains are needed
for a name that is taken and a dispatch that resumes.

`CHECK_DEADLOCK FALSE` stands in each cfg because these systems stop: a release
at rest waits for an operator, and a build that ended does nothing more.

**Fairness.**  `lifecycle_live`: a running command goes on, a child process ends
(each has a time-out in the code), and an operator keeps resuming.  Crash, lost
operations and the commands `start` and `abandon` are not fair.
`scheduler`: the coordinator goes on and every task ends, since no build command
waits for input and cancellation kills the process groups.  Nothing is assumed
of events that can only happen by bad luck.
`remotes`: the operator resumes (`Begin`), a running controller goes on, and a
push ends one way or the other; others and faults are not fair.
`workers`: threads are scheduled and the commands they run end, a process whose
threads are through exits, and time passes (`Pass`), without which an ownerless
slot would stay in use.  Cancellation and death are not fair.

`publication`: the operator resumes and a running controller goes on, uploads
land, indexes catch up, a dispatch that was made starts its run, and runs end.
`preparation`: the operator resumes, the controller goes on, and what is broken in
the world is repaired; writes and crashes are not fair.
`gate`: only once the operators have given up (`recovering`): the daemon is
brought back, the remedies are followed and their commands go on.  No command is
fair before that.

**Mutants.**  Every checked property has one in `PROJECT.json`: a plausible bug
in a mapped definition (a dropped guard, an off-by-one, a missing reset, a
swapped order) under which the same run reports that property.  They stand
directly above the definition they replace, with a comment "Mutant: ...".

## The proofs

### ReleaseLifecycleProofs

For every value of the constants that satisfies the ASSUMEs of
`ReleaseLifecycle` (any number of processes, versions, tasks, ledgers, faults):
`TypeCorrect`, `SlotSafe`, `Announced` (`EffectsAreAnnounced`), `AbandonedSafe`,
`WorkspaceKept`, `ConclusionEarned`, the action property `RecordsGrow`,
`LifecycleImplementsContract`, `NothingIsMissing` and `OnlyStrandedRefused`.

`AbandonedIsLocal` is what matters most: abandoning decides from the ledger
alone.  It is not inductive.  The invariant `IInv` adds what makes it so:

- *what is true whoever looks* (`Outside`): the slot names a ledger
  (`SlotNamesALedger`), a concluded slot's ledger is in a final phase
  (`ConcludedInv`), an abandoned ledger has no external evidence
  (`AbandonedInv`), an operation belongs to a version that has a ledger or
  a slot (`UsedInv`), effects are announced (`EffectsAreAnnounced`), and an
  accepted release has everything (`AcceptedInv`);
- *what a process in the middle of something knows* (`Inside`): at most the
  holder of the lock is not idle (`LockInv`), what each place implies of the
  slot and the ledger (`PlaceInv`), and that between the two writes of `start`
  the new ledger exists and no operation of its version beyond snapshots does
  (`PointerInv`).

`Spec => []IInv` has one lemma per action, and the first four theorems follow
from `IInv`.  What a ledger says of the past needs a second layer, `History`,
which is inductive once `IInv` is known:

- `WorkspaceIsKept` itself, and `RecordsAreTrue`, that a recorded task of an
  external stage has its effect, which is no property of its own: it repeats what
  recording a task asks, and effects do not disappear;
- `PastInv`: a release that is past a stage recorded all of its tasks, also
  when it failed later or is being retried;
- `OrderedInv`: an operation that may still land, whoever issued it and
  whether that process lives, has every earlier stage landed before it.

Each action is also shown to keep the records of the ledger that the slot goes
on naming (`Grown`), which is `RecordsOnlyGrow`.  `ConclusionEarned` follows
from both layers.  `OrderedInv` is also what the refinement rests on: an
operation that lands (`Land`) is an `Effect` of `ReleaseContract`, whose guard
asks that all of the earlier stages be done.  Opening the slot is `Open`
because `PointerInv` says that the version has no effects, and a conclusion is
`Accept` or `Abandon` by `AcceptedInv` and `AbandonedInv`; every other step
leaves the mapped state alone.

A third layer, `WayInv`, is about whether a command can go on.  It says what the
phase of a manifest tells of the rest of it (`ManifestInv`: a workspace once the
frontends are prepared, a policy where development is verified, the verification
where it is past), that a stage belongs to the release and follows the recorded
phase (`StageInv`), and that an external task which is waited for has landed or
is still brought by a child process (`ChildInv`).  From the three layers:

- `NothingIsMissing` (`EvidenceIsThere`): what version stamping, development
  verification and acceptance read again is there, in every order of crashes,
  retries and resumptions.  Effects do not disappear in this model; a recorded
  task that no longer verifies is `PrecheckFails`;
- `OnlyStrandedRefused` (`RefusalsAreKnown`): the search for the stage that
  continues a recorded phase finds one that takes it, except for
  "preparing-frontends" and "abandoned".  So the two findings below are all there
  is, whatever the constants.

This is the safety half of `CommandsEnd` and `Settles`.  No run lists the two
properties; TLC finds them true of the `lifecycle` run's instance as well.

### BuildSchedulerProofs

For plans of any size and any number of jobs: `TypeCorrect`,
`ProducersAreFirst`, `BarriersExclude`, `ReportsAreTrue`, `NoStall`, the action
property `FailFastStops`, and `NobodyWaitsInVain` and `BuildsAreShort`.  The
coordinator's decisions are read from its own books, and the properties speak of
the threads, so the inductive invariant `IInv` relates the two:

- `PlanInv`: the plan's edges are acyclic and a task that is not isolated comes
  after all before it and before all after it (what `dependencies` computes;
  `DependenciesShape` proves it of the operator);
- `BookInv`: what the coordinator has recorded of a task agrees with what its
  thread has done;
- `EventInv`: a queued event tells what its thread has already done;
- `BlockInv`: a blocked task has an unsuccessful producer, and some task failed;
- with `TypeOK`, `ProducersFirst`, `ReportIsTrue` and `NeverStalls` themselves.

`BarriersAreExclusive` follows from `ProducersFirst` and `PlanInv`.  That the
coordinator never waits with nothing to wait for (`NeverStalls`) needs the
acyclicity: a nonempty finite set of remaining tasks has one whose producers are
all through.

What `Ends` rests on is proved too, without fairness:

- `NobodyWaitsInVain`: every task that the coordinator counts as running has its
  end in the queue (`EndsAreHeard`), or a thread that goes on and will put it
  there, so that the blocking `events.get()` of `run_graph` always returns.  The
  event of a task is queued once and taken off once, and only then is the task
  no longer counted;
- `BuildsAreShort`: every step lowers `Effort`, a natural number that starts at
  `5N + 2`.  It weighs a phase of a thread twice, since the event that tells of it
  is still to be heard.  So an interrupted or failing build cannot go round for
  ever either.

A build therefore ends as soon as whoever can take a step takes one; that they do
is the fairness, and stays with TLC.

### WorkerPoolProofs

For any number of processes, threads and slots: `TypeCorrect` and
`OrderlySlots`, which is `OrderlySlotsAreExclusive`.  The property speaks of
running commands; what makes it inductive is about threads in the middle of
`take` and `give`, and, but for the first two, only as long as `disorder` is false:

- `ShapeInv`: what a place in the code says of a thread's own list of slots;
- `StampInv`: tickets have names of their own, and of the living only threads that
  wait or take have one (not the converse: a ticket may have been dropped);
- `FirstInv`: whoever takes is not twelve hours old and is before every ticket that
  stands, so at most one thread takes (`OneTaker`).  `GrowOldKeeps` is the step that
  ages tickets: a taker it reaches sets `disorder`;
- `HoldInv`: a claimed slot that its holder has not begun to remove names the
  holder's process, is not twelve hours old, and is claimed by it alone;
- `FreeInv`: nobody holds the slot that a thread has just made, has judged
  abandoned, or has seen to be twelve hours old.

`FreeInv` is what the race of finding 3 breaks: between the judgement and the
removal another taker may claim the slot.

### FrontendReactorProofs

For plans of any size, any digests and any number of jobs: `RefsVerified`,
`RefusalsUnreachable` and `ReactorImplementsScheduler`.  The last comes first:
every step of an executor is a step of `BuildScheduler` or leaves its variables
alone, so the scheduler's `IInv` holds of the reactor too.  `RInv` adds

- `SurfaceInv`: whatever is resolved or packages early is published, and a
  producer that is resolved is an edge of the plan;
- `ThreadInv`: where an executor is, against what the scheduler's thread did;
- `PackageInv`: a package is available once it was announced or kept, is then
  never replaced, and is unverified with the very bytes that were offered;
- `CopyInv`: what a copy was built on is what the build still offers;
- `AdvertisedInv`: what was kept is advertised or waits for a producer that is
  not, and `refs/` is the advertised part of what is available;
- `SelectionInv`: a selection is made of a build that passed.

`CopyInv` is preserved because a producer's bytes never change while they are
offered.  That nothing waits in the end needs a fact about `Settled`: it is the
largest closed set of waiting packages, so when every thread passed it is all
of them.

### RemoteIntegrationProofs

For each kind of repository, any number of attempts, of pushes by others and of
faults: `TypeCorrect`, `Integrated` (`IntegratedOnce`) and `NothingLost`
(`NothingIsOverwritten`).  A push may arrive after the controller that made it
is gone, so the invariant speaks of pushes in flight:

- `BranchInv`: a branch of the clone is the remote's and one commit of ours on
  top; a push in flight carries it or is stale, and a stale one can no longer
  be accepted as a fast-forward; the remote has a commit of ours only by having
  that one.  For develop this holds while nobody forces the branch back;
- `WrittenInv`: our commit is written on the train's source or on files that
  have not changed since;
- `SeenInv`: what was seen in place stays (the refs of the release's name never
  move again, main keeps our commit);
- `InflightInv`, `PushInv`: a push is made only when those it depends on were
  seen in place;
- `OthersInv`: what others pushed is still there.

### PublicationProofs

For any repositories, Maven release, number of runs, acts of others and faults
(`ReposAssumption`, `FilesAssumption`: there is a Maven release, at places of
its own; `BoundsAssumption`): `TypeCorrect`, `Published`
(`RecordedIsPublished`) and `Proven` (`VerifiedIsProven`, with its premise that no
develop was put back during verification).

- `LiveInv`: the one upload whose answer is awaited is of the place where the
  controller is; those of dead controllers still land, and are ours as well;
- `StoredInv`: everything before the place where the controller is, is stored.
  A place that is ours is replaced by nobody but the train registry's clean-up;
- `PollInv`, `EvidenceInv`: what a poll has found so far, and that a run that
  answered is one that may (of develop, or of the release's own request);
- `PureInv`: during verification, as long as no gated repository is away or was put
  back, every run that the release asked for built every sibling at its integrated
  commit.

### ReleasePreparationProofs

For any trains, worlds and number of faults: `TypeCorrect`, `PlanProven`,
`Settled` (`SettledInTheFirstMinute`), `SealedCommits` and `RehearsalIsAnswer`
(`RehearsalAnswers`).  Assumed of the constants:

- a train's packages bundle the pairs that CEE has, and every bundle holds code
  and counted marks (`TrainsAssumption`); there is a good world
  (`WorldsAssumption`);
- CEE's build is repeatable (`BuildsAssumption`): when the pins that CEE commits
  name the commits the train builds (`PinsFollow`), the package of CEE's CI and the
  train's are builds of one source.  They differ in the version and the pin that
  their build stamped, and in what the minifier and the minute decide (names and
  load trace); the public package was built in another minute.  The code takes this
  for granted: preflight says so when the pins are behind (`preflight.py:854-860`,
  `871-873`), and then the rehearsal only warns.

- `Base`: types, where the controller can be in each stage, and what each step
  relies on;
- `SpreadInv`: what is spread and sealed is the validated build unless somebody
  wrote while it was copied (`raced`);
- `CommitInv`: how many foreign writes are behind content that was not sealed:
  one to get it into a commit, two past the verification of the commit, three
  past the look at the working tree;
- `PureInv`: with no writes, the exact content of every workspace at every step,
  wherever the controller dies;
- `GateInv`: what readiness, plan and preflight asked before the start;
- `SameCodeAgrees`, `SameSourceCompares`: two builds of one source compare equally
  with a third package, each under its own versions.  `RehearsalIsAnswer` rests on
  them: the comparison of the rehearsal and that of the plan are the same function
  of packages that differ only where the comparison looks away.

`SealedCommits` is `[](writes <= 2 => CommittedIsSealed)`.  The bound is part of
the statement because three writes, timed to the command, break the property;
the run has two faults, so there the property stands without it.

### TrainGateProofs

About `Deployment` and `TrainGate` together, for any number of operators,
repositories, commands, faults, moves, smokes and trains: `TypeCorrect`,
`ServedOnce` (`TierServedOnce`), `Covered` (`TrainIsCovered`) and
`RemediesAdmitted` (`RemedyIsAdmitted`).  Assumed of the constants: a behaviour
starts on a host on which no tier is served twice, with a menu of commands that
the command line accepts (`HostsAssumption`), where the mode, the record and what
runs go together as commands given in turn leave them (`KeptAssumption`), and
some repository is served (`TrainGateAssumption`).  Three arguments:

- `HostInv`.  `TierServedOnce` is not inductive, since a command that was
  admitted asks nothing again.  What makes it so: the calls that a command still
  has to make are `Harmless`, meaning that they bring up no tier which the other
  side serves (`HarmlessToGo`), and nobody else is at work unless a command was
  admitted under another (`Alone`).  One lemma for each command shows that what
  `ModeManager` asks at admission makes all of its calls harmless, one for each
  call that it leaves the remaining ones harmless.
- `ModeInv`.  That a remedy is admitted follows from what the modes keep apart
  (`Kept`): no native service under docker mode, no other than the frontends under
  hybrid mode, no Docker frontends in a hybrid deployment, and, with the mode gone,
  one of the three that a mode to select can stop.  It is inductive only with the
  calls to come: each of them still goes with the mode it was admitted under
  (`FitsToGo`), the mode is written by the last one, and a hybrid deployment is
  recorded after the Docker frontends were stopped (`ShapeInv`).  With it
  `Admissions` goes through every state a quiet host can be in.  This is the safety
  half of `AlwaysRecoverable`: nobody is told to do what is then refused, except in
  the circle of `Cornered`, of which the theorem says that both of its commands are
  refused and that adoption is the way out.  No run lists `RemedyIsAdmitted`, as
  `AlwaysRecoverable` covers it there.
- `GateInv`.  A captured train has gone through a smoke, a record, the
  comparison with GitHub and a dispatch, with moves between any two of them.
  `JarInv`: a jar that is neither late nor older than its head was built from
  it.  `SmokeInv`: what a smoke saw is so while it is steady.  The type `Record`:
  what a record says is so.  `TrainInv`, `RunInv`: a dispatch and a run carry a
  passed record of the heads they resume or, while nothing moved, of GitHub's
  (`Covers`).

### Only model-checked

Liveness (`CommandsEnd`, `Settles`, `Ends`, `Completes`, `Served`, `Prepares`,
`AlwaysRecoverable`), since the prover has no backend for fairness and ENABLED.
Of `CommandsEnd`, `Settles`, `Ends` and `AlwaysRecoverable` the parts that need
neither are theorems (`NothingIsMissing`, `OnlyStrandedRefused`,
`NobodyWaitsInVain`, `BuildsAreShort`, `RemediesAdmitted`).
Every invariant and action property of a passing run, and both refinements, are
theorems.

## Findings

1. **An interrupted frontend preparation cannot be resumed**
   (`release_support/lifecycle.py:627`).  The stage table lists
   `preparing-frontends` among the entry phases of the frontends stage;
   `prepare_active_release` refuses it.
2. **A crash inside `release abandon` strands the slot**
   (`release_support/lifecycle.py:587`).  The manifest says "abandoned" and the
   slot is open: start, resume and abandon all refuse.  `Settles` is stated with
   these two windows excepted (`Stranded`), and shows there is no third.
3. **Two commands may hold the same worker slot** (`util/worker_pool.py:186`).  A
   ticket is named before it exists, so a later one may be served meanwhile;
   then two requests take at once, and judging a slot abandoned and removing it
   are separate steps.  `OrderlySlotsAreExclusive` shows that the pool is safe
   whenever that does not happen and no ticket grows old while it is served.

Three further disagreements between the code and what it says have no run of
their own; each is the exception that a property states.

- A living request loses its ticket after twelve hours and polls for ever, though
  the module reckons only with lost holders (`worker_pool.py:34`, `124`): `Aged` in
  `Served`.
- An aggregator run that built a moved sibling counts once the sibling was put
  back, though its proof should be invalid (`development.py:165`): `restored` in
  `VerifiedIsProven`.
- Under a mode without a profile that still runs native services, the two refusals
  name each other's command (`ModeManager.py:85-88`, `154-169`): `Cornered` in
  `RemedyIsAdmitted`.

## Not modelled, and why

Components 9 (the result cache) and 16 (pins) are planned below.  Left out of
the components that are modelled:

- of 1, the read-only commands; of 3, leases, npm retries and runtime
  activation; of 4, the commands of a build and the text of the stamped files;
  of 5, the retirement of old release branches; of 6, packing a tarball;
  of 8, the probes' retries and the reports;
- of 10, the change of the pool's size;
- of 11, the recursion that builds a plan and the sequential executor; of 12,
  process groups and the tracked-state guard, of which `BuildScheduler` assumes
  that a cancelled task ends;
- of 13, `docker build`, status tables, and the probes of acceptance; of 14, the
  contents of a tier's report; of 15, status and reports.

Not planned: component 17, which reads or wraps one external command; the interior
of GitHub Actions, Nexus, Docker and `cedar-services.sh`, which are not in the
repository; and output, reports and timing.

## Plan

Done, in order: `ReleaseLifecycle`, `ReleaseContract` and proofs;
`BuildScheduler` and proofs; `FrontendReactor` on top of it; `RemoteIntegration`;
`WorkerPool` and proof; `Publication`; `CeePromotion`, `ReleaseSource`,
`ReleasePreparation`; `Deployment`; `TrainGate` on top of it; the proofs of
`FrontendReactor`, `RemoteIntegration`, `Publication`, `ReleasePreparation` and
`TrainGate`, and of what the lifecycle records and implements.

To come, in order of weight:

1. `TaskCache`: lookup, promotion by two renames, evidence.
2. `ComponentPins`: one run that publishes and repoints components of components.
3. Pure operators: version arithmetic, classification of a Git checkout.
