--------------------------- MODULE ReleaseLifecycle ---------------------------
(***************************************************************************)
(* The train-backed release controller: the durable slot and ledgers of    *)
(* release_support/state.py, the stages of release_support/lifecycle.py    *)
(* and the start, resume and abandon commands of release_train.py.         *)
(*                                                                         *)
(* Every durable write is a step of its own, so a crash may fall between   *)
(* any two of them.  A task of an external stage is a child process: it    *)
(* does not inherit the lock, survives its controller and may take effect  *)
(* after it.                                                               *)
(***************************************************************************)
EXTENDS Integers, FiniteSets

CONSTANTS
  Controllers,     \* cedarcli processes that may run a release command
  NoController,    \* the holder of a release lock that is free
  Versions,        \* release versions an operator may start
  Tasks,           \* the tasks of each task stage
  MaxLedgers,      \* ledgers of one version that may exist at once
  Jobs,            \* concurrent builds (1..4 in the code)
  RetryAttempts,   \* TRANSIENT_RETRY_ATTEMPTS
  NexusLimit,      \* Nexus failures that open the circuit
  MaxFaults        \* bound on crashes and failures of a behaviour

ASSUME ControllersAssumption == NoController \notin Controllers
ASSUME VersionsAssumption == Versions # {}
ASSUME TasksAssumption == IsFiniteSet(Tasks) /\ Tasks # {}
ASSUME BoundsAssumption ==
  /\ MaxLedgers \in Nat \ {0}
  /\ Jobs \in 1..4
  /\ RetryAttempts \in Nat \ {0}
  /\ NexusLimit \in Nat \ {0}
  /\ MaxFaults \in Nat

VARIABLES
  current,    \* current.json: the ledger it names and the slot's status
  ledger,     \* releases/<version>[-attempt-NNN].json
  attempts,   \* attempts/<version>/<number>: the workspaces on disk
  holder,     \* the process that holds release.lock
  pc,         \* where each controller is
  mem,        \* each controller's local variables
  inflight,   \* external operations some child process is running
  world,      \* external operations that have taken effect
  faults      \* crashes and failures so far

vars == <<current, ledger, attempts, holder, pc, mem, inflight, world, faults>>

----------------------------------------------------------------------------
(* The stage table. *)

External == {"snapshots", "remotes", "artifacts"}
TaskStages == {"builds", "local-refs"} \union External
Stages == TaskStages \union {"frontends", "versions", "development", "acceptance"}

RunningPhase(s) ==
  CASE s = "frontends"   -> "preparing-frontends"
    [] s = "versions"    -> "preparing-versions"
    [] s = "builds"      -> "validating-builds"
    [] s = "local-refs"  -> "creating-local-refs"
    [] s = "snapshots"   -> "publishing-snapshots"
    [] s = "remotes"     -> "integrating-remotes"
    [] s = "artifacts"   -> "publishing-artifacts"
    [] s = "development" -> "verifying-development"
    [] s = "acceptance"  -> "accepting"             \* never written

FailedPhase(s) ==
  CASE s = "frontends"   -> "frontend-preparation-failed"
    [] s = "versions"    -> "version-preparation-failed"
    [] s = "builds"      -> "build-validation-failed"
    [] s = "local-refs"  -> "local-ref-creation-failed"
    [] s = "snapshots"   -> "snapshot-publication-failed"
    [] s = "remotes"     -> "remote-integration-failed"
    [] s = "artifacts"   -> "artifact-publication-failed"
    [] s = "development" -> "development-verification-failed"
    [] s = "acceptance"  -> "acceptance-failed"

DonePhase(s) ==
  CASE s = "frontends"   -> "frontends-prepared"
    [] s = "versions"    -> "versions-prepared"
    [] s = "builds"      -> "builds-validated"
    [] s = "local-refs"  -> "local-refs-created"
    [] s = "snapshots"   -> "snapshots-published"
    [] s = "remotes"     -> "remote-integrated"
    [] s = "artifacts"   -> "artifacts-published"
    [] s = "development" -> "development-verified"
    [] s = "acceptance"  -> "accepted"

\* The stage whose work follows s, and the phase that s starts from.
\* dev: the manifest carries a developmentVerificationPolicy.
NextStage(s, dev) ==
  CASE s = "frontends"   -> "versions"
    [] s = "versions"    -> "builds"
    [] s = "builds"      -> "local-refs"
    [] s = "local-refs"  -> "snapshots"
    [] s = "snapshots"   -> "remotes"
    [] s = "remotes"     -> "artifacts"
    [] s = "artifacts"   -> IF dev THEN "development" ELSE "acceptance"
    [] s = "development" -> "acceptance"
    [] s = "acceptance"  -> "acceptance"

StartPhase(s, dev) ==
  CASE s = "frontends"   -> "started"
    [] s = "versions"    -> "frontends-prepared"
    [] s = "builds"      -> "versions-prepared"
    [] s = "local-refs"  -> "builds-validated"
    [] s = "snapshots"   -> "local-refs-created"
    [] s = "remotes"     -> "snapshots-published"
    [] s = "artifacts"   -> "remote-integrated"
    [] s = "development" -> "artifacts-published"
    [] s = "acceptance"  -> IF dev THEN "development-verified" ELSE "artifacts-published"

RewindToFrontends == {"preparing-versions", "version-preparation-failed"}

\* entry_phases of a stage: what the search for the first stage reads.
EntryPhases(s, dev) ==
  CASE s = "versions"   -> {"frontends-prepared"}
    [] s = "acceptance" -> {StartPhase(s, dev), "acceptance-failed"}
    [] OTHER            -> {StartPhase(s, dev), RunningPhase(s), FailedPhase(s)}

\* Mutant: a stage that forgets one of its own phases.
AcceptedPhasesForgetful(s, dev) ==
  IF s = "frontends" THEN {"started", "frontend-preparation-failed"}
                     ELSE EntryPhases(s, dev) \ {"creating-local-refs"}

\* The phases the stage's own function goes on from.
AcceptedPhases(s, dev) ==
  IF s = "frontends" THEN {"started", "frontend-preparation-failed"}
                     ELSE EntryPhases(s, dev)

\* The stages of a release, and those a release in phase p may be sent to.
StagesOf(dev) == IF dev THEN Stages ELSE Stages \ {"development"}
Continues(p, dev) == {s \in StagesOf(dev) : p \in EntryPhases(s, dev)}

Phases ==
  {"absent", "started", "abandoned"}
    \union {RunningPhase(s) : s \in Stages \ {"acceptance"}}
    \union {FailedPhase(s) : s \in Stages}
    \union {DonePhase(s) : s \in Stages}

Abandonable ==
  {"started"}
    \union {RunningPhase(s) : s \in {"frontends", "versions", "builds", "local-refs"}}
    \union {FailedPhase(s) : s \in {"frontends", "versions", "builds", "local-refs"}}
    \union {DonePhase(s) : s \in {"frontends", "versions", "builds", "local-refs"}}

\* RetryableReleaseError survives every stage but two, which wrap each failure
\* in a plain ReleaseError.
FailureKinds(s) ==
  IF s \in {"builds", "development"} THEN {"fatal"} ELSE {"fatal", "transient", "nexus"}

JobsOf(s) == IF s = "builds" THEN Jobs ELSE 1

----------------------------------------------------------------------------
(* The state. *)

LedgerIds == Versions \X (1..MaxLedgers)
Operations == Versions \X External \X Tasks
NoTasks == [s \in TaskStages |-> {}]

\* A manifest as one record; a ledger that does not exist is in phase "absent".
\* sections: the stages whose evidence object the manifest holds.
Manifest(phase, dev) ==
  [phase |-> phase, dev |-> dev, sections |-> {}, completed |-> NoTasks,
   workspace |-> 0, verified |-> FALSE]
NoManifest == Manifest("absent", FALSE)

Manifests ==
  [phase : Phases, dev : BOOLEAN, sections : SUBSET TaskStages,
   completed : [TaskStages -> SUBSET Tasks], workspace : Nat, verified : BOOLEAN]

\* A controller's locals: the ledger it is starting, the stage it is in, the
\* tasks it has running, the worst failure of the stage, and the counters of
\* _drive_release.
Driving(path, attempt, nexus) ==
  [path |-> path, stage |-> "frontends", running |-> {}, failed |-> "none",
   attempt |-> attempt, nexus |-> nexus]
Idle(path) == Driving(path, 1, 0)

Locals ==
  [path : LedgerIds, stage : Stages, running : SUBSET Tasks,
   failed : {"none", "fatal", "transient", "nexus"},
   attempt : 1..RetryAttempts, nexus : 0..(NexusLimit - 1)]

Places == {"idle", "pointer", "prune", "drive", "stage", "work", "tasks", "accepted", "abandoned"}

Init ==
  /\ current \in [name : LedgerIds, status : {"absent"}]
  /\ ledger = [l \in LedgerIds |-> NoManifest]
  /\ attempts = {}
  /\ holder = NoController
  /\ pc = [c \in Controllers |-> "idle"]
  /\ mem = [c \in Controllers |-> Idle(current.name)]
  /\ inflight = {}
  /\ world = {}
  /\ faults = 0

\* What read_current_manifest returns, and the version it is about.
active == ledger[current.name]
activeVersion == current.name[1]

Exists(l) == ledger[l].phase # "absent"

\* update_current_manifest.
Update(m) == ledger' = [ledger EXCEPT ![current.name] = m]

\* The largest attempt number in use for a version, 0 when there is none: one
\* element.
LatestAttempt(v) ==
  LET used == {0} \union {a[2] : a \in {b \in attempts : b[1] = v}}
  IN  {n \in used : \A m \in used : m <= n}

Op(s, t) == <<activeVersion, s, t>>
Landed(v, s) == \A t \in Tasks : <<v, s, t>> \in world

Goto(c, place) == pc' = [pc EXCEPT ![c] = place]
Exit(c) ==
  /\ Goto(c, "idle")
  /\ mem' = [mem EXCEPT ![c] = Idle(mem[c].path)]
  /\ holder' = NoController

NextLedgerPath(v) ==
  IF ~Exists(<<v, 1>>)
  THEN {<<v, 1>>}
  ELSE IF current.name[1] = v /\ current.status = "abandoned"
       THEN {l \in LedgerIds : /\ l[1] = v
                               /\ l[2] > 1
                               /\ ~Exists(l)
                               /\ \A n \in 2..(l[2] - 1) : Exists(<<v, n>>)}
       ELSE {}

----------------------------------------------------------------------------
(* The commands.  A refused command changes nothing and is not a step. *)

LockFree == holder = NoController

\* Mutant: commands do not exclude one another.
AcquireShared(c) == pc[c] = "idle" /\ holder' = c

Acquire(c) ==
  /\ pc[c] = "idle"
  /\ LockFree
  /\ holder' = c

\* Mutant: start does not look at the slot.
StartOverActive(c, v, dev) ==
  /\ Acquire(c)
  /\ \A op \in world : op[1] = v => op[2] = "snapshots"
  /\ \E l \in NextLedgerPath(v) :
       /\ ledger' = [ledger EXCEPT ![l] = Manifest("started", dev)]
       /\ mem' = [mem EXCEPT ![c] = Idle(l)]
  /\ Goto(c, "pointer")
  /\ UNCHANGED <<current, attempts, inflight, world, faults>>

\* release start: the gate finds the version's refs and release artifacts
\* unused, the slot is free, and ReleaseState.start writes the new ledger.
Start(c, v, dev) ==
  /\ Acquire(c)
  /\ \A op \in world : op[1] = v => op[2] = "snapshots"
  /\ current.status # "open"
  /\ \E l \in NextLedgerPath(v) :
       /\ ledger' = [ledger EXCEPT ![l] = Manifest("started", dev)]
       /\ mem' = [mem EXCEPT ![c] = Idle(l)]
  /\ Goto(c, "pointer")
  /\ UNCHANGED <<current, attempts, inflight, world, faults>>

\* ... then the pointer, a second file ...
WritePointer(c) ==
  /\ pc[c] = "pointer"
  /\ current' = [name |-> mem[c].path, status |-> "open"]
  /\ Goto(c, "prune")
  /\ UNCHANGED <<ledger, attempts, holder, mem, inflight, world, faults>>

\* ... then _prune_obsolete removes every other workspace and then every other
\* ledger, one at a time.
Obsolete == {a \in attempts : a # <<activeVersion, active.workspace>>}
ObsoleteLedgers == {l \in LedgerIds : Exists(l) /\ l # current.name}

PruneAttempt(c) ==
  /\ pc[c] = "prune"
  /\ \E a \in Obsolete : attempts' = attempts \ {a}
  /\ UNCHANGED <<current, ledger, holder, pc, mem, inflight, world, faults>>

PruneLedger(c) ==
  /\ pc[c] = "prune"
  /\ Obsolete = {}
  /\ \E l \in ObsoleteLedgers : ledger' = [ledger EXCEPT ![l] = NoManifest]
  /\ UNCHANGED <<current, attempts, holder, pc, mem, inflight, world, faults>>

FinishPrune(c) ==
  /\ pc[c] = "prune"
  /\ Obsolete = {} /\ ObsoleteLedgers = {}
  /\ Goto(c, "drive")
  /\ UNCHANGED <<current, ledger, attempts, holder, mem, inflight, world, faults>>

\* release resume.
Resume(c) ==
  /\ Acquire(c)
  /\ current.status # "absent"
  /\ Goto(c, "drive")
  /\ UNCHANGED <<current, ledger, attempts, mem, inflight, world, faults>>

\* Mutant: abandonment looks for completed external tasks alone.
AbandonUnrecorded(c) ==
  /\ Acquire(c)
  /\ current.status = "open"
  /\ \A s \in External : active.completed[s] = {}
  /\ Update([active EXCEPT !.phase = "abandoned"])
  /\ Goto(c, "abandoned")
  /\ UNCHANGED <<current, attempts, mem, inflight, world, faults>>

\* release abandon: the manifest first, the slot after it.
Abandon(c) ==
  /\ Acquire(c)
  /\ current.status = "open"
  /\ active.phase \in Abandonable
  /\ active.sections \intersect External = {}
  /\ Update([active EXCEPT !.phase = "abandoned"])
  /\ Goto(c, "abandoned")
  /\ UNCHANGED <<current, attempts, mem, inflight, world, faults>>

\* ReleaseState.conclude, and the end of the command.
Conclude(c) ==
  /\ pc[c] \in {"accepted", "abandoned"}
  /\ current' = IF current.status = "open" THEN [current EXCEPT !.status = pc[c]] ELSE current
  /\ Exit(c)
  /\ UNCHANGED <<ledger, attempts, inflight, world, faults>>

----------------------------------------------------------------------------
(* Driving the release: advance_active_release under _drive_release. *)

\* Find the stage that continues the recorded phase.  Half-stamped versions
\* rewind to the frontends.
Dispatch(c) ==
  /\ pc[c] = "drive"
  /\ LET rewound == IF active.phase \in RewindToFrontends
                    THEN [active EXCEPT !.phase = "frontend-preparation-failed"]
                    ELSE active
     IN  \E s \in Continues(rewound.phase, rewound.dev) :
           /\ Update(rewound)
           /\ mem' = [mem EXCEPT ![c].stage = s]
  /\ Goto(c, "stage")
  /\ UNCHANGED <<current, attempts, holder, inflight, world, faults>>

\* Mutant: every final phase is concluded as accepted.
DispatchFinal(c) ==
  /\ pc[c] = "drive"
  /\ active.phase \in {"accepted", "abandoned"}
  /\ Goto(c, "accepted")
  /\ UNCHANGED <<current, ledger, attempts, holder, mem, inflight, world, faults>>

\* An accepted release only needs its slot released.
DispatchAccepted(c) ==
  /\ pc[c] = "drive"
  /\ active.phase = "accepted"
  /\ Goto(c, "accepted")
  /\ UNCHANGED <<current, ledger, attempts, holder, mem, inflight, world, faults>>

\* A phase no stage continues (an abandoned release) is refused, and so is one
\* the stage's own function does not go on from.
Refuse(c) ==
  /\ \/ /\ pc[c] = "drive"
        /\ active.phase \notin RewindToFrontends \union {"accepted"}
        /\ Continues(active.phase, active.dev) = {}
     \/ /\ pc[c] = "stage"
        /\ active.phase \notin AcceptedPhases(mem[c].stage, active.dev)
  /\ Exit(c)
  /\ UNCHANGED <<current, ledger, attempts, inflight, world, faults>>

\* A ReleaseError leaves a stage: the command ends, or _drive_release retries.
Fault == faults < MaxFaults /\ faults' = faults + 1

\* Mutant: the circuit opens one failure late.
RaiseLate(c, kind) ==
  LET nexus == mem[c].nexus + (IF kind = "nexus" THEN 1 ELSE 0)
  IN  IF kind = "fatal" \/ nexus > NexusLimit \/ mem[c].attempt = RetryAttempts
      THEN Exit(c)
      ELSE /\ Goto(c, "drive")
           /\ mem' = [mem EXCEPT ![c] = Driving(mem[c].path, mem[c].attempt + 1, nexus)]
           /\ holder' = holder

Raise(c, kind) ==
  LET nexus == mem[c].nexus + (IF kind = "nexus" THEN 1 ELSE 0)
  IN  IF kind = "fatal" \/ nexus >= NexusLimit \/ mem[c].attempt = RetryAttempts
      THEN Exit(c)
      ELSE /\ Goto(c, "drive")
           /\ mem' = [mem EXCEPT ![c] = Driving(mem[c].path, mem[c].attempt + 1, nexus)]
           /\ holder' = holder

Entering(c, s) ==
  /\ pc[c] = "stage"
  /\ mem[c].stage = s
  /\ active.phase \in AcceptedPhases(s, active.dev)

\* The next stage follows within the same advance_active_release.
Proceed(c) ==
  /\ Goto(c, "stage")
  /\ mem' = [mem EXCEPT ![c].stage = NextStage(mem[c].stage, active.dev),
                        ![c].running = {}]

----------------------------------------------------------------------------
(* The single-shot stages: frontends, versions, development. *)

\* Mutant: a new try removes the version's earlier workspaces first.
EnterFrontendsReplacing(c) ==
  /\ Entering(c, "frontends")
  /\ Update([active EXCEPT !.phase = "preparing-frontends"])
  /\ \E n \in LatestAttempt(activeVersion) :
       attempts' = {a \in attempts : a[1] # activeVersion} \union {<<activeVersion, n + 1>>}
  /\ Goto(c, "work")
  /\ UNCHANGED <<current, holder, mem, inflight, world, faults>>

\* prepare_active_release takes a fresh workspace for every try.
EnterFrontends(c) ==
  /\ Entering(c, "frontends")
  /\ Update([active EXCEPT !.phase = "preparing-frontends"])
  /\ \E n \in LatestAttempt(activeVersion) :
       attempts' = attempts \union {<<activeVersion, n + 1>>}
  /\ Goto(c, "work")
  /\ UNCHANGED <<current, holder, mem, inflight, world, faults>>

EnterShot(c) ==
  /\ \E s \in {"versions", "development"} :
       /\ Entering(c, s)
       /\ Update([active EXCEPT !.phase = RunningPhase(s)])
  /\ Goto(c, "work")
  /\ UNCHANGED <<current, attempts, holder, mem, inflight, world, faults>>

\* What the stage reads again before it may succeed: version stamping its
\* frontend workspace, development verification every remote and artifact.
ShotMaySucceed(s) ==
  CASE s = "frontends"   -> TRUE
    [] s = "versions"    -> <<activeVersion, active.workspace>> \in attempts
    [] s = "development" -> \A e \in External : active.completed[e] = Tasks /\ Landed(activeVersion, e)

ShotSucceeds(c) ==
  /\ pc[c] = "work"
  /\ LET s == mem[c].stage
     IN  /\ ShotMaySucceed(s)
         /\ \E n \in LatestAttempt(activeVersion) :
              Update([active EXCEPT
                !.phase = DonePhase(s),
                !.workspace = IF s = "frontends" THEN n ELSE active.workspace,
                !.verified = active.verified \/ s = "development"])
  /\ Proceed(c)
  /\ UNCHANGED <<current, attempts, holder, inflight, world, faults>>

ShotFails(c) ==
  /\ pc[c] = "work"
  /\ Fault
  /\ Update([active EXCEPT !.phase = FailedPhase(mem[c].stage)])
  /\ \E kind \in FailureKinds(mem[c].stage) : Raise(c, kind)
  /\ UNCHANGED <<current, attempts, inflight, world>>

----------------------------------------------------------------------------
(* The task stages: builds, local refs, snapshots, remotes, artifacts.     *)
(* The running phase and the evidence object are durable before any task   *)
(* runs, and each task's record after it succeeded.                        *)

\* Mutant: a stage entered again starts its evidence afresh.
EnterTasksAfresh(c) ==
  /\ \E s \in TaskStages :
       /\ Entering(c, s)
       /\ Update([active EXCEPT !.phase = RunningPhase(s), !.completed[s] = {},
                                !.sections = active.sections \union {s}])
  /\ Goto(c, "tasks")
  /\ UNCHANGED <<current, attempts, holder, mem, inflight, world, faults>>

\* Mutant: the evidence of a stage is written with the first task that is done.
EnterTasksUnannounced(c) ==
  /\ \E s \in TaskStages :
       /\ Entering(c, s)
       /\ Update([active EXCEPT !.phase = RunningPhase(s)])
  /\ Goto(c, "tasks")
  /\ UNCHANGED <<current, attempts, holder, mem, inflight, world, faults>>

EnterTasks(c) ==
  /\ \E s \in TaskStages :
       /\ Entering(c, s)
       /\ Update([active EXCEPT !.phase = RunningPhase(s),
                                !.sections = active.sections \union {s}])
  /\ Goto(c, "tasks")
  /\ UNCHANGED <<current, attempts, holder, mem, inflight, world, faults>>

\* A recorded task no longer verifies, or Nexus is not ready: the stage raises
\* before it writes anything.
PrecheckFails(c) ==
  /\ \E s \in TaskStages :
       /\ Entering(c, s)
       /\ Fault
       /\ \E kind \in FailureKinds(s) : Raise(c, kind)
  /\ UNCHANGED <<current, ledger, attempts, inflight, world>>

\* A task whose operation has already taken effect finds it done.
StartTask(c, t) ==
  /\ pc[c] = "tasks"
  /\ mem[c].failed = "none"
  /\ Cardinality(mem[c].running) < JobsOf(mem[c].stage)
  /\ t \notin mem[c].running
  /\ t \notin active.completed[mem[c].stage]
  /\ mem' = [mem EXCEPT ![c].running = mem[c].running \union {t}]
  /\ inflight' = IF mem[c].stage \in External /\ Op(mem[c].stage, t) \notin world
                 THEN inflight \union {Op(mem[c].stage, t)}
                 ELSE inflight
  /\ UNCHANGED <<current, ledger, attempts, holder, pc, world, faults>>

FinishTask(c, t) ==
  /\ pc[c] = "tasks"
  /\ t \in mem[c].running
  /\ LET s == mem[c].stage
     IN  /\ s \in External => Op(s, t) \in world
         /\ Update([active EXCEPT !.completed[s] = active.completed[s] \union {t}])
  /\ mem' = [mem EXCEPT ![c].running = mem[c].running \ {t}]
  /\ UNCHANGED <<current, attempts, holder, pc, inflight, world, faults>>

\* A fatal failure ends the child process.  A transient one is a lost answer:
\* the operation may still take effect.
FailTask(c, t) ==
  /\ pc[c] = "tasks"
  /\ t \in mem[c].running
  /\ Fault
  /\ \E kind \in FailureKinds(mem[c].stage) :
       /\ mem' = [mem EXCEPT ![c].running = mem[c].running \ {t}, ![c].failed = kind]
       /\ inflight' = IF kind = "fatal" /\ mem[c].stage \in External
                      THEN inflight \ {Op(mem[c].stage, t)} ELSE inflight
  /\ UNCHANGED <<current, ledger, attempts, holder, pc, world>>

\* Mutant: a failed stage waits for its queue, and not for what is running.
TasksFailQueued(c) ==
  /\ pc[c] = "tasks"
  /\ mem[c].failed # "none"
  /\ Cardinality(Tasks \ active.completed[mem[c].stage]) = 1
  /\ Update([active EXCEPT !.phase = FailedPhase(mem[c].stage)])
  /\ Raise(c, mem[c].failed)
  /\ UNCHANGED <<current, attempts, inflight, world, faults>>

\* The builds still running when one failed are drained and recorded first.
TasksFail(c) ==
  /\ pc[c] = "tasks"
  /\ mem[c].failed # "none"
  /\ mem[c].running = {}
  /\ Update([active EXCEPT !.phase = FailedPhase(mem[c].stage)])
  /\ Raise(c, mem[c].failed)
  /\ UNCHANGED <<current, attempts, inflight, world, faults>>

TasksSucceed(c) ==
  /\ pc[c] = "tasks"
  /\ mem[c].failed = "none"
  /\ active.completed[mem[c].stage] = Tasks
  /\ Update([active EXCEPT !.phase = DonePhase(mem[c].stage)])
  /\ Proceed(c)
  /\ UNCHANGED <<current, attempts, holder, inflight, world, faults>>

----------------------------------------------------------------------------
(* Acceptance, which reads everything again and writes no running phase. *)

Accept(c) ==
  /\ Entering(c, "acceptance")
  /\ active.dev => active.verified
  /\ \A s \in External : active.completed[s] = Tasks /\ Landed(activeVersion, s)
  /\ Update([active EXCEPT !.phase = "accepted"])
  /\ Goto(c, "accepted")
  /\ UNCHANGED <<current, attempts, holder, mem, inflight, world, faults>>

AcceptFails(c) ==
  /\ Entering(c, "acceptance")
  /\ Fault
  /\ Update([active EXCEPT !.phase = "acceptance-failed"])
  /\ \E kind \in FailureKinds("acceptance") : Raise(c, kind)
  /\ UNCHANGED <<current, attempts, inflight, world>>

----------------------------------------------------------------------------
(* The environment. *)

\* Child processes and the services they talk to.
Land(op) ==
  /\ op \in inflight
  /\ inflight' = inflight \ {op}
  /\ world' = world \union {op}
  /\ UNCHANGED <<current, ledger, attempts, holder, pc, mem, faults>>

\* The operation of a task no controller waits for any more is lost.
Lose(op) ==
  /\ op \in inflight
  /\ \A c \in Controllers : mem[c].stage = op[2] => op[3] \notin mem[c].running
  /\ inflight' = inflight \ {op}
  /\ UNCHANGED <<current, ledger, attempts, holder, pc, mem, world, faults>>

\* A crash, a kill or Ctrl-C: the system releases the lock.
Crash(c) ==
  /\ pc[c] # "idle"
  /\ Fault
  /\ Exit(c)
  /\ UNCHANGED <<current, ledger, attempts, inflight, world>>

----------------------------------------------------------------------------

Step(c) ==
  \/ WritePointer(c) \/ PruneAttempt(c) \/ PruneLedger(c) \/ FinishPrune(c)
  \/ Dispatch(c) \/ DispatchAccepted(c) \/ Refuse(c) \/ Conclude(c)
  \/ EnterFrontends(c) \/ EnterShot(c) \/ ShotSucceeds(c)
  \/ EnterTasks(c) \/ (\E t \in Tasks : StartTask(c, t) \/ FinishTask(c, t))
  \/ TasksFail(c) \/ TasksSucceed(c) \/ Accept(c)

Failure(c) ==
  \/ ShotFails(c) \/ PrecheckFails(c) \/ (\E t \in Tasks : FailTask(c, t))
  \/ AcceptFails(c) \/ Crash(c)

Command(c) ==
  \/ \E v \in Versions, dev \in BOOLEAN : Start(c, v, dev)
  \/ Resume(c) \/ Abandon(c)

Next ==
  \/ \E c \in Controllers : Command(c) \/ Step(c) \/ Failure(c)
  \/ \E op \in Operations : Land(op) \/ Lose(op)

Spec == Init /\ [][Next]_vars

\* A running command goes on, child processes finish, and an operator resumes a
\* release until its slot is released.
Fairness ==
  /\ \A c \in Controllers : WF_vars(Step(c))
  /\ \A op \in Operations : WF_vars(Land(op))
  /\ WF_vars(\E c \in Controllers : Resume(c))

FairSpec == Spec /\ Fairness

----------------------------------------------------------------------------
(* Properties. *)

TypeOK ==
  /\ current \in [name : LedgerIds, status : {"absent", "open", "accepted", "abandoned"}]
  /\ ledger \in [LedgerIds -> Manifests]
  /\ attempts \subseteq Versions \X (Nat \ {0})
  /\ holder \in Controllers \union {NoController}
  /\ pc \in [Controllers -> Places]
  /\ mem \in [Controllers -> Locals]
  /\ inflight \subseteq Operations
  /\ world \subseteq Operations
  /\ faults \in 0..MaxFaults

\* The slot never names a ledger that is not there: not between the two writes
\* of start, not while obsolete ledgers are pruned, not after a crash.
SlotNamesALedger == current.status # "absent" => Exists(current.name)

\* An external operation of the active version, landed or still running in a
\* child process, is announced by its stage's evidence in the active ledger: also
\* after a crash, a lost answer, a rewind, or a new attempt at the same version.
\* Abandonment relies on it: it reads nothing else.
EffectsAreAnnounced ==
  \A op \in world \union inflight :
    current.status # "absent" /\ op[1] = activeVersion => op[2] \in active.sections

\* An abandoned release left no trace outside, and no child process that could
\* still leave one.
AbandonedIsLocal ==
  current.status # "absent" /\ active.phase = "abandoned"
    => \A op \in world \union inflight : op[1] # activeVersion

\* A slot released as accepted or abandoned belongs to a release in that phase,
\* and an accepted release did everything, with its development verified when
\* its policy asks for it.
ConclusionIsEarned ==
  /\ current.status \in {"accepted", "abandoned"} => active.phase = current.status
  /\ \A l \in LedgerIds : ledger[l].phase = "accepted" =>
       /\ \A s \in TaskStages : ledger[l].completed[s] = Tasks
       /\ \A s \in External : Landed(l[1], s)
       /\ ledger[l].dev => ledger[l].verified

\* Past the frontends, the workspace the ledger records is on disk.
WorkspaceIsKept ==
  current.status # "absent" /\ active.workspace # 0
    => <<activeVersion, active.workspace>> \in attempts

\* While the slot keeps naming a ledger, its records are never dropped: a
\* failure, a retry or a rewind forgets no task that was done.
RecordsOnlyGrow ==
  [][current' = current /\ current.status # "absent"
       => \A s \in TaskStages : active.completed[s] \subseteq active'.completed[s]]_vars

\* Every command ends, with its builds drained and its retries spent.
CommandsEnd == \A c \in Controllers : pc[c] # "idle" ~> pc[c] = "idle"

\* The two crash windows resume does not get out of: a crash while frontends
\* are prepared (the operator may still abandon), and one between the two
\* writes of abandon.
Stranded ==
  /\ current.status = "open"
  /\ LockFree
  /\ active.phase \in {"preparing-frontends", "abandoned"}

\* Otherwise a release that is resumed often enough releases its slot.
Settles == current.status = "open" ~> (current.status # "open" \/ Stranded)

\* "Ordering them instead makes resumption a search for the first stage that
\* can still take the recorded phase" (lifecycle.py:603): the stage the search
\* finds for the recorded phase goes on from it.
FoundStageTakesThePhase ==
  current.status = "open" /\ LockFree =>
    \A s \in Continues(active.phase, active.dev) :
      active.phase \in AcceptedPhases(s, active.dev)

\* "Conclude a local-only attempt" (lifecycle.py:556): an abandoned attempt
\* does not hold the slot for ever.
AbandonedSlotIsReleased ==
  current.status = "open" /\ active.phase = "abandoned" ~> current.status # "open"

----------------------------------------------------------------------------
(* The contract it implements. *)

Contract == INSTANCE ReleaseContract WITH
  slot <- IF current.status = "absent" THEN "empty" ELSE current.status,
  done <- IF current.status = "absent" THEN {}
          ELSE {e \in External \X Tasks : <<activeVersion, e[1], e[2]>> \in world}

\* The controller implements the contract: crashes, retries, orphaned child
\* processes and pruning are stuttering steps of it.
ImplementsContract == Contract!Spec
=============================================================================
