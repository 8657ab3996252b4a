------------------------ MODULE ReleaseLifecycleProofs ------------------------
(***************************************************************************)
(* What TLAPS proves of the release controller, for every set of           *)
(* controllers, versions and tasks and every bound.                        *)
(***************************************************************************)
EXTENDS ReleaseLifecycle, TLAPS

----------------------------------------------------------------------------
(* The inductive invariant. *)

\* The lock is held exactly by the controller that is running.
LockInv == \A c \in Controllers : pc[c] # "idle" <=> holder = c

\* What a controller may rely on where it is.
PlaceInv ==
  \A c \in Controllers :
    /\ pc[c] \in {"prune", "stage", "work", "tasks"} => current.status = "open"
    /\ pc[c] \in {"drive", "accepted", "abandoned"} => current.status # "absent"
    /\ pc[c] \in {"accepted", "abandoned"} => active.phase = pc[c]
    /\ pc[c] \in {"work", "tasks"} => active.phase = RunningPhase(mem[c].stage)
    /\ pc[c] = "work" => mem[c].stage \in {"frontends", "versions", "development"}
    /\ pc[c] = "tasks" => mem[c].stage \in TaskStages /\ mem[c].stage \in active.sections

\* Between the two writes of start the new ledger is blank, nothing holds the
\* slot and the outside has never heard of the version.
PointerInv ==
  \A c \in Controllers : pc[c] = "pointer" =>
    /\ ledger[mem[c].path].phase = "started"
    /\ ledger[mem[c].path].sections = {}
    /\ ledger[mem[c].path].workspace = 0
    /\ current.status # "open"
    /\ \A op \in world \union inflight : op[1] # mem[c].path[1]

ConcludedInv == current.status \in {"accepted", "abandoned"} => active.phase = current.status

AbandonedInv ==
  \A l \in LedgerIds : ledger[l].phase = "abandoned" => ledger[l].sections \intersect External = {}

\* A version the outside has heard of is the open one, or was released.
UsedInv ==
  \A op \in world \union inflight :
    (current.status = "open" /\ op[1] = activeVersion) \/ Landed(op[1], "artifacts")

\* An accepted release has landed everything.
AcceptedInv ==
  \A l \in LedgerIds : ledger[l].phase = "accepted" =>
    /\ \A s \in External : Landed(l[1], s)
    /\ ledger[l].dev => ledger[l].verified

\* What holds of the files and of the world, and of the running commands.
Outside ==
  /\ SlotNamesALedger
  /\ ConcludedInv
  /\ AbandonedInv
  /\ UsedInv
  /\ EffectsAreAnnounced
  /\ AcceptedInv

Inside == LockInv /\ PlaceInv /\ PointerInv

IInv == TypeOK /\ Outside /\ Inside

----------------------------------------------------------------------------
(* Facts about the tables. *)

\* Every phase a stage writes is a phase of a manifest.
LEMMA PhaseTypes ==
  /\ \A s \in Stages \ {"acceptance"} : RunningPhase(s) \in Phases
  /\ \A s \in Stages : FailedPhase(s) \in Phases /\ DonePhase(s) \in Phases
  /\ "absent" \in Phases /\ "started" \in Phases /\ "abandoned" \in Phases
  /\ "accepted" \in Phases
  /\ "frontend-preparation-failed" \in Phases
  /\ "preparing-frontends" \in Phases
  /\ "acceptance-failed" \in Phases
<1>1. "accepted" = DonePhase("acceptance") /\ "acceptance-failed" = FailedPhase("acceptance")
  BY DEF DonePhase, FailedPhase
<1>2. /\ "frontend-preparation-failed" = FailedPhase("frontends")
      /\ "preparing-frontends" = RunningPhase("frontends")
  BY DEF RunningPhase, FailedPhase
<1> QED BY <1>1, <1>2 DEF Phases, Stages, TaskStages, External

\* NextStage stays among the stages.
LEMMA NextStageType == \A s \in Stages, dev \in BOOLEAN : NextStage(s, dev) \in Stages
BY DEF NextStage, Stages, TaskStages, External

----------------------------------------------------------------------------
(* Type correctness. *)

LEMMA ActiveType ==
  ASSUME TypeOK
  PROVE  /\ current.name \in LedgerIds
         /\ active \in Manifests
         /\ activeVersion \in Versions
BY DEF TypeOK, active, activeVersion, LedgerIds

\* Writing a manifest keeps the ledgers' type.
LEMMA UpdateType ==
  ASSUME TypeOK, NEW m \in Manifests, Update(m)
  PROVE  ledger' \in [LedgerIds -> Manifests]
BY ActiveType DEF TypeOK, Update

\* The ways a controller leaves a step keep the types of its locals.
LEMMA ExitType ==
  ASSUME TypeOK, NEW c \in Controllers, Exit(c)
  PROVE  /\ pc' \in [Controllers -> Places]
         /\ mem' \in [Controllers -> Locals]
         /\ holder' \in Controllers \union {NoController}
<1>1. Idle(mem[c].path) \in Locals
  BY BoundsAssumption DEF TypeOK, Idle, Driving, Locals, Stages
<1> QED BY <1>1 DEF TypeOK, Exit, Goto, Places

LEMMA RaiseType ==
  ASSUME TypeOK, NEW c \in Controllers, NEW kind \in {"fatal", "transient", "nexus"}, Raise(c, kind)
  PROVE  /\ pc' \in [Controllers -> Places]
         /\ mem' \in [Controllers -> Locals]
         /\ holder' \in Controllers \union {NoController}
<1> DEFINE nexus == mem[c].nexus + (IF kind = "nexus" THEN 1 ELSE 0)
           next == Driving(mem[c].path, mem[c].attempt + 1, nexus)
<1>1. CASE kind = "fatal" \/ nexus >= NexusLimit \/ mem[c].attempt = RetryAttempts
  BY <1>1, ExitType DEF Raise
<1>2. CASE ~(kind = "fatal" \/ nexus >= NexusLimit \/ mem[c].attempt = RetryAttempts)
  <2>1. mem[c] \in Locals
    BY DEF TypeOK
  <2>4. nexus \in 0..(NexusLimit - 1) /\ mem[c].attempt + 1 \in 1..RetryAttempts
    BY <1>2, <2>1, BoundsAssumption DEF Locals
  <2>6. mem[c].path \in LedgerIds /\ "frontends" \in Stages
    BY <2>1 DEF Locals, Stages
  <2>2. next \in Locals
    BY <2>4, <2>6 DEF Locals, Driving
  <2>3. Goto(c, "drive") /\ mem' = [mem EXCEPT ![c] = next] /\ holder' = holder
    BY <1>2 DEF Raise
  <2> QED BY <2>2, <2>3 DEF TypeOK, Goto, Places
<1> QED BY <1>1, <1>2

LEMMA ProceedType ==
  ASSUME TypeOK, NEW c \in Controllers, Proceed(c)
  PROVE  /\ pc' \in [Controllers -> Places]
         /\ mem' \in [Controllers -> Locals]
<1>1. mem[c] \in Locals /\ active.dev \in BOOLEAN
  BY ActiveType DEF TypeOK, Manifests
<1>2. NextStage(mem[c].stage, active.dev) \in Stages
  BY <1>1, NextStageType DEF Locals
<1> QED BY <1>1, <1>2 DEF Proceed, Goto, Places, TypeOK, Locals

LEMMA LatestAttemptType ==
  ASSUME TypeOK, NEW v, NEW n \in LatestAttempt(v)
  PROVE  n \in Nat
BY DEF TypeOK, LatestAttempt

LEMMA TypeInit == ASSUME Init PROVE TypeOK
<1>1. NoManifest \in Manifests
  BY PhaseTypes DEF NoManifest, Manifest, Manifests, NoTasks
<1>2. current.name \in LedgerIds
  BY DEF Init
<1>3. Idle(current.name) \in Locals
  BY <1>2, BoundsAssumption DEF Idle, Driving, Locals, Stages
<1> QED BY <1>1, <1>3, BoundsAssumption DEF Init, TypeOK, Places

LEMMA TypeStep == ASSUME TypeOK, [Next]_vars PROVE TypeOK'
<1> USE DEF Goto, Acquire
<1>a. active \in Manifests /\ activeVersion \in Versions /\ current.name \in LedgerIds
  BY ActiveType
<1>p. \A c \in Controllers, x \in Places : [pc EXCEPT ![c] = x] \in [Controllers -> Places]
  BY DEF TypeOK
<1>f. ASSUME Fault PROVE faults' \in 0..MaxFaults
  BY <1>f, BoundsAssumption DEF Fault, TypeOK
<1>1. ASSUME NEW c \in Controllers, NEW v \in Versions, NEW dev \in BOOLEAN, Start(c, v, dev)
      PROVE  TypeOK'
  <2>1. PICK l \in NextLedgerPath(v) :
          /\ ledger' = [ledger EXCEPT ![l] = Manifest("started", dev)]
          /\ mem' = [mem EXCEPT ![c] = Idle(l)]
    BY <1>1 DEF Start
  <2>2. l \in LedgerIds
    BY BoundsAssumption DEF NextLedgerPath, LedgerIds
  <2>3. Manifest("started", dev) \in Manifests
    BY PhaseTypes DEF Manifest, Manifests, NoTasks
  <2>4. Idle(l) \in Locals
    BY <2>2, BoundsAssumption DEF Idle, Driving, Locals, Stages
  <2> QED BY <1>1, <1>p, <2>1, <2>2, <2>3, <2>4 DEF Start, TypeOK, Places
<1>2. ASSUME NEW c \in Controllers, Resume(c) PROVE TypeOK'
  BY <1>2, <1>p DEF Resume, TypeOK, Places
<1>3. ASSUME NEW c \in Controllers, Abandon(c) PROVE TypeOK'
  <2>1. [active EXCEPT !.phase = "abandoned"] \in Manifests
    BY <1>a, PhaseTypes DEF Manifests
  <2> QED BY <1>3, <1>p, <2>1, UpdateType DEF Abandon, TypeOK, Places
<1>4. ASSUME NEW c \in Controllers, WritePointer(c) PROVE TypeOK'
  BY <1>4, <1>p DEF WritePointer, TypeOK, Places, Locals
<1>5. ASSUME NEW c \in Controllers, PruneAttempt(c) PROVE TypeOK'
  BY <1>5 DEF PruneAttempt, TypeOK
<1>6. ASSUME NEW c \in Controllers, PruneLedger(c) PROVE TypeOK'
  <2>1. NoManifest \in Manifests
    BY PhaseTypes DEF NoManifest, Manifest, Manifests, NoTasks
  <2> QED BY <1>6, <2>1 DEF PruneLedger, ObsoleteLedgers, TypeOK
<1>7. ASSUME NEW c \in Controllers, FinishPrune(c) PROVE TypeOK'
  BY <1>7, <1>p DEF FinishPrune, TypeOK, Places
<1>8. ASSUME NEW c \in Controllers, Dispatch(c) PROVE TypeOK'
  <2> DEFINE m == IF active.phase \in RewindToFrontends
                  THEN [active EXCEPT !.phase = "frontend-preparation-failed"] ELSE active
  <2>1. m \in Manifests
    BY <1>a, PhaseTypes DEF Manifests
  <2>2. PICK s \in Stages : Update(m) /\ mem' = [mem EXCEPT ![c].stage = s]
    BY <1>8 DEF Dispatch, Continues, StagesOf
  <2>3. ledger' \in [LedgerIds -> Manifests]
    BY <2>1, <2>2, UpdateType
  <2>4. mem' \in [Controllers -> Locals]
    BY <2>2 DEF TypeOK, Locals
  <2> QED BY <1>8, <1>p, <2>3, <2>4 DEF Dispatch, TypeOK, Places
<1>9. ASSUME NEW c \in Controllers, DispatchAccepted(c) PROVE TypeOK'
  BY <1>9, <1>p DEF DispatchAccepted, TypeOK, Places
<1>10. ASSUME NEW c \in Controllers, Refuse(c) PROVE TypeOK'
  BY <1>10, ExitType DEF Refuse, TypeOK
<1>11. ASSUME NEW c \in Controllers, Conclude(c) PROVE TypeOK'
  <2>1. current' \in [name : LedgerIds, status : {"absent", "open", "accepted", "abandoned"}]
    BY <1>11 DEF Conclude, TypeOK
  <2> QED BY <1>11, <2>1, ExitType DEF Conclude, TypeOK
<1>12. ASSUME NEW c \in Controllers, EnterFrontends(c) PROVE TypeOK'
  <2>1. [active EXCEPT !.phase = "preparing-frontends"] \in Manifests
    BY <1>a, PhaseTypes DEF Manifests
  <2>2. PICK n \in LatestAttempt(activeVersion) :
          attempts' = attempts \union {<<activeVersion, n + 1>>}
    BY <1>12 DEF EnterFrontends
  <2>3. attempts' \subseteq Versions \X (Nat \ {0})
    BY <2>2, <1>a, LatestAttemptType DEF TypeOK
  <2> QED BY <1>12, <1>p, <2>1, <2>3, UpdateType DEF EnterFrontends, TypeOK, Places
<1>13. ASSUME NEW c \in Controllers, EnterShot(c) PROVE TypeOK'
  <2>1. PICK s \in {"versions", "development"} : Update([active EXCEPT !.phase = RunningPhase(s)])
    BY <1>13 DEF EnterShot
  <2>2. [active EXCEPT !.phase = RunningPhase(s)] \in Manifests
    BY <1>a, PhaseTypes DEF Manifests, Stages
  <2> QED BY <1>13, <1>p, <2>1, <2>2, UpdateType DEF EnterShot, TypeOK, Places
<1>14. ASSUME NEW c \in Controllers, ShotSucceeds(c) PROVE TypeOK'
  <2> DEFINE s == mem[c].stage
  <2>1. s \in Stages
    BY DEF TypeOK, Locals
  <2>2. PICK n \in LatestAttempt(activeVersion) :
          Update([active EXCEPT !.phase = DonePhase(s),
                    !.workspace = IF s = "frontends" THEN n ELSE active.workspace,
                    !.verified = active.verified \/ s = "development"])
    BY <1>14 DEF ShotSucceeds
  <2>3. DonePhase(s) \in Phases /\ n \in Nat
    BY <2>1, PhaseTypes, LatestAttemptType
  <2>4. [active EXCEPT !.phase = DonePhase(s),
                    !.workspace = IF s = "frontends" THEN n ELSE active.workspace,
                    !.verified = active.verified \/ s = "development"] \in Manifests
    BY <1>a, <2>3 DEF Manifests
  <2>5. ledger' \in [LedgerIds -> Manifests]
    BY <2>2, <2>4, UpdateType
  <2> QED BY <1>14, <2>5, ProceedType DEF ShotSucceeds, TypeOK
<1>15. ASSUME NEW c \in Controllers, EnterTasks(c) PROVE TypeOK'
  <2>1. PICK s \in TaskStages :
          Update([active EXCEPT !.phase = RunningPhase(s), !.sections = active.sections \union {s}])
    BY <1>15 DEF EnterTasks
  <2>2. RunningPhase(s) \in Phases
    BY PhaseTypes DEF Stages, TaskStages, External
  <2>3. [active EXCEPT !.phase = RunningPhase(s), !.sections = active.sections \union {s}] \in Manifests
    BY <1>a, <2>2 DEF Manifests
  <2> QED BY <1>15, <1>p, <2>1, <2>3, UpdateType DEF EnterTasks, TypeOK, Places
<1>16. ASSUME NEW c \in Controllers, NEW t \in Tasks, StartTask(c, t) PROVE TypeOK'
  <2>1. mem' \in [Controllers -> Locals]
    BY <1>16 DEF StartTask, TypeOK, Locals
  <2>2. inflight' \subseteq Operations
    BY <1>16, <1>a DEF StartTask, TypeOK, Operations, Op
  <2> QED BY <1>16, <2>1, <2>2 DEF StartTask, TypeOK
<1>17. ASSUME NEW c \in Controllers, NEW t \in Tasks, FinishTask(c, t) PROVE TypeOK'
  <2> DEFINE s == mem[c].stage
             m == [active EXCEPT !.completed[s] = active.completed[s] \union {t}]
  <2>1. mem' \in [Controllers -> Locals]
    BY <1>17 DEF FinishTask, TypeOK, Locals
  <2>2. m \in Manifests
    BY <1>a DEF Manifests
  <2>3. Update(m)
    BY <1>17 DEF FinishTask
  <2>4. ledger' \in [LedgerIds -> Manifests]
    BY <2>2, <2>3, UpdateType
  <2> QED BY <1>17, <2>1, <2>4 DEF FinishTask, TypeOK
<1>18. ASSUME NEW c \in Controllers, TasksFail(c) PROVE TypeOK'
  <2>1. mem[c].stage \in Stages /\ mem[c].failed \in {"fatal", "transient", "nexus"}
    BY <1>18 DEF TasksFail, TypeOK, Locals
  <2>2. [active EXCEPT !.phase = FailedPhase(mem[c].stage)] \in Manifests
    BY <1>a, <2>1, PhaseTypes DEF Manifests
  <2> QED BY <1>18, <2>1, <2>2, UpdateType, RaiseType DEF TasksFail, TypeOK
<1>19. ASSUME NEW c \in Controllers, TasksSucceed(c) PROVE TypeOK'
  <2>1. mem[c].stage \in Stages
    BY DEF TypeOK, Locals
  <2>2. [active EXCEPT !.phase = DonePhase(mem[c].stage)] \in Manifests
    BY <1>a, <2>1, PhaseTypes DEF Manifests
  <2> QED BY <1>19, <2>2, UpdateType, ProceedType DEF TasksSucceed, TypeOK
<1>20. ASSUME NEW c \in Controllers, Accept(c) PROVE TypeOK'
  <2>1. [active EXCEPT !.phase = "accepted"] \in Manifests
    BY <1>a, PhaseTypes DEF Manifests
  <2> QED BY <1>20, <1>p, <2>1, UpdateType DEF Accept, TypeOK, Places
<1>k. \A s \in Stages : FailureKinds(s) \subseteq {"fatal", "transient", "nexus"}
  BY DEF FailureKinds
<1>21. ASSUME NEW c \in Controllers, ShotFails(c) PROVE TypeOK'
  <2>1. mem[c].stage \in Stages
    BY DEF TypeOK, Locals
  <2>2. [active EXCEPT !.phase = FailedPhase(mem[c].stage)] \in Manifests
    BY <1>a, <2>1, PhaseTypes DEF Manifests
  <2>3. PICK kind \in {"fatal", "transient", "nexus"} : Raise(c, kind)
    BY <1>21, <1>k, <2>1 DEF ShotFails
  <2>4. faults' \in 0..MaxFaults
    BY <1>21, <1>f DEF ShotFails
  <2> QED BY <1>21, <2>2, <2>3, <2>4, UpdateType, RaiseType DEF ShotFails, TypeOK
<1>22. ASSUME NEW c \in Controllers, PrecheckFails(c) PROVE TypeOK'
  <2>1. PICK kind \in {"fatal", "transient", "nexus"} : Raise(c, kind)
    BY <1>22, <1>k DEF PrecheckFails, Stages
  <2>2. faults' \in 0..MaxFaults
    BY <1>22, <1>f DEF PrecheckFails
  <2> QED BY <1>22, <2>1, <2>2, RaiseType DEF PrecheckFails, TypeOK
<1>23. ASSUME NEW c \in Controllers, NEW t \in Tasks, FailTask(c, t) PROVE TypeOK'
  <2>1. PICK kind \in {"fatal", "transient", "nexus"} :
          /\ mem' = [mem EXCEPT ![c].running = mem[c].running \ {t}, ![c].failed = kind]
          /\ inflight' \subseteq inflight
    BY <1>23, <1>k DEF FailTask, TypeOK, Locals
  <2> DEFINE m == [mem EXCEPT ![c].running = mem[c].running \ {t}]
  <2>4. m \in [Controllers -> Locals]
    BY DEF TypeOK, Locals
  <2>5. mem' = [m EXCEPT ![c].failed = kind]
    BY <2>1
  <2>2. mem' \in [Controllers -> Locals]
    <3> HIDE DEF m
    <3> QED BY <2>4, <2>5 DEF Locals
  <2>3. faults' \in 0..MaxFaults
    BY <1>23, <1>f DEF FailTask
  <2> QED BY <1>23, <2>1, <2>2, <2>3 DEF FailTask, TypeOK
<1>24. ASSUME NEW c \in Controllers, AcceptFails(c) PROVE TypeOK'
  <2>1. [active EXCEPT !.phase = "acceptance-failed"] \in Manifests
    BY <1>a, PhaseTypes DEF Manifests
  <2>2. PICK kind \in {"fatal", "transient", "nexus"} : Raise(c, kind)
    BY <1>24, <1>k DEF AcceptFails, Stages
  <2>3. faults' \in 0..MaxFaults
    BY <1>24, <1>f DEF AcceptFails
  <2> QED BY <1>24, <2>1, <2>2, <2>3, UpdateType, RaiseType DEF AcceptFails, TypeOK
<1>25. ASSUME NEW c \in Controllers, Crash(c) PROVE TypeOK'
  <2>1. faults' \in 0..MaxFaults
    BY <1>25, <1>f DEF Crash
  <2> QED BY <1>25, <2>1, ExitType DEF Crash, TypeOK
<1>26. ASSUME NEW op \in Operations, Land(op) PROVE TypeOK'
  BY <1>26 DEF Land, TypeOK
<1>27. ASSUME NEW op \in Operations, Lose(op) PROVE TypeOK'
  BY <1>27 DEF Lose, TypeOK
<1>28. ASSUME UNCHANGED vars PROVE TypeOK'
  BY <1>28 DEF vars, TypeOK
<1> QED
  BY <1>1, <1>2, <1>3, <1>4, <1>5, <1>6, <1>7, <1>8, <1>9, <1>10, <1>11, <1>12, <1>13, <1>14,
     <1>15, <1>16, <1>17, <1>18, <1>19, <1>20, <1>21, <1>22, <1>23, <1>24, <1>25, <1>26, <1>27,
     <1>28 DEF Next, Command, Step, Failure

\* Every variable keeps its type: no failure or retry takes the counters of
\* _drive_release past their limits, and no write leaves an unknown phase.
THEOREM TypeCorrect == Spec => []TypeOK
BY TypeInit, TypeStep, PTL DEF Spec

----------------------------------------------------------------------------
(* The files and the world. *)

LEMMA PhaseFacts ==
  /\ \A s \in Stages : /\ RunningPhase(s) \notin {"absent", "abandoned", "accepted"}
                       /\ FailedPhase(s) \notin {"absent", "abandoned", "accepted"}
                       /\ DonePhase(s) \notin {"absent", "abandoned"}
                       /\ s # "acceptance" => DonePhase(s) # "accepted"
  /\ \A s \in Stages, dev \in BOOLEAN :
       AcceptedPhases(s, dev) \intersect {"absent", "abandoned", "accepted"} = {}
  /\ \A s \in Stages, dev \in BOOLEAN :
       EntryPhases(s, dev) \intersect {"absent", "abandoned", "accepted"} = {}
BY DEF Stages, TaskStages, External, RunningPhase, FailedPhase, DonePhase, AcceptedPhases,
       EntryPhases, StartPhase

\* A step that writes no file and issues nothing new outside.
LEMMA Still ==
  ASSUME Outside, UNCHANGED <<current, ledger>>,
         world' \union inflight' \subseteq world \union inflight, world \subseteq world'
  PROVE  Outside'
<1>1. SlotNamesALedger' /\ ConcludedInv' /\ AbandonedInv'
  BY DEF Outside, SlotNamesALedger, ConcludedInv, AbandonedInv, Exists, active
<1>2. UsedInv' /\ EffectsAreAnnounced' /\ AcceptedInv'
  BY DEF Outside, UsedInv, EffectsAreAnnounced, AcceptedInv, Landed, active, activeVersion
<1> QED BY <1>1, <1>2 DEF Outside

\* A write to the ledger of the open slot that keeps its evidence.
LEMMA Write ==
  ASSUME TypeOK, Outside, current.status = "open",
         NEW m \in Manifests, Update(m), UNCHANGED <<current, world, inflight>>,
         m.phase \notin {"absent", "abandoned", "accepted"},
         active.sections \subseteq m.sections
  PROVE  Outside'
<1>1. /\ ledger'[current.name] = m
      /\ \A l \in LedgerIds : l # current.name => ledger'[l] = ledger[l]
      /\ current' = current
  BY ActiveType DEF Update, TypeOK
<1>2. SlotNamesALedger' /\ ConcludedInv' /\ AbandonedInv'
  BY <1>1 DEF Outside, SlotNamesALedger, ConcludedInv, AbandonedInv, Exists, active
<1>3. UsedInv' /\ AcceptedInv'
  BY <1>1 DEF Outside, UsedInv, AcceptedInv, Landed, activeVersion
<1>4. EffectsAreAnnounced'
  BY <1>1 DEF Outside, EffectsAreAnnounced, active, activeVersion
<1> QED BY <1>2, <1>3, <1>4 DEF Outside

----------------------------------------------------------------------------
(* The running commands. *)

\* A controller that takes a step holds the lock, and the others are idle.
LEMMA Alone ==
  ASSUME LockInv, NEW c \in Controllers, pc[c] # "idle"
  PROVE  holder = c /\ \A d \in Controllers \ {c} : pc[d] = "idle"
BY ControllersAssumption DEF LockInv

LEMMA AllIdle ==
  ASSUME LockInv, NEW c \in Controllers, Acquire(c)
  PROVE  holder' = c /\ \A d \in Controllers : pc[d] = "idle"
BY ControllersAssumption DEF LockInv, Acquire, LockFree

\* What the running controller leaves behind decides for all of them.
LEMMA InsideStep ==
  ASSUME TypeOK, NEW c \in Controllers, \A d \in Controllers \ {c} : pc[d] = "idle",
         NEW place \in Places, pc' = [pc EXCEPT ![c] = place],
         holder' = IF place = "idle" THEN NoController ELSE c,
         place \in {"prune", "stage", "work", "tasks"} => current'.status = "open",
         place \in {"drive", "accepted", "abandoned"} => current'.status # "absent",
         place \in {"accepted", "abandoned"} => active'.phase = place,
         place \in {"work", "tasks"} => active'.phase = RunningPhase(mem'[c].stage),
         place = "work" => mem'[c].stage \in {"frontends", "versions", "development"},
         place = "tasks" => mem'[c].stage \in TaskStages /\ mem'[c].stage \in active'.sections,
         place # "pointer"
  PROVE  Inside'
<1>1. pc'[c] = place /\ \A d \in Controllers \ {c} : pc'[d] = "idle"
  BY DEF TypeOK
<1>2. LockInv'
  BY <1>1, ControllersAssumption DEF LockInv
<1>3. PlaceInv'
  BY <1>1 DEF PlaceInv
<1>4. PointerInv'
  BY <1>1 DEF PointerInv
<1> QED BY <1>2, <1>3, <1>4 DEF Inside

LEMMA ExitInside ==
  ASSUME TypeOK, LockInv, NEW c \in Controllers, pc[c] # "idle", Exit(c)
  PROVE  Inside'
BY Alone, InsideStep DEF Exit, Goto, Places

LEMMA RaiseInside ==
  ASSUME TypeOK, LockInv, NEW c \in Controllers, pc[c] # "idle", NEW kind, Raise(c, kind),
         current'.status # "absent"
  PROVE  Inside'
<1>1. CASE Exit(c)
  BY <1>1, ExitInside
<1>2. CASE Goto(c, "drive") /\ holder' = holder
  <2>1. holder = c /\ \A d \in Controllers \ {c} : pc[d] = "idle"
    BY Alone
  <2> QED BY <1>2, <2>1, InsideStep DEF Goto, Places
<1> QED BY <1>1, <1>2 DEF Raise

LEMMA ProceedInside ==
  ASSUME TypeOK, LockInv, NEW c \in Controllers, pc[c] # "idle", Proceed(c),
         UNCHANGED <<current, holder>>, current.status = "open"
  PROVE  Inside'
<1>1. holder = c /\ \A d \in Controllers \ {c} : pc[d] = "idle"
  BY Alone
<1> QED BY <1>1, InsideStep DEF Proceed, Goto, Places

\* A command that changes no place keeps what its place relies on.
LEMMA StayInside ==
  ASSUME Inside, UNCHANGED <<current, holder, pc>>,
         \A c \in Controllers : pc[c] # "idle" =>
           mem'[c].stage = mem[c].stage /\ mem'[c].path = mem[c].path,
         \A c \in Controllers : pc[c] = "pointer" => ledger'[mem[c].path] = ledger[mem[c].path],
         world' \union inflight' \subseteq world \union inflight
           \/ \A c \in Controllers : pc[c] # "pointer",
         active'.phase = active.phase, active'.sections = active.sections
  PROVE  Inside'
<1>1. LockInv' /\ PlaceInv'
  BY DEF Inside, LockInv, PlaceInv
<1>2. PointerInv'
  BY DEF Inside, PointerInv
<1> QED BY <1>1, <1>2 DEF Inside

----------------------------------------------------------------------------
(* The invariant. *)

LEMMA InvInit == ASSUME Init PROVE IInv
<1>1. TypeOK
  BY TypeInit
<1>2. Outside
  <2>1. \A l \in LedgerIds : ledger[l].phase = "absent"
    BY DEF Init, NoManifest, Manifest
  <2> QED BY <2>1 DEF Init, Outside, SlotNamesALedger, ConcludedInv, AbandonedInv, UsedInv,
                      EffectsAreAnnounced, AcceptedInv
<1>3. Inside
  BY ControllersAssumption DEF Init, Inside, LockInv, PlaceInv, PointerInv
<1> QED BY <1>1, <1>2, <1>3 DEF IInv

\* start and its two writes.
LEMMA StartInv ==
  ASSUME IInv, NEW c \in Controllers, NEW v \in Versions, NEW dev \in BOOLEAN, Start(c, v, dev)
  PROVE  Outside' /\ Inside'
<1>1. PICK l \in NextLedgerPath(v) :
        /\ ledger' = [ledger EXCEPT ![l] = Manifest("started", dev)]
        /\ mem' = [mem EXCEPT ![c] = Idle(l)]
  BY DEF Start
<1>2. l \in LedgerIds /\ l[1] = v /\ ~Exists(l)
  BY BoundsAssumption DEF NextLedgerPath, LedgerIds
<1>3. /\ current' = current /\ world' = world /\ inflight' = inflight
      /\ current.status # "open" /\ pc' = [pc EXCEPT ![c] = "pointer"] /\ holder' = c
  BY DEF Start, Goto, Acquire
<1>4. /\ ledger'[l].phase = "started" /\ ledger'[l].sections = {} /\ ledger'[l].workspace = 0
      /\ \A k \in LedgerIds : k # l => ledger'[k] = ledger[k]
      /\ mem'[c].path = l
  BY <1>1, <1>2 DEF IInv, TypeOK, Manifest, Idle, Driving
<1>5. \A op \in world \union inflight : op[1] # v
  <2> SUFFICES ASSUME NEW op \in world \union inflight, op[1] = v PROVE FALSE
    OBVIOUS
  <2>1. Landed(v, "artifacts")
    BY <1>3 DEF IInv, Outside, UsedInv
  <2>2. PICK t \in Tasks : TRUE
    BY TasksAssumption
  <2>3. <<v, "artifacts", t>> \in world
    BY <2>1 DEF Landed
  <2> QED BY <2>3 DEF Start
<1>6. current.status # "absent" => l # current.name
  BY <1>2 DEF IInv, Outside, SlotNamesALedger
<1>7. current.name \in LedgerIds
  BY ActiveType DEF IInv
<1>8. Outside'
  <2>1. SlotNamesALedger' /\ ConcludedInv' /\ AbandonedInv' /\ AcceptedInv'
    BY <1>3, <1>4, <1>6, <1>7 DEF IInv, Outside, SlotNamesALedger, ConcludedInv, AbandonedInv,
       AcceptedInv, Exists, active, Landed
  <2>2. UsedInv' /\ EffectsAreAnnounced'
    BY <1>3, <1>4, <1>6, <1>7 DEF IInv, Outside, UsedInv, EffectsAreAnnounced, active,
       activeVersion, Landed
  <2> QED BY <2>1, <2>2 DEF Outside
<1>9. Inside'
  <2>1. \A d \in Controllers : pc[d] = "idle"
    BY AllIdle DEF IInv, Inside, Start
  <2>2. pc'[c] = "pointer" /\ \A d \in Controllers \ {c} : pc'[d] = "idle"
    BY <1>3, <2>1 DEF IInv, TypeOK
  <2>3. LockInv' /\ PlaceInv'
    BY <1>3, <2>2, ControllersAssumption DEF LockInv, PlaceInv
  <2>4. PointerInv'
    BY <1>2, <1>3, <1>4, <1>5, <2>2 DEF PointerInv
  <2> QED BY <2>3, <2>4 DEF Inside
<1> QED BY <1>8, <1>9

LEMMA PointerStep ==
  ASSUME IInv, NEW c \in Controllers, WritePointer(c)
  PROVE  Outside' /\ Inside'
<1>1. /\ current' = [name |-> mem[c].path, status |-> "open"]
      /\ UNCHANGED <<ledger, world, inflight, mem, holder>>
      /\ pc' = [pc EXCEPT ![c] = "prune"] /\ pc[c] = "pointer"
  BY DEF WritePointer, Goto
<1>2. /\ ledger[mem[c].path].phase = "started"
      /\ current.status # "open"
      /\ \A op \in world \union inflight : op[1] # mem[c].path[1]
  BY <1>1 DEF IInv, Inside, PointerInv
<1>3. Outside'
  BY <1>1, <1>2 DEF IInv, Outside, SlotNamesALedger, ConcludedInv, AbandonedInv, UsedInv,
     EffectsAreAnnounced, AcceptedInv, Exists, active, activeVersion, Landed
<1>4. Inside'
  BY <1>1, Alone, InsideStep DEF IInv, Inside, Places
<1> QED BY <1>3, <1>4

\* Pruning removes no ledger the slot names.
LEMMA PruneInv ==
  ASSUME IInv, NEW c \in Controllers, PruneAttempt(c) \/ PruneLedger(c) \/ FinishPrune(c)
  PROVE  Outside' /\ Inside'
<1>1. CASE PruneAttempt(c)
  <2>1. Outside'
    BY <1>1, Still DEF IInv, PruneAttempt
  <2>2. Inside'
    BY <1>1, StayInside DEF IInv, PruneAttempt, active
  <2> QED BY <2>1, <2>2
<1>2. CASE FinishPrune(c)
  <2>1. Outside'
    BY <1>2, Still DEF IInv, FinishPrune
  <2>2. pc[c] = "prune" /\ current' = current /\ current.status = "open"
    BY <1>2 DEF FinishPrune, IInv, Inside, PlaceInv
  <2>3. Inside'
    BY <1>2, <2>2, Alone, InsideStep DEF IInv, Inside, FinishPrune, Goto, Places
  <2> QED BY <2>1, <2>3
<1>3. CASE PruneLedger(c)
  <2>1. PICK l \in LedgerIds : l # current.name /\ ledger' = [ledger EXCEPT ![l] = NoManifest]
    BY <1>3 DEF PruneLedger, ObsoleteLedgers
  <2>2. UNCHANGED <<current, world, inflight, holder, pc, mem>> /\ pc[c] = "prune"
    BY <1>3 DEF PruneLedger
  <2>3. current.name \in LedgerIds
    BY ActiveType DEF IInv
  <2>4. ledger'[l].phase = "absent" /\ \A k \in LedgerIds : k # l => ledger'[k] = ledger[k]
    BY <2>1 DEF IInv, TypeOK, NoManifest, Manifest
  <2>5. active' = active
    BY <2>1, <2>2, <2>3, <2>4 DEF active
  <2>6. Outside'
    BY <2>1, <2>2, <2>3, <2>4, <2>5 DEF IInv, Outside, SlotNamesALedger, ConcludedInv, AbandonedInv,
       UsedInv, EffectsAreAnnounced, AcceptedInv, Exists, active, activeVersion, Landed
  <2>7. \A d \in Controllers : pc[d] # "pointer"
    BY <2>2, Alone DEF IInv, Inside
  <2>8. Inside'
    BY <2>2, <2>5, <2>7, StayInside DEF IInv
  <2> QED BY <2>6, <2>8
<1> QED BY <1>1, <1>2, <1>3

LEMMA ResumeInv ==
  ASSUME IInv, NEW c \in Controllers, Resume(c)
  PROVE  Outside' /\ Inside'
<1>1. Outside'
  BY Still DEF IInv, Resume
<1>2. holder' = c /\ \A d \in Controllers : pc[d] = "idle"
  BY AllIdle DEF IInv, Inside, Resume
<1>3. Inside'
  BY <1>2, InsideStep DEF IInv, Resume, Goto, Places
<1> QED BY <1>1, <1>3

\* Abandonment: no external evidence, so nothing outside.
LEMMA AbandonInv ==
  ASSUME IInv, NEW c \in Controllers, Abandon(c)
  PROVE  Outside' /\ Inside'
<1> DEFINE m == [active EXCEPT !.phase = "abandoned"]
<1>1. /\ current.status = "open" /\ active.sections \intersect External = {}
      /\ Update(m) /\ UNCHANGED <<current, world, inflight>>
      /\ pc' = [pc EXCEPT ![c] = "abandoned"]
  BY DEF Abandon, Goto
<1>2. current.name \in LedgerIds /\ active \in Manifests
  BY ActiveType DEF IInv
<1>3. m.phase = "abandoned" /\ m.sections = active.sections
  BY <1>2 DEF Manifests
<1> HIDE DEF m
<1>4. /\ ledger'[current.name] = m /\ active' = m
      /\ \A l \in LedgerIds : l # current.name => ledger'[l] = ledger[l]
  BY <1>1, <1>2 DEF Update, IInv, TypeOK, active
<1>5. Outside'
  <2>1. SlotNamesALedger' /\ ConcludedInv' /\ AbandonedInv' /\ AcceptedInv'
    BY <1>1, <1>3, <1>4 DEF IInv, Outside, SlotNamesALedger, ConcludedInv, AbandonedInv,
       AcceptedInv, Exists, Landed
  <2>2. UsedInv' /\ EffectsAreAnnounced'
    BY <1>1, <1>3, <1>4 DEF IInv, Outside, UsedInv, EffectsAreAnnounced, Landed, activeVersion
  <2> QED BY <2>1, <2>2 DEF Outside
<1>6. holder' = c /\ \A d \in Controllers : pc[d] = "idle"
  BY AllIdle DEF IInv, Inside, Abandon
<1>7. Inside'
  BY <1>1, <1>3, <1>4, <1>6, InsideStep DEF IInv, Places
<1> QED BY <1>5, <1>7

\* conclude: an accepted release has landed everything, an abandoned one nothing.
LEMMA ConcludeInv ==
  ASSUME IInv, NEW c \in Controllers, Conclude(c)
  PROVE  Outside' /\ Inside'
<1>1. /\ pc[c] \in {"accepted", "abandoned"} /\ UNCHANGED <<ledger, world, inflight>>
      /\ current' = IF current.status = "open" THEN [current EXCEPT !.status = pc[c]] ELSE current
  BY DEF Conclude
<1>2. active.phase = pc[c] /\ current.status # "absent"
  BY <1>1 DEF IInv, Inside, PlaceInv
<1>3. current.name \in LedgerIds
  BY ActiveType DEF IInv
<1>4. /\ current'.name = current.name /\ current'.status # "absent" /\ active' = active
      /\ current.status = "open" => current'.status = pc[c]
      /\ current.status # "open" => current' = current
  BY <1>1, <1>2 DEF IInv, TypeOK, active
<1>5. Outside'
  <2>1. SlotNamesALedger' /\ ConcludedInv' /\ AbandonedInv' /\ AcceptedInv'
    BY <1>1, <1>2, <1>4 DEF IInv, Outside, SlotNamesALedger, ConcludedInv, AbandonedInv,
       AcceptedInv, Exists, Landed
  <2>2. EffectsAreAnnounced'
    BY <1>1, <1>2, <1>4 DEF IInv, Outside, EffectsAreAnnounced, activeVersion
  <2>3. UsedInv'
    <3> SUFFICES ASSUME NEW op \in world \union inflight, current.status = "open",
                        op[1] = activeVersion
                 PROVE  Landed(op[1], "artifacts")
      BY <1>1, <1>4 DEF IInv, Outside, UsedInv, activeVersion, Landed
    <3>1. CASE pc[c] = "accepted"
      BY <1>2, <1>3, <3>1 DEF IInv, Outside, AcceptedInv, active, activeVersion, External
    <3>2. CASE pc[c] = "abandoned"
      <4>1. op[2] \in active.sections /\ op[2] \in External
        BY DEF IInv, Outside, EffectsAreAnnounced, TypeOK, Operations
      <4> QED BY <1>2, <1>3, <3>2, <4>1 DEF IInv, Outside, AbandonedInv, active
    <3> QED BY <1>1, <3>1, <3>2
  <2> QED BY <2>1, <2>2, <2>3 DEF Outside
<1>6. Inside'
  BY <1>1, ExitInside DEF IInv, Inside, Conclude
<1> QED BY <1>5, <1>6

\* What the driver chooses changes the ledger of an open slot only.
LEMMA DispatchInv ==
  ASSUME IInv, NEW c \in Controllers, Dispatch(c) \/ DispatchAccepted(c) \/ Refuse(c)
  PROVE  Outside' /\ Inside'
<1>1. CASE Refuse(c)
  <2>1. Outside' /\ pc[c] # "idle"
    BY <1>1, Still DEF IInv, Refuse
  <2>2. Inside'
    BY <1>1, <2>1, ExitInside DEF IInv, Inside, Refuse
  <2> QED BY <2>1, <2>2
<1>2. CASE DispatchAccepted(c)
  <2>1. Outside'
    BY <1>2, Still DEF IInv, DispatchAccepted
  <2>2. pc[c] = "drive" /\ current.status # "absent" /\ UNCHANGED <<current, ledger, holder>>
    BY <1>2 DEF DispatchAccepted, IInv, Inside, PlaceInv
  <2>3. Inside'
    BY <1>2, <2>2, Alone, InsideStep DEF IInv, Inside, DispatchAccepted, Goto, Places, active
  <2> QED BY <2>1, <2>3
<1>3. CASE Dispatch(c)
  <2> DEFINE m == IF active.phase \in RewindToFrontends
                  THEN [active EXCEPT !.phase = "frontend-preparation-failed"] ELSE active
  <2>1. active \in Manifests
    BY ActiveType DEF IInv
  <2>2. /\ m \in Manifests /\ m.sections = active.sections
        /\ m.phase # "frontend-preparation-failed" => m = active
        /\ active.phase \in RewindToFrontends \/ m = active
    BY <2>1, PhaseTypes DEF Manifests
  <2>3. PICK s \in Stages : /\ m.phase \in EntryPhases(s, m.dev)
                            /\ Update(m)
                            /\ mem' = [mem EXCEPT ![c].stage = s]
    BY <1>3 DEF Dispatch, Continues, StagesOf
  <2> HIDE DEF m
  <2>4. m.phase \notin {"absent", "abandoned", "accepted"}
    BY <2>2, <2>3, PhaseFacts DEF Manifests
  <2>5. /\ pc[c] = "drive" /\ UNCHANGED <<current, holder, world, inflight>>
        /\ pc' = [pc EXCEPT ![c] = "stage"]
    BY <1>3 DEF Dispatch, Goto
  <2>6. current.status = "open"
    <3>1. active.phase \notin {"abandoned", "accepted"}
      BY <2>2, <2>4 DEF RewindToFrontends
    <3> QED BY <2>5, <3>1 DEF IInv, Inside, PlaceInv, Outside, ConcludedInv, TypeOK
  <2>7. Outside'
    BY <2>2, <2>3, <2>4, <2>5, <2>6, Write DEF IInv
  <2>8. Inside'
    BY <2>5, <2>6, Alone, InsideStep DEF IInv, Inside, Places
  <2> QED BY <2>7, <2>8
<1> QED BY <1>1, <1>2, <1>3

\* A stage writes one of its own phases, and never forgets evidence.
LEMMA StageWrite ==
  ASSUME IInv, NEW c \in Controllers, pc[c] \in {"stage", "work", "tasks"},
         NEW m \in Manifests, Update(m), UNCHANGED <<current, world, inflight>>,
         m.phase \notin {"absent", "abandoned", "accepted"},
         active.sections \subseteq m.sections
  PROVE  Outside' /\ active' = m /\ current.status = "open"
<1>1. current.status = "open"
  BY DEF IInv, Inside, PlaceInv
<1>2. Outside'
  BY <1>1, Write DEF IInv
<1>3. active' = m
  BY ActiveType DEF Update, IInv, TypeOK, active
<1> QED BY <1>1, <1>2, <1>3

LEMMA EnterInv ==
  ASSUME IInv, NEW c \in Controllers, EnterFrontends(c) \/ EnterShot(c) \/ EnterTasks(c)
  PROVE  Outside' /\ Inside'
<1>0. active \in Manifests /\ mem[c].stage \in Stages
  BY ActiveType DEF IInv, TypeOK, Locals
<1>1. CASE EnterFrontends(c) \/ EnterShot(c)
  <2> DEFINE m == [active EXCEPT !.phase = RunningPhase(mem[c].stage)]
  <2>1. /\ pc[c] = "stage" /\ mem[c].stage \in {"frontends", "versions", "development"}
        /\ Update(m) /\ UNCHANGED <<current, world, inflight, mem, holder>>
        /\ pc' = [pc EXCEPT ![c] = "work"]
    BY <1>1 DEF EnterFrontends, EnterShot, Entering, Goto, RunningPhase
  <2>2. /\ m \in Manifests /\ m.sections = active.sections
        /\ m.phase = RunningPhase(mem[c].stage)
        /\ m.phase \notin {"absent", "abandoned", "accepted"}
    BY <1>0, <2>1, PhaseTypes, PhaseFacts DEF Manifests
  <2> HIDE DEF m
  <2>3. Outside' /\ active' = m /\ current.status = "open"
    BY <2>1, <2>2, StageWrite
  <2>4. Inside'
    BY <2>1, <2>2, <2>3, Alone, InsideStep DEF IInv, Inside, Places
  <2> QED BY <2>3, <2>4
<1>2. CASE EnterTasks(c)
  <2> DEFINE s == mem[c].stage
             m == [active EXCEPT !.phase = RunningPhase(s), !.sections = active.sections \union {s}]
  <2>1. /\ pc[c] = "stage" /\ s \in TaskStages
        /\ Update(m) /\ UNCHANGED <<current, world, inflight, mem, holder>>
        /\ pc' = [pc EXCEPT ![c] = "tasks"]
    BY <1>2 DEF EnterTasks, Entering, Goto
  <2>2. /\ m \in Manifests /\ m.sections = active.sections \union {s}
        /\ m.phase = RunningPhase(s)
        /\ m.phase \notin {"absent", "abandoned", "accepted"}
    BY <1>0, <2>1, PhaseTypes, PhaseFacts DEF Manifests, Stages, TaskStages, External
  <2> HIDE DEF m
  <2>3. Outside' /\ active' = m /\ current.status = "open"
    BY <2>1, <2>2, StageWrite
  <2>4. Inside'
    BY <2>1, <2>2, <2>3, Alone, InsideStep DEF IInv, Inside, Places
  <2> QED BY <2>3, <2>4
<1> QED BY <1>1, <1>2

LEMMA SucceedInv ==
  ASSUME IInv, NEW c \in Controllers, ShotSucceeds(c) \/ TasksSucceed(c)
  PROVE  Outside' /\ Inside'
<1>0. active \in Manifests /\ mem[c].stage \in Stages
  BY ActiveType DEF IInv, TypeOK, Locals
<1>1. PICK m \in Manifests : /\ Update(m)
                             /\ m.sections = active.sections
                             /\ m.phase = DonePhase(mem[c].stage)
  <2>1. DonePhase(mem[c].stage) \in Phases
    BY <1>0, PhaseTypes
  <2>2. CASE TasksSucceed(c)
    BY <1>0, <2>1, <2>2 DEF TasksSucceed, Manifests
  <2>3. CASE ShotSucceeds(c)
    <3> DEFINE s == mem[c].stage
               m(n) == [active EXCEPT !.phase = DonePhase(s),
                          !.workspace = IF s = "frontends" THEN n ELSE active.workspace,
                          !.verified = active.verified \/ s = "development"]
    <3>1. PICK n \in LatestAttempt(activeVersion) : Update(m(n))
      BY <2>3 DEF ShotSucceeds
    <3>2. n \in Nat
      BY LatestAttemptType DEF IInv
    <3>3. m(n) \in Manifests /\ m(n).sections = active.sections /\ m(n).phase = DonePhase(s)
      BY <1>0, <2>1, <3>2 DEF Manifests
    <3> QED BY <3>1, <3>3
  <2> QED BY <2>2, <2>3
<1>2. /\ pc[c] \in {"work", "tasks"} /\ Proceed(c)
      /\ UNCHANGED <<current, world, inflight, holder>>
  BY DEF ShotSucceeds, TasksSucceed
<1>3. mem[c].stage # "acceptance"
  BY <1>2 DEF IInv, Inside, PlaceInv, TaskStages, External
<1>4. Outside' /\ current.status = "open"
  BY <1>0, <1>1, <1>2, <1>3, PhaseFacts, StageWrite
<1>5. Inside'
  BY <1>2, <1>4, ProceedInside DEF IInv, Inside
<1> QED BY <1>4, <1>5

LEMMA FailInv ==
  ASSUME IInv, NEW c \in Controllers, ShotFails(c) \/ TasksFail(c) \/ AcceptFails(c)
  PROVE  Outside' /\ Inside'
<1> DEFINE m == [active EXCEPT !.phase = FailedPhase(mem[c].stage)]
<1>0. active \in Manifests /\ mem[c].stage \in Stages
  BY ActiveType DEF IInv, TypeOK, Locals
<1>1. /\ pc[c] \in {"stage", "work", "tasks"} /\ Update(m)
      /\ UNCHANGED <<current, world, inflight>> /\ \E kind : Raise(c, kind)
  BY DEF ShotFails, TasksFail, AcceptFails, Entering, FailedPhase
<1>2. /\ m \in Manifests /\ m.sections = active.sections
      /\ m.phase \notin {"absent", "abandoned", "accepted"}
  BY <1>0, PhaseTypes, PhaseFacts DEF Manifests
<1> HIDE DEF m
<1>3. Outside' /\ current.status = "open"
  BY <1>1, <1>2, StageWrite
<1>4. Inside'
  BY <1>1, <1>3, RaiseInside DEF IInv, Inside
<1> QED BY <1>3, <1>4

\* A task is started with its stage announced.
LEMMA StartTaskInv ==
  ASSUME IInv, NEW c \in Controllers, NEW t \in Tasks, StartTask(c, t)
  PROVE  Outside' /\ Inside'
<1>1. /\ pc[c] = "tasks" /\ UNCHANGED <<current, ledger, holder, pc, world>>
      /\ mem' = [mem EXCEPT ![c].running = mem[c].running \union {t}]
      /\ \/ inflight' = inflight
         \/ /\ mem[c].stage \in External
            /\ inflight' = inflight \union {<<activeVersion, mem[c].stage, t>>}
  BY DEF StartTask, Op
<1>2. mem[c].stage \in active.sections /\ current.status = "open"
  BY <1>1 DEF IInv, Inside, PlaceInv
<1>3. SlotNamesALedger' /\ ConcludedInv' /\ AbandonedInv' /\ AcceptedInv'
  BY <1>1 DEF IInv, Outside, SlotNamesALedger, ConcludedInv, AbandonedInv, AcceptedInv, Exists,
     active, Landed
<1>4. UsedInv'
  BY <1>1, <1>2 DEF IInv, Outside, UsedInv, activeVersion, Landed
<1>5. EffectsAreAnnounced'
  BY <1>1, <1>2 DEF IInv, Outside, EffectsAreAnnounced, active, activeVersion
<1>6. \A d \in Controllers : pc[d] # "pointer"
  BY <1>1, Alone DEF IInv, Inside
<1>7. /\ \A d \in Controllers : mem'[d].stage = mem[d].stage /\ mem'[d].path = mem[d].path
      /\ active' = active
  BY <1>1 DEF IInv, TypeOK, Locals, active
<1>8. Inside'
  BY <1>1, <1>6, <1>7, StayInside DEF IInv
<1> QED BY <1>3, <1>4, <1>5, <1>8 DEF Outside

LEMMA FinishTaskInv ==
  ASSUME IInv, NEW c \in Controllers, NEW t \in Tasks, FinishTask(c, t)
  PROVE  Outside' /\ Inside'
<1> DEFINE s == mem[c].stage
           m == [active EXCEPT !.completed[s] = active.completed[s] \union {t}]
<1>0. active \in Manifests
  BY ActiveType DEF IInv
<1>1. /\ pc[c] = "tasks" /\ UNCHANGED <<current, holder, pc, world, inflight>>
      /\ mem' = [mem EXCEPT ![c].running = mem[c].running \ {t}]
      /\ Update(m)
  BY DEF FinishTask
<1>2. m \in Manifests /\ m.sections = active.sections /\ m.phase = active.phase
  BY <1>0 DEF Manifests
<1>3. active.phase = RunningPhase(s) /\ s \in Stages
  BY <1>1 DEF IInv, Inside, PlaceInv, TypeOK, Locals
<1>4. active.phase \notin {"absent", "abandoned", "accepted"}
  BY <1>3, PhaseFacts
<1> HIDE DEF m
<1>5. Outside' /\ active' = m
  BY <1>1, <1>2, <1>4, StageWrite
<1>6. \A d \in Controllers : pc[d] # "pointer"
  BY <1>1, Alone DEF IInv, Inside
<1>7. Inside'
  BY <1>1, <1>2, <1>5, <1>6, StayInside DEF IInv, TypeOK, Locals
<1> QED BY <1>5, <1>7

\* Acceptance has just read everything again.
LEMMA AcceptInv ==
  ASSUME IInv, NEW c \in Controllers, Accept(c)
  PROVE  Outside' /\ Inside'
<1> DEFINE m == [active EXCEPT !.phase = "accepted"]
<1>1. /\ pc[c] = "stage" /\ Update(m) /\ UNCHANGED <<current, world, inflight, mem, holder>>
      /\ active.dev => active.verified
      /\ \A s \in External : Landed(activeVersion, s)
      /\ pc' = [pc EXCEPT ![c] = "accepted"]
  BY DEF Accept, Entering, Goto
<1>2. current.status = "open" /\ current.name \in LedgerIds /\ active \in Manifests
  BY <1>1, ActiveType DEF IInv, Inside, PlaceInv
<1>3. /\ m.phase = "accepted" /\ m.sections = active.sections
      /\ m.dev = active.dev /\ m.verified = active.verified
  BY <1>2 DEF Manifests
<1> HIDE DEF m
<1>4. /\ ledger'[current.name] = m /\ active' = m
      /\ \A l \in LedgerIds : l # current.name => ledger'[l] = ledger[l]
  BY <1>1, <1>2 DEF Update, IInv, TypeOK, active
<1>5. Outside'
  <2>1. SlotNamesALedger' /\ ConcludedInv' /\ AbandonedInv' /\ AcceptedInv'
    BY <1>1, <1>2, <1>3, <1>4 DEF IInv, Outside, SlotNamesALedger, ConcludedInv, AbandonedInv,
       AcceptedInv, Exists, Landed, activeVersion
  <2>2. UsedInv' /\ EffectsAreAnnounced'
    BY <1>1, <1>2, <1>3, <1>4 DEF IInv, Outside, UsedInv, EffectsAreAnnounced, Landed, activeVersion
  <2> QED BY <2>1, <2>2 DEF Outside
<1>6. Inside'
  BY <1>1, <1>2, <1>3, <1>4, Alone, InsideStep DEF IInv, Inside, Places
<1> QED BY <1>5, <1>6

\* A step that writes nothing and issues nothing leaves the rest as it was.
LEMMA QuietInv ==
  ASSUME IInv, NEW c \in Controllers,
         PrecheckFails(c) \/ Crash(c) \/ \E t \in Tasks : FailTask(c, t)
  PROVE  Outside' /\ Inside'
<1>1. Outside'
  BY Still DEF IInv, PrecheckFails, Crash, FailTask
<1>2. CASE Crash(c)
  BY <1>1, <1>2, ExitInside DEF IInv, Inside, Crash
<1>3. CASE PrecheckFails(c)
  <2>1. pc[c] = "stage" /\ current' = current /\ \E kind : Raise(c, kind)
    BY <1>3 DEF PrecheckFails, Entering
  <2>2. current.status = "open"
    BY <2>1 DEF IInv, Inside, PlaceInv
  <2> QED BY <1>1, <2>1, <2>2, RaiseInside DEF IInv, Inside
<1>4. ASSUME NEW t \in Tasks, FailTask(c, t) PROVE Inside'
  <2>1. /\ pc[c] = "tasks" /\ UNCHANGED <<current, ledger, holder, pc>>
        /\ \E kind : mem' = [mem EXCEPT ![c].running = mem[c].running \ {t}, ![c].failed = kind]
    BY <1>4 DEF FailTask
  <2>2. /\ \A d \in Controllers : mem'[d].stage = mem[d].stage /\ mem'[d].path = mem[d].path
        /\ active' = active
    BY <2>1 DEF IInv, TypeOK, Locals, active
  <2>3. \A d \in Controllers : pc[d] # "pointer"
    BY <2>1, Alone DEF IInv, Inside
  <2> QED BY <2>1, <2>2, <2>3, StayInside DEF IInv
<1> QED BY <1>1, <1>2, <1>3, <1>4

LEMMA EnvironmentInv ==
  ASSUME IInv, NEW op \in Operations, Land(op) \/ Lose(op)
  PROVE  Outside' /\ Inside'
<1>1. /\ UNCHANGED <<current, ledger, holder, pc, mem>>
      /\ world' \union inflight' \subseteq world \union inflight /\ world \subseteq world'
  BY DEF Land, Lose
<1>2. Outside'
  BY <1>1, Still DEF IInv
<1>3. Inside'
  BY <1>1, StayInside DEF IInv, active
<1> QED BY <1>2, <1>3

LEMMA InvStep == ASSUME IInv, [Next]_vars PROVE IInv'
<1>1. TypeOK'
  BY TypeStep DEF IInv
<1>2. ASSUME NEW c \in Controllers, Command(c) PROVE Outside' /\ Inside'
  BY <1>2, StartInv, ResumeInv, AbandonInv DEF Command
<1>3. ASSUME NEW c \in Controllers, Step(c) PROVE Outside' /\ Inside'
  BY <1>3, PointerStep, PruneInv, DispatchInv, ConcludeInv, EnterInv, SucceedInv, FailInv,
     StartTaskInv, FinishTaskInv, AcceptInv DEF Step
<1>4. ASSUME NEW c \in Controllers, Failure(c) PROVE Outside' /\ Inside'
  BY <1>4, FailInv, QuietInv DEF Failure
<1>5. ASSUME NEW op \in Operations, Land(op) \/ Lose(op) PROVE Outside' /\ Inside'
  BY <1>5, EnvironmentInv
<1>6. ASSUME UNCHANGED vars PROVE Outside' /\ Inside'
  <2>1. Outside'
    BY <1>6, Still DEF IInv, vars
  <2>2. Inside'
    BY <1>6, StayInside DEF IInv, vars, active
  <2> QED BY <2>1, <2>2
<1> QED BY <1>1, <1>2, <1>3, <1>4, <1>5, <1>6 DEF Next, IInv

LEMMA Invariance == Spec => []IInv
BY InvInit, InvStep, PTL DEF Spec

\* The slot always names a ledger that exists.
THEOREM SlotSafe == Spec => []SlotNamesALedger
<1>1. IInv => SlotNamesALedger
  BY DEF IInv, Outside
<1> QED BY <1>1, Invariance, PTL

\* Nothing leaves for the outside world unannounced in the ledger.
THEOREM Announced == Spec => []EffectsAreAnnounced
<1>1. IInv => EffectsAreAnnounced
  BY DEF IInv, Outside
<1> QED BY <1>1, Invariance, PTL

\* An abandoned release never touched the outside world, and no process of its
\* commands still can.
THEOREM AbandonedSafe == Spec => []AbandonedIsLocal
<1>1. ASSUME IInv PROVE AbandonedIsLocal
  <2> SUFFICES ASSUME current.status # "absent", active.phase = "abandoned",
                      NEW op \in world \union inflight, op[1] = activeVersion
               PROVE  FALSE
    BY DEF AbandonedIsLocal
  <2>1. op[2] \in active.sections /\ op[2] \in External
    BY <1>1 DEF IInv, Outside, EffectsAreAnnounced, TypeOK, Operations
  <2>2. active.sections \intersect External = {}
    BY <1>1, ActiveType DEF IInv, Outside, AbandonedInv, active
  <2> QED BY <2>1, <2>2
<1> QED BY <1>1, Invariance, PTL

----------------------------------------------------------------------------
(* What the ledgers record, and the order of the effects: a second          *)
(* invariant, inductive relative to the first.                              *)

\* The stages that follow a task stage.
Later(s) ==
  CASE s = "builds"     -> {"local-refs", "snapshots", "remotes", "artifacts", "development", "acceptance"}
    [] s = "local-refs" -> {"snapshots", "remotes", "artifacts", "development", "acceptance"}
    [] s = "snapshots"  -> {"remotes", "artifacts", "development", "acceptance"}
    [] s = "remotes"    -> {"artifacts", "development", "acceptance"}
    [] s = "artifacts"  -> {"development", "acceptance"}

\* The phases in which a release has task stage s behind it.
Past(s) ==
  {DonePhase(s)} \union {DonePhase(e) : e \in Later(s)} \union {FailedPhase(e) : e \in Later(s)}
    \union {RunningPhase(e) : e \in Later(s) \ {"acceptance"}}

\* A release that is past a task stage recorded all of its tasks.
PastInv ==
  \A l \in LedgerIds, s \in TaskStages : ledger[l].phase \in Past(s) => ledger[l].completed[s] = Tasks

\* An operation that may still land has every earlier stage landed before it.
OrderedInv ==
  \A op \in inflight, e \in External : op[2] \in Later(e) => Landed(op[1], e)

\* A recorded external task did take effect, whatever happened to the
\* controllers in between.
RecordsAreTrue ==
  \A l \in LedgerIds, s \in External, t \in Tasks :
    t \in ledger[l].completed[s] => <<l[1], s, t>> \in world

History == RecordsAreTrue /\ PastInv /\ OrderedInv /\ WorkspaceIsKept

\* The step forgets no record of the ledger that the slot goes on naming.
Grown ==
  current' = current /\ current.status # "absent"
    => \A s \in TaskStages : active.completed[s] \subseteq active'.completed[s]

\* What the phases that a stage reads and writes say of the stages before it.
LEMMA PastFacts ==
  ASSUME NEW s \in TaskStages
  PROVE  /\ \A e \in Later(s), dev \in BOOLEAN : AcceptedPhases(e, dev) \subseteq Past(s)
         /\ \A e \in Stages \ {"acceptance"} : RunningPhase(e) \in Past(s) => e \in Later(s)
         /\ \A e \in Stages : FailedPhase(e) \in Past(s) => e \in Later(s)
         /\ \A e \in Stages : DonePhase(e) \in Past(s) => e = s \/ e \in Later(s)
         /\ \A e \in Later(s) : RunningPhase(e) \in Past(s) \/ e = "acceptance"
         /\ \A e \in Later(s) : FailedPhase(e) \in Past(s)
         /\ {"absent", "abandoned", "started", "frontend-preparation-failed"} \intersect Past(s) = {}
         /\ "accepted" \in Past(s)
<1> USE DEF Past, Later, RunningPhase, FailedPhase, DonePhase
<1>1. CASE s = "builds"
  BY <1>1 DEF Stages, TaskStages, External, AcceptedPhases, EntryPhases, StartPhase
<1>2. CASE s = "local-refs"
  BY <1>2 DEF Stages, TaskStages, External, AcceptedPhases, EntryPhases, StartPhase
<1>3. CASE s = "snapshots"
  BY <1>3 DEF Stages, TaskStages, External, AcceptedPhases, EntryPhases, StartPhase
<1>4. CASE s = "remotes"
  BY <1>4 DEF Stages, TaskStages, External, AcceptedPhases, EntryPhases, StartPhase
<1>5. CASE s = "artifacts"
  BY <1>5 DEF Stages, TaskStages, External, AcceptedPhases, EntryPhases, StartPhase
<1> QED BY <1>1, <1>2, <1>3, <1>4, <1>5 DEF TaskStages, External

\* The external stages follow each other, and the stages of a release precede
\* its external ones.
LEMMA LaterTypes ==
  \A s \in TaskStages : Later(s) \subseteq Stages /\ s \notin Later(s)
BY DEF Later, Stages, TaskStages, External

\* A step that writes no file and issues nothing new.
LEMMA HistoryStill ==
  ASSUME History, UNCHANGED <<ledger, attempts>>, current'.name = current.name,
         current'.status # "absent" => current.status # "absent",
         inflight' \subseteq inflight, world \subseteq world'
  PROVE  History' /\ Grown
BY DEF History, RecordsAreTrue, PastInv, OrderedInv, WorkspaceIsKept, Landed, active, activeVersion, Grown

\* A write to the active ledger.  What the phase promises must have been
\* promised before or be there, and a new workspace must be on disk.
LEMMA HistoryWrite ==
  ASSUME TypeOK, History, NEW m \in Manifests, Update(m), UNCHANGED <<current, world>>,
         inflight' \subseteq inflight, attempts \subseteq attempts',
         \A s \in TaskStages : active.completed[s] \subseteq m.completed[s],
         \A s \in External : \A t \in m.completed[s] \ active.completed[s] : <<activeVersion, s, t>> \in world,
         \A s \in TaskStages : m.phase \in Past(s) => active.phase \in Past(s) \/ m.completed[s] = Tasks,
         m.workspace \in {0, active.workspace} \/ <<activeVersion, m.workspace>> \in attempts
  PROVE  History' /\ Grown
<1>1. /\ ledger'[current.name] = m /\ active' = m
      /\ \A l \in LedgerIds : l # current.name => ledger'[l] = ledger[l]
      /\ current.name \in LedgerIds /\ activeVersion' = activeVersion
      /\ active = ledger[current.name] /\ activeVersion = current.name[1]
  BY ActiveType DEF Update, TypeOK, active, activeVersion
<1>2. \A s \in TaskStages : active.completed[s] \subseteq Tasks /\ m.completed[s] \subseteq Tasks
  BY ActiveType DEF Manifests
<1>3. External \subseteq TaskStages
  BY DEF TaskStages
<1>4. RecordsAreTrue'
  BY <1>1, <1>3 DEF History, RecordsAreTrue
<1>5. PastInv'
  <2> SUFFICES ASSUME NEW s \in TaskStages, m.phase \in Past(s) PROVE m.completed[s] = Tasks
    BY <1>1 DEF History, PastInv
  <2>1. ASSUME active.phase \in Past(s) PROVE m.completed[s] = Tasks
    <3>1. active.completed[s] = Tasks
      BY <1>1, <2>1 DEF History, PastInv
    <3>2. active.completed[s] \subseteq m.completed[s] /\ m.completed[s] \subseteq Tasks
      BY <1>2
    <3> QED BY <3>1, <3>2
  <2> QED BY <2>1
<1>6. OrderedInv'
  BY DEF History, OrderedInv, Landed
<1>7. WorkspaceIsKept'
  BY <1>1 DEF History, WorkspaceIsKept
<1>8. Grown
  BY <1>1 DEF Grown
<1> QED BY <1>4, <1>5, <1>6, <1>7, <1>8 DEF History

LEMMA HistoryInit == ASSUME Init PROVE History
<1>1. \A l \in LedgerIds : ledger[l] = NoManifest
  BY DEF Init
<1>2. NoManifest.phase = "absent" /\ \A s \in TaskStages : NoManifest.completed[s] = {}
  BY DEF NoManifest, Manifest, NoTasks
<1>3. PastInv
  BY <1>1, <1>2, PastFacts DEF PastInv
<1>4. RecordsAreTrue
  BY <1>1, <1>2 DEF RecordsAreTrue, TaskStages
<1> QED BY <1>3, <1>4 DEF Init, History, OrderedInv, WorkspaceIsKept

\* start and its two writes: the new ledger promises nothing.
LEMMA HistoryStart ==
  ASSUME IInv, History, NEW c \in Controllers, NEW v \in Versions, NEW dev \in BOOLEAN, Start(c, v, dev)
  PROVE  History' /\ Grown
<1>1. PICK l \in NextLedgerPath(v) : ledger' = [ledger EXCEPT ![l] = Manifest("started", dev)]
  BY DEF Start
<1>2. l \in LedgerIds /\ ~Exists(l)
  BY BoundsAssumption DEF NextLedgerPath, LedgerIds
<1>3. current' = current /\ attempts' = attempts /\ inflight' = inflight /\ world' = world
  BY DEF Start
<1>4. /\ ledger'[l].phase = "started" /\ \A s \in TaskStages : ledger'[l].completed[s] = {}
      /\ \A k \in LedgerIds : k # l => ledger'[k] = ledger[k]
  BY <1>1, <1>2 DEF IInv, TypeOK, Manifest, NoTasks
<1>5. current.status # "absent" => active' = active
  BY <1>2, <1>3, <1>4, ActiveType DEF IInv, Outside, SlotNamesALedger, active
<1>9. Grown
  BY <1>5 DEF Grown
<1>6. RecordsAreTrue'
  BY <1>3, <1>4 DEF History, RecordsAreTrue, TaskStages
<1>7. PastInv'
  BY <1>4, PastFacts DEF History, PastInv
<1>8. OrderedInv' /\ WorkspaceIsKept'
  BY <1>3, <1>5 DEF History, OrderedInv, WorkspaceIsKept, Landed, activeVersion
<1> QED BY <1>6, <1>7, <1>8, <1>9 DEF History

LEMMA HistoryPointer ==
  ASSUME IInv, History, NEW c \in Controllers, WritePointer(c)
  PROVE  History' /\ Grown
<1>1. /\ current'.name = mem[c].path /\ current'.status = "open"
      /\ UNCHANGED <<ledger, attempts, inflight, world>>
      /\ pc[c] = "pointer"
  BY DEF WritePointer
<1>2. ledger[mem[c].path].workspace = 0 /\ current.status # "open"
  BY <1>1 DEF IInv, Inside, PointerInv
<1>4. Grown
  BY <1>1, <1>2 DEF Grown
<1>3. WorkspaceIsKept'
  BY <1>1, <1>2 DEF WorkspaceIsKept, active
<1> QED BY <1>1, <1>3, <1>4 DEF History, RecordsAreTrue, PastInv, OrderedInv, Landed

LEMMA HistoryPrune ==
  ASSUME IInv, History, NEW c \in Controllers, PruneAttempt(c) \/ PruneLedger(c) \/ FinishPrune(c)
  PROVE  History' /\ Grown
<1>1. CASE FinishPrune(c)
  BY <1>1, HistoryStill DEF FinishPrune
<1>2. CASE PruneAttempt(c)
  <2>1. /\ UNCHANGED <<current, ledger, inflight, world>>
        /\ \A a \in attempts : a = <<activeVersion, active.workspace>> => a \in attempts'
    BY <1>2 DEF PruneAttempt, Obsolete
  <2>2. active' = active /\ activeVersion' = activeVersion
    BY <2>1 DEF active, activeVersion
  <2>3. WorkspaceIsKept'
    BY <2>1, <2>2 DEF History, WorkspaceIsKept
  <2>4. Grown
    BY <2>2 DEF Grown
  <2> QED BY <2>1, <2>3, <2>4 DEF History, RecordsAreTrue, PastInv, OrderedInv, Landed
<1>3. CASE PruneLedger(c)
  <2>1. PICK l \in LedgerIds : l # current.name /\ ledger' = [ledger EXCEPT ![l] = NoManifest]
    BY <1>3 DEF PruneLedger, ObsoleteLedgers
  <2>2. UNCHANGED <<current, attempts, inflight, world>>
    BY <1>3 DEF PruneLedger
  <2>3. /\ ledger'[l].phase = "absent" /\ \A s \in TaskStages : ledger'[l].completed[s] = {}
        /\ \A k \in LedgerIds : k # l => ledger'[k] = ledger[k]
    BY <2>1 DEF IInv, TypeOK, NoManifest, Manifest, NoTasks
  <2>4. active' = active /\ activeVersion' = activeVersion
    BY <2>1, <2>2, <2>3, ActiveType DEF IInv, active, activeVersion
  <2>5. RecordsAreTrue'
    BY <2>2, <2>3 DEF History, RecordsAreTrue, TaskStages
  <2>6. PastInv'
    BY <2>3, PastFacts DEF History, PastInv
  <2>7. OrderedInv' /\ WorkspaceIsKept'
    BY <2>2, <2>4 DEF History, OrderedInv, WorkspaceIsKept, Landed
  <2>8. Grown
    BY <2>4 DEF Grown
  <2> QED BY <2>5, <2>6, <2>7, <2>8 DEF History
<1> QED BY <1>1, <1>2, <1>3

\* Abandonment and the rewind to the frontends promise nothing.
LEMMA HistoryCommand ==
  ASSUME IInv, History, NEW c \in Controllers,
         Resume(c) \/ Abandon(c) \/ Conclude(c) \/ Dispatch(c) \/ DispatchAccepted(c) \/ Refuse(c)
  PROVE  History' /\ Grown
<1>0. active \in Manifests /\ TypeOK
  BY ActiveType DEF IInv
<1>1. CASE Resume(c) \/ DispatchAccepted(c) \/ Refuse(c)
  BY <1>1, HistoryStill DEF Resume, DispatchAccepted, Refuse
<1>2. CASE Conclude(c)
  <2>1. UNCHANGED <<ledger, attempts, inflight, world>> /\ current'.name = current.name
    BY <1>2, <1>0 DEF Conclude, TypeOK
  <2>2. current.status # "absent"
    BY <1>2 DEF Conclude, IInv, Inside, PlaceInv
  <2> QED BY <2>1, <2>2, HistoryStill
<1>3. CASE Abandon(c)
  <2> DEFINE m == [active EXCEPT !.phase = "abandoned"]
  <2>1. Update(m) /\ UNCHANGED <<current, attempts, inflight, world>>
    BY <1>3 DEF Abandon
  <2>2. /\ m \in Manifests /\ m.phase = "abandoned" /\ m.completed = active.completed
        /\ m.workspace = active.workspace
    BY <1>0, PhaseTypes DEF Manifests
  <2> HIDE DEF m
  <2> QED BY <1>0, <2>1, <2>2, PastFacts, HistoryWrite
<1>4. CASE Dispatch(c)
  <2> DEFINE m == IF active.phase \in RewindToFrontends
                  THEN [active EXCEPT !.phase = "frontend-preparation-failed"] ELSE active
  <2>1. Update(m) /\ UNCHANGED <<current, attempts, inflight, world>>
    BY <1>4 DEF Dispatch
  <2>2. /\ m \in Manifests /\ m.phase \in {"frontend-preparation-failed", active.phase}
        /\ m.completed = active.completed /\ m.workspace = active.workspace
    BY <1>0, PhaseTypes DEF Manifests
  <2> HIDE DEF m
  <2> QED BY <1>0, <2>1, <2>2, PastFacts, HistoryWrite
<1> QED BY <1>1, <1>2, <1>3, <1>4

\* A stage is entered from a phase that has every earlier stage behind it.
LEMMA HistoryEnter ==
  ASSUME IInv, History, NEW c \in Controllers, EnterFrontends(c) \/ EnterShot(c) \/ EnterTasks(c)
  PROVE  History' /\ Grown
<1> DEFINE e == mem[c].stage
<1>0. active \in Manifests /\ TypeOK /\ e \in Stages /\ active.dev \in BOOLEAN
  BY ActiveType DEF IInv, TypeOK, Locals, Manifests
<1>1. PICK m \in Manifests : /\ Update(m) /\ m.phase = RunningPhase(e)
                             /\ m.completed = active.completed /\ m.workspace = active.workspace
  <2>1. CASE EnterFrontends(c) \/ EnterShot(c)
    <3> DEFINE m == [active EXCEPT !.phase = RunningPhase(e)]
    <3>1. Update(m) /\ e # "acceptance"
      BY <2>1 DEF EnterFrontends, EnterShot, Entering, RunningPhase
    <3>2. /\ m \in Manifests /\ m.phase = RunningPhase(e)
          /\ m.completed = active.completed /\ m.workspace = active.workspace
      BY <1>0, <3>1, PhaseTypes DEF Manifests
    <3> QED BY <3>1, <3>2
  <2>2. CASE EnterTasks(c)
    <3> DEFINE m == [active EXCEPT !.phase = RunningPhase(e), !.sections = active.sections \union {e}]
    <3>1. Update(m) /\ e \in TaskStages
      BY <2>2 DEF EnterTasks, Entering
    <3>2. RunningPhase(e) \in Phases
      BY <3>1, PhaseTypes DEF Stages, TaskStages, External
    <3>3. /\ m \in Manifests /\ m.phase = RunningPhase(e)
          /\ m.completed = active.completed /\ m.workspace = active.workspace
      BY <1>0, <3>1, <3>2 DEF Manifests
    <3> QED BY <3>1, <3>3
  <2> QED BY <2>1, <2>2
<1>2. /\ UNCHANGED <<current, inflight, world>> /\ attempts \subseteq attempts'
      /\ active.phase \in AcceptedPhases(e, active.dev) /\ e # "acceptance"
  BY DEF EnterFrontends, EnterShot, EnterTasks, Entering, TaskStages, External
<1> HIDE DEF e
<1>3. \A s \in TaskStages : m.phase \in Past(s) => active.phase \in Past(s)
  BY <1>0, <1>1, <1>2, PastFacts
<1> QED BY <1>0, <1>1, <1>2, <1>3, HistoryWrite

\* A stage fails into a phase that promises what its running phase promised.
LEMMA HistoryFail ==
  ASSUME IInv, History, NEW c \in Controllers, ShotFails(c) \/ TasksFail(c) \/ AcceptFails(c)
  PROVE  History' /\ Grown
<1> DEFINE e == mem[c].stage
           m == [active EXCEPT !.phase = FailedPhase(e)]
<1>0. active \in Manifests /\ TypeOK /\ e \in Stages /\ active.dev \in BOOLEAN
  BY ActiveType DEF IInv, TypeOK, Locals, Manifests
<1>1. Update(m) /\ UNCHANGED <<current, attempts, inflight, world>>
  BY DEF ShotFails, TasksFail, AcceptFails, Entering, FailedPhase
<1>2. /\ m \in Manifests /\ m.phase = FailedPhase(e)
      /\ m.completed = active.completed /\ m.workspace = active.workspace
  BY <1>0, PhaseTypes DEF Manifests
<1>3. \/ active.phase = RunningPhase(e) /\ e # "acceptance"
      \/ active.phase \in AcceptedPhases(e, active.dev)
  BY DEF ShotFails, TasksFail, AcceptFails, Entering, IInv, Inside, PlaceInv, TaskStages, External
<1> HIDE DEF m, e
<1>4. \A s \in TaskStages : m.phase \in Past(s) => active.phase \in Past(s)
  BY <1>0, <1>2, <1>3, PastFacts
<1> QED BY <1>0, <1>1, <1>2, <1>4, HistoryWrite

\* A task stage ends with all its tasks recorded; a prepared workspace is the
\* newest on disk.
LEMMA HistorySucceed ==
  ASSUME IInv, History, NEW c \in Controllers, ShotSucceeds(c) \/ TasksSucceed(c)
  PROVE  History' /\ Grown
<1> DEFINE e == mem[c].stage
<1>0. active \in Manifests /\ TypeOK /\ e \in Stages
  BY ActiveType DEF IInv, TypeOK, Locals
<1>1. PICK m \in Manifests :
        /\ Update(m) /\ m.phase = DonePhase(e) /\ m.completed = active.completed
        /\ m.workspace \in {0, active.workspace} \/ <<activeVersion, m.workspace>> \in attempts
        /\ e \in TaskStages => active.completed[e] = Tasks
  <2>1. DonePhase(e) \in Phases
    BY <1>0, PhaseTypes
  <2>2. CASE TasksSucceed(c)
    <3> DEFINE m == [active EXCEPT !.phase = DonePhase(e)]
    <3>1. Update(m) /\ active.completed[e] = Tasks
      BY <2>2 DEF TasksSucceed
    <3>2. /\ m \in Manifests /\ m.phase = DonePhase(e)
          /\ m.completed = active.completed /\ m.workspace = active.workspace
      BY <1>0, <2>1 DEF Manifests
    <3> QED BY <3>1, <3>2
  <2>3. CASE ShotSucceeds(c)
    <3> DEFINE m(n) == [active EXCEPT !.phase = DonePhase(e),
                          !.workspace = IF e = "frontends" THEN n ELSE active.workspace,
                          !.verified = active.verified \/ e = "development"]
    <3>1. PICK n \in LatestAttempt(activeVersion) : Update(m(n))
      BY <2>3 DEF ShotSucceeds
    <3>2. n \in Nat
      BY <1>0, LatestAttemptType
    <3>3. n = 0 \/ <<activeVersion, n>> \in attempts
      BY <1>0 DEF LatestAttempt, TypeOK
    <3>4. e \notin TaskStages
      BY <2>3 DEF ShotSucceeds, IInv, Inside, PlaceInv, TaskStages, External
    <3>5. /\ m(n) \in Manifests /\ m(n).phase = DonePhase(e) /\ m(n).completed = active.completed
          /\ m(n).workspace \in {n, active.workspace}
      BY <1>0, <2>1, <3>2 DEF Manifests
    <3> HIDE DEF m
    <3> QED BY <3>1, <3>3, <3>4, <3>5
  <2> QED BY <2>2, <2>3
<1>2. /\ UNCHANGED <<current, attempts, inflight, world>>
      /\ active.phase = RunningPhase(e) /\ e # "acceptance"
  BY DEF ShotSucceeds, TasksSucceed, IInv, Inside, PlaceInv, TaskStages, External
<1> HIDE DEF e
<1>3. \A s \in TaskStages : m.phase \in Past(s) => active.phase \in Past(s) \/ m.completed[s] = Tasks
  BY <1>0, <1>1, <1>2, PastFacts
<1> QED BY <1>0, <1>1, <1>2, <1>3, HistoryWrite

LEMMA HistoryAccept ==
  ASSUME IInv, History, NEW c \in Controllers, Accept(c)
  PROVE  History' /\ Grown
<1> DEFINE m == [active EXCEPT !.phase = "accepted"]
<1>0. active \in Manifests /\ TypeOK /\ active.dev \in BOOLEAN
  BY ActiveType DEF IInv, Manifests
<1>1. /\ Update(m) /\ UNCHANGED <<current, attempts, inflight, world>>
      /\ active.phase \in AcceptedPhases("acceptance", active.dev)
  BY DEF Accept, Entering
<1>2. /\ m \in Manifests /\ m.phase = "accepted"
      /\ m.completed = active.completed /\ m.workspace = active.workspace
  BY <1>0, PhaseTypes DEF Manifests
<1> HIDE DEF m
<1>3. \A s \in TaskStages : "acceptance" \in Later(s)
  BY DEF Later, TaskStages, External
<1>4. \A s \in TaskStages : active.phase \in Past(s)
  BY <1>0, <1>1, <1>3, PastFacts
<1> QED BY <1>0, <1>1, <1>2, <1>4, HistoryWrite

\* A task of a stage is issued when every earlier stage is recorded, and so has
\* landed.
LEMMA HistoryStartTask ==
  ASSUME IInv, History, NEW c \in Controllers, NEW t \in Tasks, StartTask(c, t)
  PROVE  History' /\ Grown
<1>1. /\ UNCHANGED <<current, ledger, attempts, world>>
      /\ pc[c] = "tasks"
      /\ \/ inflight' = inflight
         \/ inflight' = inflight \union {<<activeVersion, mem[c].stage, t>>}
  BY DEF StartTask, Op
<1>2. /\ active.phase = RunningPhase(mem[c].stage) /\ mem[c].stage \in TaskStages
      /\ current.name \in LedgerIds
  BY <1>1, ActiveType DEF IInv, Inside, PlaceInv
<1>3. ASSUME NEW e \in External, mem[c].stage \in Later(e) PROVE Landed(activeVersion, e)
  <2>1. e \in TaskStages /\ mem[c].stage # "acceptance"
    BY <1>2 DEF TaskStages, External
  <2>2. active.phase \in Past(e)
    BY <1>2, <1>3, <2>1, PastFacts
  <2>3. active.completed[e] = Tasks
    BY <1>2, <2>1, <2>2 DEF History, PastInv, active
  <2> QED BY <1>2, <2>3 DEF History, RecordsAreTrue, Landed, active, activeVersion
<1>4. OrderedInv'
  BY <1>1, <1>3 DEF History, OrderedInv, Landed
<1> QED BY <1>1, <1>4 DEF History, RecordsAreTrue, PastInv, WorkspaceIsKept, active, activeVersion, Grown

\* A task is recorded once it has taken effect.
LEMMA HistoryFinishTask ==
  ASSUME IInv, History, NEW c \in Controllers, NEW t \in Tasks, FinishTask(c, t)
  PROVE  History' /\ Grown
<1> DEFINE s == mem[c].stage
           m == [active EXCEPT !.completed[s] = active.completed[s] \union {t}]
<1>0. active \in Manifests /\ TypeOK
  BY ActiveType DEF IInv
<1>1. /\ Update(m) /\ UNCHANGED <<current, attempts, inflight, world>>
      /\ s \in External => <<activeVersion, s, t>> \in world
  BY DEF FinishTask, Op
<1>2. s \in TaskStages
  BY DEF FinishTask, IInv, Inside, PlaceInv
<1>3. /\ m \in Manifests /\ m.phase = active.phase /\ m.workspace = active.workspace
      /\ \A e \in TaskStages : m.completed[e] =
           IF e = s THEN active.completed[s] \union {t} ELSE active.completed[e]
  BY <1>0, <1>2 DEF Manifests
<1> HIDE DEF m
<1>4. External \subseteq TaskStages
  BY DEF TaskStages
<1>5. /\ \A e \in TaskStages : active.completed[e] \subseteq m.completed[e]
      /\ \A e \in External : \A u \in m.completed[e] \ active.completed[e] : <<activeVersion, e, u>> \in world
  BY <1>1, <1>2, <1>3, <1>4
<1> QED BY <1>0, <1>1, <1>3, <1>5, HistoryWrite

LEMMA HistoryStep == ASSUME IInv, History, [Next]_vars PROVE History' /\ Grown
<1>1. ASSUME NEW c \in Controllers, Command(c) PROVE History' /\ Grown
  BY <1>1, HistoryStart, HistoryCommand DEF Command
<1>2. ASSUME NEW c \in Controllers, Step(c) PROVE History' /\ Grown
  BY <1>2, HistoryPointer, HistoryPrune, HistoryCommand, HistoryEnter, HistorySucceed, HistoryFail,
     HistoryStartTask, HistoryFinishTask, HistoryAccept DEF Step
<1>3. ASSUME NEW c \in Controllers, PrecheckFails(c) \/ Crash(c) \/ \E t \in Tasks : FailTask(c, t)
      PROVE  History' /\ Grown
  BY <1>3, HistoryStill DEF PrecheckFails, Crash, FailTask
<1>4. ASSUME NEW c \in Controllers, Failure(c) PROVE History' /\ Grown
  BY <1>3, <1>4, HistoryFail DEF Failure
<1>5. ASSUME NEW op \in Operations, Land(op) \/ Lose(op) PROVE History' /\ Grown
  BY <1>5, HistoryStill DEF Land, Lose
<1>6. ASSUME UNCHANGED vars PROVE History' /\ Grown
  BY <1>6, HistoryStill DEF vars
<1> QED BY <1>1, <1>2, <1>4, <1>5, <1>6 DEF Next

LEMMA HistoryInvariance == Spec => [](IInv /\ History)
<1>1. Init => IInv /\ History
  BY InvInit, HistoryInit
<1>2. (IInv /\ History) /\ [Next]_vars => (IInv /\ History)'
  BY InvStep, HistoryStep
<1> QED BY <1>1, <1>2, PTL DEF Spec

\* The workspace that the active ledger names is never pruned under it.
THEOREM WorkspaceKept == Spec => []WorkspaceIsKept
<1>1. History => WorkspaceIsKept
  BY DEF History
<1> QED BY <1>1, HistoryInvariance, PTL

\* A release is concluded in the phase it reached, and an accepted one did and
\* landed everything.
THEOREM ConclusionEarned == Spec => []ConclusionIsEarned
<1>1. ASSUME IInv, History PROVE ConclusionIsEarned
  <2>1. \A l \in LedgerIds, s \in TaskStages : ledger[l].phase = "accepted" => ledger[l].completed[s] = Tasks
    BY <1>1, PastFacts DEF History, PastInv
  <2> QED BY <1>1, <2>1 DEF IInv, Outside, ConcludedInv, AcceptedInv, ConclusionIsEarned
<1> QED BY <1>1, HistoryInvariance, PTL

\* While the slot keeps naming a ledger, no step drops a record of a task that
\* was done: not a failure, not a retry, not a rewind.
THEOREM RecordsGrow == Spec => RecordsOnlyGrow
<1>1. ASSUME IInv, History, [Next]_vars PROVE Grown
  BY <1>1, HistoryStep
<1> QED BY <1>1, HistoryInvariance, PTL DEF Spec, RecordsOnlyGrow, Grown

----------------------------------------------------------------------------
(* Whether a command that runs can go on: a third invariant, inductive      *)
(* relative to the first two.                                               *)

\* The phases that only a release with a development policy has, those that have
\* its verification behind them, and those that need no frontend workspace.
DevPhases == {RunningPhase("development"), FailedPhase("development"), DonePhase("development")}
Verified == {DonePhase("development"), FailedPhase("acceptance"), DonePhase("acceptance")}
Unprepared == {"absent", "started", "abandoned", RunningPhase("frontends"), FailedPhase("frontends")}

\* What the phase of a manifest says of the rest of it.
Sound(m) ==
  /\ m.phase \in DevPhases => m.dev
  /\ m.phase \in Verified /\ m.dev => m.verified
  /\ m.phase \notin Unprepared => m.workspace # 0

ManifestInv == \A l \in LedgerIds : Sound(ledger[l])

\* The stage a controller is in belongs to the release and follows its phase,
\* and only a task stage has tasks running.
StageInv ==
  \A c \in Controllers :
    /\ pc[c] \in {"stage", "work", "tasks"} => mem[c].stage \in StagesOf(active.dev)
    /\ pc[c] = "stage" => active.phase \in EntryPhases(mem[c].stage, active.dev)
    /\ pc[c] = "work" /\ mem[c].stage = "frontends" =>
         \E n \in Nat \ {0} : <<activeVersion, n>> \in attempts
    /\ pc[c] # "tasks" => mem[c].running = {}

\* An external operation that is waited for has landed, or its process runs.
ChildInv ==
  \A c \in Controllers : mem[c].stage \in External =>
    \A t \in mem[c].running : Op(mem[c].stage, t) \in world \union inflight

WayInv == ManifestInv /\ StageInv /\ ChildInv

\* What the stage table says of the phases that a stage reads and writes.
LEMMA WayFacts ==
  ASSUME NEW dev \in BOOLEAN
  PROVE  /\ \A s \in StagesOf(dev) \ {"acceptance"} :
              /\ NextStage(s, dev) \in StagesOf(dev)
              /\ DonePhase(s) \in EntryPhases(NextStage(s, dev), dev)
         /\ \A s \in Stages \ {"frontends"} :
              /\ AcceptedPhases(s, dev) = EntryPhases(s, dev)
              /\ EntryPhases(s, dev) \intersect Unprepared = {}
         /\ \A s \in StagesOf(dev) :
              {RunningPhase(s), FailedPhase(s), DonePhase(s)} \intersect DevPhases # {} => dev
         /\ dev => EntryPhases("acceptance", dev) \subseteq Verified
         /\ \A s \in Stages \ {"acceptance"} :
              RunningPhase(s) \notin Verified /\ FailedPhase(s) \notin Verified
         /\ \A s \in Stages : DonePhase(s) \in Verified => s \in {"development", "acceptance"}
         /\ \A s \in Stages : DonePhase(s) \notin Unprepared
         /\ \A s \in Stages \ {"frontends", "acceptance"} : RunningPhase(s) \notin Unprepared
         /\ "accepted" \notin DevPhases
<1> USE DEF RunningPhase, FailedPhase, DonePhase
<1>1. \A s \in StagesOf(dev) \ {"acceptance"} :
        /\ NextStage(s, dev) \in StagesOf(dev)
        /\ DonePhase(s) \in EntryPhases(NextStage(s, dev), dev)
  BY DEF StagesOf, Stages, TaskStages, External, NextStage, EntryPhases, StartPhase
<1>2. \A s \in Stages \ {"frontends"} :
        /\ AcceptedPhases(s, dev) = EntryPhases(s, dev)
        /\ EntryPhases(s, dev) \intersect Unprepared = {}
  BY DEF Stages, TaskStages, External, AcceptedPhases, EntryPhases, StartPhase, Unprepared
<1>3. \A s \in StagesOf(dev) :
        {RunningPhase(s), FailedPhase(s), DonePhase(s)} \intersect DevPhases # {} => dev
  BY DEF StagesOf, Stages, TaskStages, External, DevPhases
<1>4. dev => EntryPhases("acceptance", dev) \subseteq Verified
  BY DEF EntryPhases, StartPhase, Verified
<1>5. /\ \A s \in Stages \ {"acceptance"} : RunningPhase(s) \notin Verified /\ FailedPhase(s) \notin Verified
      /\ \A s \in Stages : DonePhase(s) \in Verified => s \in {"development", "acceptance"}
      /\ \A s \in Stages : DonePhase(s) \notin Unprepared
  BY DEF Stages, TaskStages, External, Verified, Unprepared
<1>6. /\ \A s \in Stages \ {"frontends", "acceptance"} : RunningPhase(s) \notin Unprepared
      /\ "accepted" \notin DevPhases
  BY DEF Stages, TaskStages, External, Unprepared, DevPhases
<1> QED BY <1>1, <1>2, <1>3, <1>4, <1>5, <1>6

\* A write to the active ledger.
LEMMA SoundWrite ==
  ASSUME TypeOK, ManifestInv, NEW m \in Manifests, Update(m), current' = current, Sound(m)
  PROVE  ManifestInv' /\ active' = m /\ activeVersion' = activeVersion
BY ActiveType DEF TypeOK, Update, ManifestInv, Sound, active, activeVersion

\* A step of one controller, while the others are idle.
LEMMA Turn ==
  ASSUME StageInv, NEW c \in Controllers,
         \A d \in Controllers \ {c} : pc[d] = "idle" /\ pc'[d] = pc[d] /\ mem'[d] = mem[d],
         pc'[c] \in {"stage", "work", "tasks"} => mem'[c].stage \in StagesOf(active'.dev),
         pc'[c] = "stage" => active'.phase \in EntryPhases(mem'[c].stage, active'.dev),
         pc'[c] = "work" /\ mem'[c].stage = "frontends" =>
           \E n \in Nat \ {0} : <<activeVersion', n>> \in attempts',
         pc'[c] # "tasks" => mem'[c].running = {},
         mem'[c].stage \in External =>
           \A t \in mem'[c].running : <<activeVersion', mem'[c].stage, t>> \in world' \union inflight'
  PROVE  StageInv' /\ ChildInv'
<1>1. \A d \in Controllers \ {c} : pc'[d] = "idle" /\ mem'[d].running = {}
  BY DEF StageInv
<1>2. StageInv'
  BY <1>1 DEF StageInv
<1>3. ChildInv'
  BY <1>1 DEF ChildInv, Op
<1> QED BY <1>2, <1>3

\* A command that ends, or is driven again, has no task running.
LEMMA LeaveWay ==
  ASSUME TypeOK, StageInv, LockInv, NEW c \in Controllers, pc[c] # "idle",
         Exit(c) \/ \E kind : Raise(c, kind)
  PROVE  StageInv' /\ ChildInv'
<1>1. \A d \in Controllers \ {c} : pc[d] = "idle"
  BY Alone
<1>2. \/ pc' = [pc EXCEPT ![c] = "idle"] /\ mem' = [mem EXCEPT ![c] = Idle(mem[c].path)]
      \/ /\ pc' = [pc EXCEPT ![c] = "drive"]
         /\ \E attempt, nexus : mem' = [mem EXCEPT ![c] = Driving(mem[c].path, attempt, nexus)]
  BY DEF Exit, Raise, Goto
<1>3. /\ pc'[c] \in {"idle", "drive"} /\ mem'[c].running = {}
      /\ \A d \in Controllers \ {c} : pc'[d] = pc[d] /\ mem'[d] = mem[d]
  BY <1>2 DEF TypeOK, Idle, Driving
<1> QED BY <1>1, <1>3, Turn

\* The next stage takes the phase that the last one wrote.
LEMMA ProceedWay ==
  ASSUME TypeOK, StageInv, LockInv, NEW c \in Controllers, pc[c] \in {"work", "tasks"}, Proceed(c),
         mem[c].stage # "acceptance",
         active'.dev = active.dev, active'.phase = DonePhase(mem[c].stage)
  PROVE  StageInv' /\ ChildInv'
<1>1. \A d \in Controllers \ {c} : pc[d] = "idle"
  BY Alone
<1>2. /\ pc' = [pc EXCEPT ![c] = "stage"]
      /\ mem' = [mem EXCEPT ![c].stage = NextStage(mem[c].stage, active.dev), ![c].running = {}]
  BY DEF Proceed, Goto
<1>3. mem[c] \in Locals /\ active.dev \in BOOLEAN
  BY ActiveType DEF TypeOK, Manifests
<1>4. /\ pc'[c] = "stage" /\ mem'[c].running = {} /\ mem'[c].stage = NextStage(mem[c].stage, active.dev)
      /\ \A d \in Controllers \ {c} : pc'[d] = pc[d] /\ mem'[d] = mem[d]
  BY <1>2, <1>3 DEF TypeOK, Locals
<1>5. mem[c].stage \in StagesOf(active.dev)
  BY DEF StageInv
<1>6. /\ mem'[c].stage \in StagesOf(active'.dev)
      /\ active'.phase \in EntryPhases(mem'[c].stage, active'.dev)
  BY <1>3, <1>4, <1>5, WayFacts
<1> QED BY <1>1, <1>4, <1>6, Turn

\* A step that writes nothing a running stage reads, and ends no operation that
\* is waited for.
LEMMA StillWay ==
  ASSUME WayInv, UNCHANGED <<current, ledger, attempts, pc>>,
         \A c \in Controllers : mem'[c].stage = mem[c].stage /\ mem'[c].running \subseteq mem[c].running,
         \A c \in Controllers : mem'[c].stage \in External =>
           \A t \in mem'[c].running : Op(mem[c].stage, t) \in world \union inflight
             => Op(mem[c].stage, t) \in world' \union inflight'
  PROVE  WayInv'
<1>1. active' = active /\ activeVersion' = activeVersion
  BY DEF active, activeVersion
<1>2. ManifestInv'
  BY DEF WayInv, ManifestInv
<1>3. StageInv'
  BY <1>1 DEF WayInv, StageInv
<1>4. ChildInv'
  BY <1>1 DEF WayInv, ChildInv, Op
<1> QED BY <1>2, <1>3, <1>4 DEF WayInv

LEMMA WayInit == ASSUME Init PROVE WayInv
<1>1. NoManifest.phase = "absent" /\ ~NoManifest.dev
  BY DEF NoManifest, Manifest
<1>2. Sound(NoManifest)
  BY <1>1 DEF Sound, DevPhases, Verified, Unprepared, RunningPhase, FailedPhase, DonePhase
<1>3. ManifestInv
  BY <1>2 DEF Init, ManifestInv
<1>4. \A c \in Controllers : pc[c] = "idle" /\ mem[c].running = {}
  BY DEF Init, Idle, Driving
<1> QED BY <1>3, <1>4 DEF WayInv, StageInv, ChildInv

\* The two writes of start, and the pruning after them.
LEMMA WayStart ==
  ASSUME IInv, WayInv, NEW c \in Controllers,
         (\E v \in Versions, dev \in BOOLEAN : Start(c, v, dev)) \/ WritePointer(c)
           \/ PruneAttempt(c) \/ PruneLedger(c) \/ FinishPrune(c)
  PROVE  WayInv'
<1>0. TypeOK /\ LockInv /\ StageInv /\ ManifestInv
  BY DEF IInv, Inside, WayInv
<1>1. ASSUME NEW v \in Versions, NEW dev \in BOOLEAN, Start(c, v, dev) PROVE WayInv'
  <2>1. PICK l \in NextLedgerPath(v) : /\ ledger' = [ledger EXCEPT ![l] = Manifest("started", dev)]
                                       /\ mem' = [mem EXCEPT ![c] = Idle(l)]
    BY <1>1 DEF Start
  <2>2. Sound(Manifest("started", dev))
    BY DEF Manifest, Sound, DevPhases, Verified, Unprepared, RunningPhase, FailedPhase, DonePhase
  <2>3. ManifestInv'
    BY <1>0, <2>1, <2>2 DEF ManifestInv, TypeOK
  <2>4. \A d \in Controllers : pc[d] = "idle"
    BY <1>0, <1>1, AllIdle DEF Start
  <2>5. pc' = [pc EXCEPT ![c] = "pointer"]
    BY <1>1 DEF Start, Goto
  <2>6. /\ pc'[c] = "pointer" /\ mem'[c].running = {}
        /\ \A d \in Controllers \ {c} : pc'[d] = pc[d] /\ mem'[d] = mem[d]
    BY <1>0, <2>1, <2>5 DEF TypeOK, Idle, Driving
  <2>7. StageInv' /\ ChildInv'
    BY <1>0, <2>4, <2>6, Turn
  <2> QED BY <2>3, <2>7 DEF WayInv
<1>2. CASE WritePointer(c) \/ PruneAttempt(c) \/ PruneLedger(c) \/ FinishPrune(c)
  <2>1. /\ pc[c] \in {"pointer", "prune"} /\ mem' = mem
        /\ pc' = pc \/ pc' = [pc EXCEPT ![c] = "prune"] \/ pc' = [pc EXCEPT ![c] = "drive"]
    BY <1>2 DEF WritePointer, PruneAttempt, PruneLedger, FinishPrune, Goto
  <2>2. \A d \in Controllers \ {c} : pc[d] = "idle"
    BY <1>0, <2>1, Alone
  <2>3. mem'[c].running = {} /\ pc'[c] \in {"pointer", "prune", "drive"}
        /\ \A d \in Controllers \ {c} : pc'[d] = pc[d] /\ mem'[d] = mem[d]
    BY <1>0, <2>1 DEF TypeOK, StageInv
  <2>4. StageInv' /\ ChildInv'
    BY <1>0, <2>2, <2>3, Turn
  <2>5. Sound(NoManifest)
    BY DEF NoManifest, Manifest, Sound, DevPhases, Verified, Unprepared, RunningPhase, FailedPhase, DonePhase
  <2>6. ledger' = ledger \/ \E l \in LedgerIds : ledger' = [ledger EXCEPT ![l] = NoManifest]
    BY <1>2 DEF WritePointer, PruneAttempt, PruneLedger, FinishPrune, ObsoleteLedgers
  <2>7. ManifestInv'
    BY <1>0, <2>5, <2>6 DEF ManifestInv, TypeOK
  <2> QED BY <2>4, <2>7 DEF WayInv
<1> QED BY <1>1, <1>2

\* The commands, and the choice of a stage.
LEMMA WayCommand ==
  ASSUME IInv, WayInv, NEW c \in Controllers,
         Resume(c) \/ Abandon(c) \/ Conclude(c) \/ Dispatch(c) \/ DispatchAccepted(c) \/ Refuse(c)
  PROVE  WayInv'
<1>0. TypeOK /\ LockInv /\ StageInv /\ ManifestInv /\ active \in Manifests /\ current.name \in LedgerIds
  BY ActiveType DEF IInv, Inside, WayInv
<1>1. CASE Resume(c) \/ Abandon(c)
  <2>1. \A d \in Controllers : pc[d] = "idle"
    BY <1>0, <1>1, AllIdle DEF Resume, Abandon
  <2>2. /\ mem' = mem /\ current' = current
        /\ pc' = [pc EXCEPT ![c] = "drive"] \/ pc' = [pc EXCEPT ![c] = "abandoned"]
    BY <1>1 DEF Resume, Abandon, Goto
  <2>3. mem'[c].running = {} /\ pc'[c] \in {"drive", "abandoned"}
        /\ \A d \in Controllers \ {c} : pc'[d] = pc[d] /\ mem'[d] = mem[d]
    BY <1>0, <2>1, <2>2 DEF TypeOK, StageInv
  <2>4. StageInv' /\ ChildInv'
    BY <1>0, <2>1, <2>3, Turn
  <2>5. ManifestInv'
    <3> DEFINE m == [active EXCEPT !.phase = "abandoned"]
    <3>1. m \in Manifests /\ m.phase = "abandoned"
      BY <1>0, PhaseTypes DEF Manifests
    <3>2. ledger' = ledger \/ Update(m)
      BY <1>1 DEF Resume, Abandon
    <3> HIDE DEF m
    <3>3. Sound(m)
      BY <3>1 DEF Sound, DevPhases, Verified, Unprepared, RunningPhase, FailedPhase, DonePhase
    <3> QED BY <1>0, <2>2, <3>1, <3>2, <3>3, SoundWrite DEF ManifestInv
  <2> QED BY <2>4, <2>5 DEF WayInv
<1>2. CASE Conclude(c) \/ Refuse(c)
  <2>1. pc[c] # "idle" /\ Exit(c) /\ ledger' = ledger
    BY <1>2 DEF Conclude, Refuse
  <2> QED BY <1>0, <2>1, LeaveWay DEF WayInv, ManifestInv
<1>3. CASE DispatchAccepted(c)
  <2>1. /\ pc[c] = "drive" /\ mem' = mem /\ ledger' = ledger /\ pc' = [pc EXCEPT ![c] = "accepted"]
    BY <1>3 DEF DispatchAccepted, Goto
  <2>2. \A d \in Controllers \ {c} : pc[d] = "idle"
    BY <1>0, <2>1, Alone
  <2>3. mem'[c].running = {} /\ pc'[c] = "accepted"
        /\ \A d \in Controllers \ {c} : pc'[d] = pc[d] /\ mem'[d] = mem[d]
    BY <1>0, <2>1 DEF TypeOK, StageInv
  <2> QED BY <1>0, <2>1, <2>2, <2>3, Turn DEF WayInv, ManifestInv
<1>4. CASE Dispatch(c)
  <2> DEFINE m == IF active.phase \in RewindToFrontends
                  THEN [active EXCEPT !.phase = "frontend-preparation-failed"] ELSE active
  <2>1. /\ m \in Manifests /\ m.dev = active.dev
        /\ m = active \/ m.phase = "frontend-preparation-failed"
    BY <1>0, PhaseTypes DEF Manifests
  <2>2. PICK s \in Stages : /\ s \in StagesOf(m.dev) /\ m.phase \in EntryPhases(s, m.dev)
                            /\ Update(m) /\ mem' = [mem EXCEPT ![c].stage = s]
    BY <1>4 DEF Dispatch, Continues, StagesOf
  <2> HIDE DEF m
  <2>3. Sound(m)
    <3>1. Sound(active)
      BY <1>0 DEF ManifestInv, active
    <3> QED BY <2>1, <3>1 DEF Sound, DevPhases, Verified, Unprepared, RunningPhase, FailedPhase, DonePhase
  <2>4. current' = current /\ pc[c] = "drive" /\ pc' = [pc EXCEPT ![c] = "stage"]
    BY <1>4 DEF Dispatch, Goto
  <2>5. ManifestInv' /\ active' = m
    BY <1>0, <2>1, <2>2, <2>3, <2>4, SoundWrite
  <2>6. \A d \in Controllers \ {c} : pc[d] = "idle"
    BY <1>0, <2>4, Alone
  <2>7. /\ mem'[c].stage = s /\ mem'[c].running = {} /\ pc'[c] = "stage"
        /\ \A d \in Controllers \ {c} : pc'[d] = pc[d] /\ mem'[d] = mem[d]
    BY <1>0, <2>2, <2>4 DEF TypeOK, StageInv, Locals
  <2>8. StageInv' /\ ChildInv'
    BY <1>0, <2>2, <2>5, <2>6, <2>7, Turn
  <2> QED BY <2>5, <2>8 DEF WayInv
<1> QED BY <1>1, <1>2, <1>3, <1>4

\* A stage is entered: its running phase is one of the release's own.
LEMMA WayEnter ==
  ASSUME IInv, WayInv, NEW c \in Controllers, EnterFrontends(c) \/ EnterShot(c) \/ EnterTasks(c)
  PROVE  WayInv'
<1> DEFINE s == mem[c].stage
<1>0. /\ TypeOK /\ LockInv /\ StageInv /\ ManifestInv
      /\ active \in Manifests /\ active.dev \in BOOLEAN /\ s \in Stages
      /\ current.name \in LedgerIds
  BY ActiveType DEF IInv, Inside, WayInv, TypeOK, Locals, Manifests
<1>1. /\ pc[c] = "stage" /\ s # "acceptance" /\ UNCHANGED <<current, holder, mem, inflight, world>>
      /\ active.phase \in AcceptedPhases(s, active.dev)
      /\ attempts \subseteq attempts'
      /\ pc' = [pc EXCEPT ![c] = "work"] \/ pc' = [pc EXCEPT ![c] = "tasks"]
  BY DEF EnterFrontends, EnterShot, EnterTasks, Entering, Goto, TaskStages, External
<1>2. PICK m \in Manifests : /\ Update(m) /\ m.phase = RunningPhase(s) /\ m.dev = active.dev
                             /\ m.workspace = active.workspace
  <2>1. RunningPhase(s) \in Phases
    BY <1>0, <1>1, PhaseTypes
  <2>2. CASE EnterFrontends(c) \/ EnterShot(c)
    <3> DEFINE m == [active EXCEPT !.phase = RunningPhase(s)]
    <3>1. Update(m)
      BY <2>2 DEF EnterFrontends, EnterShot, Entering, RunningPhase
    <3>2. m \in Manifests /\ m.phase = RunningPhase(s) /\ m.dev = active.dev /\ m.workspace = active.workspace
      BY <1>0, <2>1 DEF Manifests
    <3> QED BY <3>1, <3>2
  <2>3. CASE EnterTasks(c)
    <3> DEFINE m == [active EXCEPT !.phase = RunningPhase(s), !.sections = active.sections \union {s}]
    <3>1. Update(m) /\ s \in TaskStages
      BY <2>3 DEF EnterTasks, Entering
    <3>2. m \in Manifests /\ m.phase = RunningPhase(s) /\ m.dev = active.dev /\ m.workspace = active.workspace
      BY <1>0, <2>1, <3>1 DEF Manifests
    <3> QED BY <3>1, <3>2
  <2> QED BY <2>2, <2>3
<1> HIDE DEF s
<1>3. s \in StagesOf(active.dev) /\ mem[c].running = {}
  BY <1>0, <1>1 DEF StageInv, s
<1>4. Sound(m)
  <2>1. m.phase \in DevPhases => m.dev
    BY <1>0, <1>2, <1>3, WayFacts
  <2>2. m.phase \notin Verified
    BY <1>0, <1>1, <1>2, WayFacts
  <2>3. m.phase \notin Unprepared => m.workspace # 0
    <3>1. CASE s = "frontends"
      BY <1>2, <3>1 DEF Unprepared
    <3>2. CASE s # "frontends"
      <4>1. active.phase \notin Unprepared
        BY <1>0, <1>1, <3>2, WayFacts
      <4> QED BY <1>0, <1>2, <4>1 DEF ManifestInv, Sound, active
    <3> QED BY <3>1, <3>2
  <2> QED BY <2>1, <2>2, <2>3 DEF Sound
<1>5. ManifestInv' /\ active' = m /\ activeVersion' = activeVersion
  BY <1>0, <1>1, <1>2, <1>4, SoundWrite
<1>6. pc'[c] = "work" /\ s = "frontends" => \E n \in Nat \ {0} : <<activeVersion', n>> \in attempts'
  <2> SUFFICES ASSUME pc'[c] = "work", s = "frontends"
               PROVE  \E n \in Nat \ {0} : <<activeVersion', n>> \in attempts'
    OBVIOUS
  <2>1. EnterFrontends(c)
    <3>1. ~EnterTasks(c)
      BY <1>0 DEF EnterTasks, Goto, TypeOK
    <3>2. ~EnterShot(c)
      BY DEF EnterShot, Entering, s
    <3> QED BY <3>1, <3>2
  <2>2. PICK n \in LatestAttempt(activeVersion) : attempts' = attempts \union {<<activeVersion, n + 1>>}
    BY <2>1 DEF EnterFrontends
  <2>3. n + 1 \in Nat \ {0}
    BY <1>0, LatestAttemptType
  <2> QED BY <1>5, <2>2, <2>3
<1>7. \A d \in Controllers \ {c} : pc[d] = "idle"
  BY <1>0, <1>1, Alone
<1>8. /\ pc'[c] \in {"work", "tasks"} /\ mem'[c].running = {} /\ mem'[c].stage = s
      /\ \A d \in Controllers \ {c} : pc'[d] = pc[d] /\ mem'[d] = mem[d]
  BY <1>0, <1>1, <1>3 DEF TypeOK, s
<1>9. mem'[c].stage \in StagesOf(active'.dev)
  BY <1>2, <1>3, <1>5, <1>8
<1>10. StageInv' /\ ChildInv'
  BY <1>0, <1>6, <1>7, <1>8, <1>9, Turn
<1> QED BY <1>5, <1>10 DEF WayInv

\* A stage ends with what its final phase says.
LEMMA WaySucceed ==
  ASSUME IInv, WayInv, NEW c \in Controllers, ShotSucceeds(c) \/ TasksSucceed(c)
  PROVE  WayInv'
<1> DEFINE s == mem[c].stage
<1>0. /\ TypeOK /\ LockInv /\ StageInv /\ ManifestInv
      /\ active \in Manifests /\ active.dev \in BOOLEAN /\ s \in Stages
      /\ current.name \in LedgerIds
  BY ActiveType DEF IInv, Inside, WayInv, TypeOK, Locals, Manifests
<1>1. /\ pc[c] \in {"work", "tasks"} /\ s # "acceptance" /\ Proceed(c)
      /\ UNCHANGED <<current, attempts, inflight, world>>
      /\ active.phase = RunningPhase(s)
  BY DEF ShotSucceeds, TasksSucceed, IInv, Inside, PlaceInv, TaskStages, External
<1>2. s \in StagesOf(active.dev)
  BY <1>0, <1>1 DEF StageInv
<1>3. PICK m \in Manifests :
        /\ Update(m) /\ m.phase = DonePhase(s) /\ m.dev = active.dev
        /\ s = "development" => m.verified
        /\ m.workspace # 0 \/ (s # "frontends" /\ m.workspace = active.workspace)
  <2>1. DonePhase(s) \in Phases
    BY <1>0, PhaseTypes
  <2>2. CASE TasksSucceed(c)
    <3> DEFINE m == [active EXCEPT !.phase = DonePhase(s)]
    <3>1. Update(m) /\ s \notin {"development", "frontends"}
      BY <2>2 DEF TasksSucceed, IInv, Inside, PlaceInv, TaskStages, External
    <3>2. m \in Manifests /\ m.phase = DonePhase(s) /\ m.dev = active.dev /\ m.workspace = active.workspace
      BY <1>0, <2>1 DEF Manifests
    <3> QED BY <3>1, <3>2
  <2>3. CASE ShotSucceeds(c)
    <3> DEFINE m(n) == [active EXCEPT !.phase = DonePhase(s),
                          !.workspace = IF s = "frontends" THEN n ELSE active.workspace,
                          !.verified = active.verified \/ s = "development"]
    <3>1. PICK n \in LatestAttempt(activeVersion) : Update(m(n))
      BY <2>3 DEF ShotSucceeds
    <3>2. n \in Nat
      BY <1>0, LatestAttemptType
    <3>3. s = "frontends" => n # 0
      <4> SUFFICES ASSUME s = "frontends" PROVE n # 0
        OBVIOUS
      <4>1. PICK k \in Nat \ {0} : <<activeVersion, k>> \in attempts
        BY <1>0, <2>3 DEF ShotSucceeds, StageInv
      <4>2. k <= n
        <5> DEFINE used == {0} \union {a[2] : a \in {b \in attempts : b[1] = activeVersion}}
        <5>1. k \in used
          BY <4>1
        <5> QED BY <5>1 DEF LatestAttempt
      <4> QED BY <3>2, <4>1, <4>2
    <3>4. /\ m(n) \in Manifests /\ m(n).phase = DonePhase(s) /\ m(n).dev = active.dev
          /\ m(n).workspace = (IF s = "frontends" THEN n ELSE active.workspace)
          /\ m(n).verified = (active.verified \/ s = "development")
      BY <1>0, <2>1, <3>2 DEF Manifests
    <3> HIDE DEF m
    <3> QED BY <3>1, <3>3, <3>4
  <2> QED BY <2>2, <2>3
<1>4. Sound(m)
  <2>1. m.phase \in DevPhases => m.dev
    BY <1>0, <1>2, <1>3, WayFacts
  <2>2. m.phase \in Verified => m.verified
    BY <1>0, <1>1, <1>3, WayFacts
  <2>3. m.workspace # 0
    <3>1. CASE s # "frontends"
      <4>1. active.phase \notin Unprepared
        BY <1>0, <1>1, <3>1, WayFacts
      <4> QED BY <1>0, <1>3, <4>1 DEF ManifestInv, Sound, active
    <3> QED BY <1>3, <3>1
  <2> QED BY <2>1, <2>2, <2>3 DEF Sound
<1>5. ManifestInv' /\ active' = m
  BY <1>0, <1>1, <1>3, <1>4, SoundWrite
<1>6. StageInv' /\ ChildInv'
  BY <1>0, <1>1, <1>3, <1>5, ProceedWay
<1> QED BY <1>5, <1>6 DEF WayInv

\* A stage fails.
LEMMA WayFail ==
  ASSUME IInv, WayInv, NEW c \in Controllers, ShotFails(c) \/ TasksFail(c) \/ AcceptFails(c)
  PROVE  WayInv'
<1> DEFINE s == mem[c].stage
           m == [active EXCEPT !.phase = FailedPhase(s)]
<1>0. /\ TypeOK /\ LockInv /\ StageInv /\ ManifestInv
      /\ active \in Manifests /\ active.dev \in BOOLEAN /\ s \in Stages
      /\ current.name \in LedgerIds
  BY ActiveType DEF IInv, Inside, WayInv, TypeOK, Locals, Manifests
<1>1. /\ pc[c] \in {"stage", "work", "tasks"} /\ Update(m) /\ UNCHANGED <<current, inflight, world>>
      /\ \E kind : Raise(c, kind)
      /\ \/ active.phase = RunningPhase(s) /\ s # "acceptance"
         \/ active.phase \in AcceptedPhases(s, active.dev) /\ s = "acceptance"
  BY DEF ShotFails, TasksFail, AcceptFails, Entering, FailedPhase, IInv, Inside, PlaceInv, TaskStages, External
<1>2. /\ m \in Manifests /\ m.phase = FailedPhase(s) /\ m.dev = active.dev
      /\ m.workspace = active.workspace /\ m.verified = active.verified
  BY <1>0, PhaseTypes DEF Manifests
<1> HIDE DEF m, s
<1>3. s \in StagesOf(active.dev) /\ Sound(active)
  BY <1>0, <1>1 DEF StageInv, ManifestInv, active, s
<1>4. Sound(m)
  <2>1. m.phase \in DevPhases => m.dev
    BY <1>0, <1>2, <1>3, WayFacts
  <2>2. m.phase \in Verified /\ m.dev => m.verified
    <3>1. CASE s = "acceptance"
      <4>1. active.dev => active.phase \in Verified
        BY <1>0, <1>1, <3>1, WayFacts DEF Stages, AcceptedPhases, RunningPhase
      <4> QED BY <1>2, <1>3, <4>1 DEF Sound
    <3>2. CASE s # "acceptance"
      BY <1>0, <1>2, <3>2, WayFacts
    <3> QED BY <3>1, <3>2
  <2>3. m.phase \notin Unprepared => m.workspace # 0
    <3> SUFFICES ASSUME m.phase \notin Unprepared PROVE active.phase \notin Unprepared
      BY <1>2, <1>3 DEF Sound
    <3>1. s # "frontends"
      BY <1>2 DEF Unprepared
    <3>2. CASE s = "acceptance"
      BY <1>0, <1>1, <3>2, WayFacts
    <3>3. CASE s # "acceptance"
      BY <1>0, <1>1, <3>1, <3>3, WayFacts
    <3> QED BY <3>2, <3>3
  <2> QED BY <2>1, <2>2, <2>3 DEF Sound
<1>5. ManifestInv'
  BY <1>0, <1>1, <1>2, <1>4, SoundWrite
<1>6. StageInv' /\ ChildInv'
  BY <1>0, <1>1, LeaveWay
<1> QED BY <1>5, <1>6 DEF WayInv

\* A task that starts is in the world or under way.
LEMMA WayStartTask ==
  ASSUME IInv, WayInv, NEW c \in Controllers, NEW t \in Tasks, StartTask(c, t)
  PROVE  WayInv'
<1>0. TypeOK /\ LockInv /\ StageInv /\ ManifestInv /\ ChildInv /\ mem[c] \in Locals
  BY DEF IInv, Inside, WayInv, TypeOK
<1>1. /\ UNCHANGED <<current, ledger, attempts, holder, pc, world>> /\ pc[c] = "tasks"
      /\ mem' = [mem EXCEPT ![c].running = mem[c].running \union {t}]
      /\ inflight \subseteq inflight'
      /\ mem[c].stage \in External => Op(mem[c].stage, t) \in world \union inflight'
  BY DEF StartTask
<1>2. active' = active /\ activeVersion' = activeVersion
  BY <1>1 DEF active, activeVersion
<1>3. /\ mem'[c].stage = mem[c].stage /\ mem'[c].running = mem[c].running \union {t}
      /\ \A d \in Controllers \ {c} : pc'[d] = pc[d] /\ mem'[d] = mem[d]
  BY <1>0, <1>1 DEF TypeOK, Locals
<1>4. \A d \in Controllers \ {c} : pc[d] = "idle"
  BY <1>0, <1>1, Alone
<1>5. mem'[c].stage \in External =>
        \A u \in mem'[c].running : <<activeVersion', mem'[c].stage, u>> \in world' \union inflight'
  BY <1>0, <1>1, <1>2, <1>3 DEF ChildInv, Op
<1>6. mem'[c].stage \in StagesOf(active'.dev)
  BY <1>0, <1>1, <1>2, <1>3 DEF StageInv
<1>7. StageInv' /\ ChildInv'
  BY <1>0, <1>1, <1>3, <1>4, <1>5, <1>6, Turn
<1> QED BY <1>0, <1>1, <1>7 DEF WayInv, ManifestInv

\* A task is recorded.
LEMMA WayFinishTask ==
  ASSUME IInv, WayInv, NEW c \in Controllers, NEW t \in Tasks, FinishTask(c, t)
  PROVE  WayInv'
<1> DEFINE s == mem[c].stage
           m == [active EXCEPT !.completed[s] = active.completed[s] \union {t}]
<1>0. /\ TypeOK /\ LockInv /\ StageInv /\ ManifestInv /\ ChildInv /\ mem[c] \in Locals
      /\ active \in Manifests /\ current.name \in LedgerIds
  BY ActiveType DEF IInv, Inside, WayInv, TypeOK
<1>1. /\ Update(m) /\ UNCHANGED <<current, attempts, holder, pc, world, inflight>> /\ pc[c] = "tasks"
      /\ mem' = [mem EXCEPT ![c].running = mem[c].running \ {t}]
  BY DEF FinishTask
<1>2. /\ m \in Manifests /\ m.phase = active.phase /\ m.dev = active.dev
      /\ m.workspace = active.workspace /\ m.verified = active.verified
  BY <1>0 DEF Manifests
<1> HIDE DEF m
<1>3. Sound(m)
  BY <1>0, <1>2 DEF ManifestInv, Sound, active
<1>4. ManifestInv' /\ active' = m /\ activeVersion' = activeVersion
  BY <1>0, <1>1, <1>2, <1>3, SoundWrite
<1>5. /\ mem'[c].stage = s /\ mem'[c].running = mem[c].running \ {t}
      /\ \A d \in Controllers \ {c} : pc'[d] = pc[d] /\ mem'[d] = mem[d]
  BY <1>0, <1>1 DEF TypeOK, Locals
<1>6. \A d \in Controllers \ {c} : pc[d] = "idle"
  BY <1>0, <1>1, Alone
<1>7. mem'[c].stage \in External =>
        \A u \in mem'[c].running : <<activeVersion', mem'[c].stage, u>> \in world' \union inflight'
  BY <1>0, <1>1, <1>4, <1>5 DEF ChildInv, Op
<1>8. mem'[c].stage \in StagesOf(active'.dev)
  BY <1>0, <1>1, <1>2, <1>4, <1>5 DEF StageInv
<1>9. StageInv' /\ ChildInv'
  BY <1>0, <1>1, <1>5, <1>6, <1>7, <1>8, Turn
<1> QED BY <1>4, <1>9 DEF WayInv

\* A release is accepted with its development verified, if it has a policy.
LEMMA WayAccept ==
  ASSUME IInv, WayInv, NEW c \in Controllers, Accept(c)
  PROVE  WayInv'
<1> DEFINE m == [active EXCEPT !.phase = "accepted"]
<1>0. /\ TypeOK /\ LockInv /\ StageInv /\ ManifestInv /\ mem[c] \in Locals
      /\ active \in Manifests /\ active.dev \in BOOLEAN /\ current.name \in LedgerIds
  BY ActiveType DEF IInv, Inside, WayInv, TypeOK, Manifests
<1>1. /\ Update(m) /\ UNCHANGED <<current, mem>> /\ pc[c] = "stage" /\ pc' = [pc EXCEPT ![c] = "accepted"]
      /\ active.phase \in AcceptedPhases("acceptance", active.dev)
      /\ active.dev => active.verified
  BY DEF Accept, Entering, Goto
<1>2. /\ m \in Manifests /\ m.phase = "accepted" /\ m.dev = active.dev
      /\ m.workspace = active.workspace /\ m.verified = active.verified
  BY <1>0, PhaseTypes DEF Manifests
<1> HIDE DEF m
<1>3. active.phase \notin Unprepared /\ "accepted" \notin DevPhases
  <2>1. "acceptance" \in Stages \ {"frontends"}
    BY DEF Stages
  <2> QED BY <1>0, <1>1, <2>1, WayFacts
<1>4. Sound(m)
  BY <1>0, <1>1, <1>2, <1>3 DEF ManifestInv, Sound, active
<1>5. ManifestInv'
  BY <1>0, <1>1, <1>2, <1>4, SoundWrite
<1>6. \A d \in Controllers \ {c} : pc[d] = "idle"
  BY <1>0, <1>1, Alone
<1>7. mem'[c].running = {} /\ pc'[c] = "accepted"
      /\ \A d \in Controllers \ {c} : pc'[d] = pc[d] /\ mem'[d] = mem[d]
  BY <1>0, <1>1 DEF TypeOK, StageInv
<1>8. StageInv' /\ ChildInv'
  BY <1>0, <1>6, <1>7, Turn
<1> QED BY <1>5, <1>8 DEF WayInv

\* A task that fails for good is not waited for; the operation of one that is
\* cannot be lost.
LEMMA WayFailTask ==
  ASSUME IInv, WayInv, NEW c \in Controllers, NEW t \in Tasks, FailTask(c, t)
  PROVE  WayInv'
<1>0. TypeOK /\ LockInv /\ StageInv /\ ManifestInv /\ ChildInv /\ mem[c] \in Locals
  BY DEF IInv, Inside, WayInv, TypeOK
<1>1. /\ UNCHANGED <<current, ledger, attempts, holder, pc, world>> /\ pc[c] = "tasks"
      /\ \E kind : mem' = [mem EXCEPT ![c].running = mem[c].running \ {t}, ![c].failed = kind]
      /\ inflight \ {Op(mem[c].stage, t)} \subseteq inflight'
  BY DEF FailTask
<1>2. active' = active /\ activeVersion' = activeVersion
  BY <1>1 DEF active, activeVersion
<1>3. /\ mem'[c].stage = mem[c].stage /\ mem'[c].running = mem[c].running \ {t}
      /\ \A d \in Controllers \ {c} : pc'[d] = pc[d] /\ mem'[d] = mem[d]
  BY <1>0, <1>1 DEF TypeOK, Locals
<1>4. \A d \in Controllers \ {c} : pc[d] = "idle"
  BY <1>0, <1>1, Alone
<1>5. mem'[c].stage \in External =>
        \A u \in mem'[c].running : <<activeVersion', mem'[c].stage, u>> \in world' \union inflight'
  BY <1>0, <1>1, <1>2, <1>3 DEF ChildInv, Op
<1>6. mem'[c].stage \in StagesOf(active'.dev)
  BY <1>0, <1>1, <1>2, <1>3 DEF StageInv
<1>7. StageInv' /\ ChildInv'
  BY <1>0, <1>1, <1>3, <1>4, <1>5, <1>6, Turn
<1> QED BY <1>0, <1>1, <1>7 DEF WayInv, ManifestInv

LEMMA WayStep == ASSUME IInv, WayInv, [Next]_vars PROVE WayInv'
<1>0. TypeOK /\ LockInv /\ StageInv /\ ManifestInv
  BY DEF IInv, Inside, WayInv
<1>1. ASSUME NEW c \in Controllers, Command(c) PROVE WayInv'
  BY <1>1, WayStart, WayCommand DEF Command
<1>2. ASSUME NEW c \in Controllers, Step(c) PROVE WayInv'
  BY <1>2, WayStart, WayCommand, WayEnter, WaySucceed, WayFail, WayStartTask, WayFinishTask, WayAccept DEF Step
<1>3. ASSUME NEW c \in Controllers, PrecheckFails(c) \/ Crash(c) PROVE WayInv'
  <2>1. pc[c] # "idle" /\ ledger' = ledger /\ (Exit(c) \/ \E kind : Raise(c, kind))
    BY <1>3 DEF PrecheckFails, Crash, Entering
  <2> QED BY <1>0, <2>1, LeaveWay DEF WayInv, ManifestInv
<1>4. ASSUME NEW c \in Controllers, Failure(c) PROVE WayInv'
  BY <1>3, <1>4, WayFail, WayFailTask DEF Failure
<1>5. ASSUME NEW op \in Operations, Land(op) \/ Lose(op) PROVE WayInv'
  <2>1. UNCHANGED <<current, ledger, attempts, pc, mem>>
    BY <1>5 DEF Land, Lose
  <2>2. ASSUME NEW c \in Controllers, NEW t \in mem[c].running,
               Op(mem[c].stage, t) \in world \union inflight
        PROVE  Op(mem[c].stage, t) \in world' \union inflight'
    BY <1>5, <2>2 DEF Land, Lose, Op
  <2> QED BY <2>1, <2>2, StillWay
<1>6. ASSUME UNCHANGED vars PROVE WayInv'
  BY <1>6, StillWay DEF vars
<1> QED BY <1>1, <1>2, <1>4, <1>5, <1>6 DEF Next

LEMMA WayInvariance == Spec => [](IInv /\ History /\ WayInv)
<1>1. Init => WayInv
  BY WayInit
<1>2. IInv /\ WayInv /\ [Next]_vars => WayInv'
  BY WayStep
<1> QED BY <1>1, <1>2, HistoryInvariance, PTL DEF Spec

\* What a command reads again is there, and what it waits for comes.
EvidenceIsThere ==
  \A c \in Controllers :
    /\ pc[c] = "work" => ShotMaySucceed(mem[c].stage)
    /\ Entering(c, "acceptance") =>
         /\ active.dev => active.verified
         /\ \A s \in External : active.completed[s] = Tasks /\ Landed(activeVersion, s)
    /\ pc[c] = "tasks" /\ mem[c].stage \in External =>
         \A t \in mem[c].running : Op(mem[c].stage, t) \in world \union inflight

\* A release that came to a stage can pass it: version stamping finds its
\* workspace, development verification and acceptance find every effect and
\* record they ask for (lifecycle.py reads all of them again), and a task is
\* waited for only while its effect is there or a process still brings it.
THEOREM NothingIsMissing == Spec => []EvidenceIsThere
<1>1. ASSUME IInv, History, WayInv, NEW c \in Controllers PROVE
        /\ pc[c] = "work" => ShotMaySucceed(mem[c].stage)
        /\ Entering(c, "acceptance") =>
             /\ active.dev => active.verified
             /\ \A s \in External : active.completed[s] = Tasks /\ Landed(activeVersion, s)
        /\ pc[c] = "tasks" /\ mem[c].stage \in External =>
             \A t \in mem[c].running : Op(mem[c].stage, t) \in world \union inflight
  <2>0. /\ active \in Manifests /\ active.dev \in BOOLEAN /\ current.name \in LedgerIds
        /\ Sound(active) /\ active = ledger[current.name] /\ activeVersion = current.name[1]
    BY <1>1, ActiveType DEF IInv, Manifests, WayInv, ManifestInv, active, activeVersion
  <2>1. ASSUME NEW s \in External, active.phase \in Past(s)
        PROVE  active.completed[s] = Tasks /\ Landed(activeVersion, s)
    <3>1. active.completed[s] = Tasks
      BY <1>1, <2>0, <2>1 DEF History, PastInv, TaskStages
    <3> QED BY <1>1, <2>0, <3>1 DEF History, RecordsAreTrue, Landed
  <2>2. ASSUME pc[c] = "work" PROVE ShotMaySucceed(mem[c].stage)
    <3>1. /\ active.phase = RunningPhase(mem[c].stage) /\ current.status = "open"
          /\ mem[c].stage \in {"frontends", "versions", "development"}
      BY <1>1, <2>2 DEF IInv, Inside, PlaceInv
    <3>2. CASE mem[c].stage = "frontends"
      BY <3>2 DEF ShotMaySucceed
    <3>3. CASE mem[c].stage = "versions"
      <4>1. active.workspace # 0
        BY <2>0, <3>1, <3>3 DEF Sound, Unprepared, RunningPhase, FailedPhase
      <4> QED BY <1>1, <3>1, <3>3, <4>1 DEF History, WorkspaceIsKept, ShotMaySucceed
    <3>4. CASE mem[c].stage = "development"
      <4>1. \A s \in External : active.phase \in Past(s)
        BY <3>1, <3>4 DEF External, Past, Later, RunningPhase
      <4> QED BY <2>1, <3>4, <4>1 DEF ShotMaySucceed
    <3> QED BY <3>1, <3>2, <3>3, <3>4
  <2>3. ASSUME Entering(c, "acceptance")
        PROVE  /\ active.dev => active.verified
               /\ \A s \in External : active.completed[s] = Tasks /\ Landed(activeVersion, s)
    <3>1. active.phase \in EntryPhases("acceptance", active.dev)
      BY <2>3 DEF Entering, AcceptedPhases
    <3>2. active.dev => active.verified
      BY <2>0, <3>1, WayFacts DEF Sound
    <3>3. \A s \in External : active.phase \in Past(s)
      <4>1. active.phase \in {"development-verified", "artifacts-published", "acceptance-failed"}
        BY <3>1 DEF EntryPhases, StartPhase
      <4> QED BY <4>1 DEF External, Past, Later, DonePhase, FailedPhase
    <3> QED BY <2>1, <3>2, <3>3
  <2> QED BY <1>1, <2>2, <2>3 DEF WayInv, ChildInv
<1>2. IInv /\ History /\ WayInv => EvidenceIsThere
  BY <1>1 DEF EvidenceIsThere
<1> QED BY <1>2, WayInvariance, PTL

\* Every phase is continued by a stage of the release, but for the final ones.
LEMMA PhasesContinue ==
  ASSUME NEW dev \in BOOLEAN, NEW p \in Phases \ {"absent", "accepted", "abandoned"},
         p \notin RewindToFrontends, p \in DevPhases => dev
  PROVE  Continues(p, dev) # {}
<1> USE DEF Stages, TaskStages, External, RunningPhase, FailedPhase, DonePhase
<1>1. CASE p = "started"
  <2>1. "frontends" \in StagesOf(dev) /\ p \in EntryPhases("frontends", dev)
    BY <1>1 DEF StagesOf, EntryPhases, StartPhase
  <2> QED BY <2>1 DEF Continues
<1>2. ASSUME NEW s \in Stages \ {"acceptance"}, p = RunningPhase(s) PROVE Continues(p, dev) # {}
  <2>1. s \in StagesOf(dev) /\ p \in EntryPhases(s, dev)
    BY <1>2 DEF StagesOf, EntryPhases, DevPhases, RewindToFrontends
  <2> QED BY <2>1 DEF Continues
<1>3. ASSUME NEW s \in Stages, p = FailedPhase(s) PROVE Continues(p, dev) # {}
  <2>1. s \in StagesOf(dev) /\ p \in EntryPhases(s, dev)
    BY <1>3 DEF StagesOf, EntryPhases, DevPhases, RewindToFrontends
  <2> QED BY <2>1 DEF Continues
<1>4. ASSUME NEW s \in Stages, p = DonePhase(s) PROVE Continues(p, dev) # {}
  <2>1. s \in StagesOf(dev) \ {"acceptance"}
    BY <1>4 DEF StagesOf, DevPhases
  <2>2. NextStage(s, dev) \in StagesOf(dev) /\ p \in EntryPhases(NextStage(s, dev), dev)
    BY <1>4, <2>1, WayFacts
  <2> QED BY <2>2 DEF Continues
<1> QED BY <1>1, <1>2, <1>3, <1>4 DEF Phases

\* What a command is refused for.
RefusalsAreKnown ==
  [][\A c \in Controllers : Refuse(c) => active.phase \in {"preparing-frontends", "abandoned"}]_vars

\* A command that drives a release is refused in the two phases of Stranded and
\* in no other that a crash can leave.  "Ordering them instead makes resumption a
\* search for the first stage that can still take the recorded phase"
\* (lifecycle.py:603): for every other phase the search finds a stage, and the
\* stage takes it.
THEOREM OnlyStrandedRefused == Spec => RefusalsAreKnown
<1>1. ASSUME IInv, WayInv, NEW c \in Controllers, Refuse(c)
      PROVE  active.phase \in {"preparing-frontends", "abandoned"}
  <2>0. /\ active \in Manifests /\ active.dev \in BOOLEAN /\ active.phase \in Phases
        /\ Sound(active) /\ mem[c].stage \in Stages
    BY <1>1, ActiveType DEF IInv, TypeOK, Locals, Manifests, WayInv, ManifestInv, active
  <2>1. CASE pc[c] = "drive" /\ active.phase \notin RewindToFrontends \union {"accepted"}
             /\ Continues(active.phase, active.dev) = {}
    <3>1. active.phase # "absent"
      BY <1>1, <2>1 DEF IInv, Inside, PlaceInv, Outside, SlotNamesALedger, Exists, active
    <3> QED BY <2>0, <2>1, <3>1, PhasesContinue DEF Sound
  <2>2. CASE pc[c] = "stage" /\ active.phase \notin AcceptedPhases(mem[c].stage, active.dev)
    <3>1. active.phase \in EntryPhases(mem[c].stage, active.dev)
      BY <1>1, <2>2 DEF WayInv, StageInv
    <3>2. mem[c].stage = "frontends"
      BY <2>0, <2>2, <3>1, WayFacts
    <3> QED BY <2>2, <3>1, <3>2 DEF AcceptedPhases, EntryPhases, StartPhase, RunningPhase, FailedPhase
  <2> QED BY <1>1, <2>1, <2>2 DEF Refuse
<1>2. IInv /\ WayInv /\ [Next]_vars =>
        [\A c \in Controllers : Refuse(c) => active.phase \in {"preparing-frontends", "abandoned"}]_vars
  BY <1>1
<1> QED BY <1>2, WayInvariance, PTL DEF Spec, RefusalsAreKnown

----------------------------------------------------------------------------
(* The refinement of ReleaseContract.                                       *)

\* The mapped state.
slotOf == IF current.status = "absent" THEN "empty" ELSE current.status
doneOf ==
  IF current.status = "absent" THEN {}
  ELSE {e \in External \X Tasks : <<activeVersion, e[1], e[2]>> \in world}

\* The contract's actions, in the mapped state.
LEMMA OpenMaps ==
  ASSUME slotOf # "open", slotOf' = "open", doneOf' = {}
  PROVE  Contract!Next
BY DEF Contract!Next, Contract!Open, slotOf, doneOf

LEMMA EffectMaps ==
  ASSUME NEW s \in External, NEW t \in Tasks, slotOf = "open",
         \A e \in External : s \in Later(e) => {e} \X Tasks \subseteq doneOf,
         doneOf' = doneOf \union {<<s, t>>}, slotOf' = slotOf
  PROVE  Contract!Next
<1>1. Contract!Earlier(s) \X Tasks \subseteq doneOf
  <2>1. Contract!Earlier(s) = {e \in External : s \in Later(e)}
    BY DEF Contract!Earlier, External, Later
  <2> QED BY <2>1
<1>2. Contract!Effect(s, t)
  BY <1>1 DEF Contract!Effect, slotOf, doneOf
<1>3. <<s, t>> \in Contract!All
  BY DEF Contract!All, External
<1>4. \E e \in Contract!All : Contract!Effect(e[1], e[2])
  <2>1. <<s, t>>[1] = s /\ <<s, t>>[2] = t
    OBVIOUS
  <2> QED BY <1>2, <1>3, <2>1
<1> QED BY <1>4 DEF Contract!Next

LEMMA AcceptMaps ==
  ASSUME slotOf = "open", doneOf = External \X Tasks, slotOf' = "accepted", doneOf' = doneOf
  PROVE  Contract!Next
<1>1. Contract!All = External \X Tasks
  BY DEF Contract!All, External
<1> QED BY <1>1 DEF Contract!Next, Contract!Accept, slotOf, doneOf

LEMMA AbandonMaps ==
  ASSUME slotOf = "open", doneOf = {}, slotOf' = "abandoned", doneOf' = doneOf
  PROVE  Contract!Next
BY DEF Contract!Next, Contract!Abandon, slotOf, doneOf

LEMMA StutterMaps ==
  ASSUME slotOf' = slotOf, doneOf' = doneOf
  PROVE  UNCHANGED Contract!vars
BY DEF Contract!vars, slotOf, doneOf

LEMMA ContractInit == ASSUME Init PROVE Contract!Init
BY DEF Init, Contract!Init

\* The second write of start opens the slot of a version nobody has heard of.
LEMMA ContractPointer ==
  ASSUME IInv, NEW c \in Controllers, WritePointer(c)
  PROVE  Contract!Next
<1>1. /\ current' = [name |-> mem[c].path, status |-> "open"] /\ world' = world
      /\ pc[c] = "pointer"
  BY DEF WritePointer
<1>2. current.status # "open" /\ \A op \in world : op[1] # mem[c].path[1]
  BY <1>1 DEF IInv, Inside, PointerInv
<1> QED BY <1>1, <1>2, OpenMaps DEF slotOf, doneOf, activeVersion

\* conclude: acceptance after every effect, abandonment before any.
LEMMA ContractConclude ==
  ASSUME IInv, NEW c \in Controllers, Conclude(c)
  PROVE  Contract!Next \/ UNCHANGED Contract!vars
<1>1. /\ pc[c] \in {"accepted", "abandoned"} /\ world' = world
      /\ current' = IF current.status = "open" THEN [current EXCEPT !.status = pc[c]] ELSE current
  BY DEF Conclude
<1>2. /\ active.phase = pc[c] /\ current.name \in LedgerIds /\ active = ledger[current.name]
      /\ activeVersion = current.name[1]
  BY <1>1, ActiveType DEF IInv, Inside, PlaceInv, active, activeVersion
<1>3. CASE current.status # "open"
  BY <1>1, <1>3, StutterMaps DEF slotOf, doneOf, activeVersion
<1>4. CASE current.status = "open"
  <2>1. /\ slotOf = "open" /\ slotOf' = pc[c] /\ doneOf' = doneOf
        /\ doneOf = {e \in External \X Tasks : <<activeVersion, e[1], e[2]>> \in world}
    BY <1>1, <1>4 DEF IInv, TypeOK, slotOf, doneOf, activeVersion
  <2>2. CASE pc[c] = "accepted"
    <3>1. \A s \in External : Landed(activeVersion, s)
      BY <1>2, <2>2 DEF IInv, Outside, AcceptedInv
    <3>2. doneOf = External \X Tasks
      BY <2>1, <3>1 DEF Landed
    <3> QED BY <2>1, <2>2, <3>2, AcceptMaps
  <2>3. CASE pc[c] = "abandoned"
    <3>1. active.sections \intersect External = {}
      BY <1>2, <2>3 DEF IInv, Outside, AbandonedInv
    <3>2. ASSUME NEW e \in External \X Tasks, <<activeVersion, e[1], e[2]>> \in world PROVE FALSE
      <4>1. e[1] \in active.sections /\ e[1] \in External
        BY <1>4, <3>2 DEF IInv, Outside, EffectsAreAnnounced
      <4> QED BY <3>1, <4>1
    <3>3. doneOf = {}
      BY <2>1, <3>2
    <3> QED BY <2>1, <2>3, <3>3, AbandonMaps
  <2> QED BY <1>1, <2>2, <2>3
<1> QED BY <1>3, <1>4

\* An operation lands in its stage's turn, and in an open release; one of
\* another version, or one that had already taken effect, changes nothing.
LEMMA ContractLand ==
  ASSUME IInv, History, NEW op \in Operations, Land(op)
  PROVE  Contract!Next \/ UNCHANGED Contract!vars
<1>1. op \in inflight /\ current' = current /\ world' = world \union {op}
  BY DEF Land
<1>2. /\ op = <<op[1], op[2], op[3]>> /\ op[2] \in External /\ op[3] \in Tasks
      /\ slotOf' = slotOf /\ activeVersion' = activeVersion
  BY <1>1 DEF Operations, slotOf, activeVersion
<1>3. CASE current.status = "absent" \/ op[1] # activeVersion \/ op \in world
  <2>1. doneOf' = doneOf
    <3>1. CASE current.status = "absent" \/ op \in world
      BY <1>1, <1>2, <3>1 DEF doneOf
    <3>2. ASSUME op[1] # activeVersion, NEW e
          PROVE  <<activeVersion, e[1], e[2]>> \in world' <=> <<activeVersion, e[1], e[2]>> \in world
      BY <1>1, <1>2, <3>2
    <3>3. CASE op[1] # activeVersion
      BY <1>1, <1>2, <3>2, <3>3 DEF doneOf
    <3> QED BY <1>3, <3>1, <3>3
  <2> QED BY <1>2, <2>1, StutterMaps
<1>4. CASE current.status # "absent" /\ op[1] = activeVersion /\ op \notin world
  <2>1. current.status = "open"
    <3> SUFFICES ASSUME current.status # "open" PROVE FALSE
      OBVIOUS
    <3>1. /\ current.status \in {"accepted", "abandoned"} /\ active.phase = current.status
          /\ current.name \in LedgerIds /\ active = ledger[current.name] /\ activeVersion = current.name[1]
      BY <1>4, ActiveType DEF IInv, TypeOK, Outside, ConcludedInv, active, activeVersion
    <3>2. CASE current.status = "accepted"
      <4>1. Landed(op[1], op[2])
        BY <1>2, <1>4, <3>1, <3>2 DEF IInv, Outside, AcceptedInv
      <4> QED BY <1>2, <1>4, <4>1 DEF Landed
    <3>3. CASE current.status = "abandoned"
      <4>1. op[2] \in active.sections
        BY <1>1, <1>4 DEF IInv, Outside, EffectsAreAnnounced
      <4> QED BY <1>2, <3>1, <3>3, <4>1 DEF IInv, Outside, AbandonedInv
    <3> QED BY <3>1, <3>2, <3>3
  <2>2. /\ slotOf = "open"
        /\ doneOf = {e \in External \X Tasks : <<activeVersion, e[1], e[2]>> \in world}
        /\ doneOf' = {e \in External \X Tasks : <<activeVersion, e[1], e[2]>> \in world'}
    BY <1>1, <1>2, <2>1 DEF slotOf, doneOf
  <2>3. doneOf' = doneOf \union {<<op[2], op[3]>>}
    BY <1>1, <1>2, <1>4, <2>2
  <2>4. \A e \in External : op[2] \in Later(e) => {e} \X Tasks \subseteq doneOf
    BY <1>1, <1>4, <2>2 DEF History, OrderedInv, Landed
  <2> QED BY <1>2, <2>2, <2>3, <2>4, EffectMaps
<1> QED BY <1>3, <1>4

\* Every other step leaves the slot and the effects of its release alone.
LEMMA ContractStep ==
  ASSUME IInv, History, [Next]_vars
  PROVE  Contract!Next \/ UNCHANGED Contract!vars
<1>1. CASE UNCHANGED <<current, world>>
  BY <1>1, StutterMaps DEF slotOf, doneOf, activeVersion
<1>2. ASSUME NEW c \in Controllers, Command(c) PROVE UNCHANGED <<current, world>>
  BY <1>2 DEF Command, Start, Resume, Abandon
<1>3. ASSUME NEW c \in Controllers, Step(c), ~WritePointer(c), ~Conclude(c)
      PROVE  UNCHANGED <<current, world>>
  BY <1>3 DEF Step, PruneAttempt, PruneLedger, FinishPrune, Dispatch, DispatchAccepted, Refuse,
     EnterFrontends, EnterShot, ShotSucceeds, EnterTasks, StartTask, FinishTask, TasksFail,
     TasksSucceed, Accept
<1>4. ASSUME NEW c \in Controllers, Failure(c) PROVE UNCHANGED <<current, world>>
  BY <1>4 DEF Failure, ShotFails, PrecheckFails, FailTask, AcceptFails, Crash
<1>5. ASSUME NEW op \in Operations, Lose(op) PROVE UNCHANGED <<current, world>>
  BY <1>5 DEF Lose
<1>6. UNCHANGED vars => UNCHANGED <<current, world>>
  BY DEF vars
<1> QED BY <1>1, <1>2, <1>3, <1>4, <1>5, <1>6, ContractPointer, ContractConclude, ContractLand DEF Next

\* The controller implements the contract: whatever crashes, is retried or
\* lands late, effects come stage by stage and only in an open release, which is
\* accepted after the last effect and abandoned before the first.
THEOREM LifecycleImplementsContract == Spec => ImplementsContract
<1>1. Init => Contract!Init
  BY ContractInit
<1>2. IInv /\ History /\ [Next]_vars => [Contract!Next]_Contract!vars
  BY ContractStep
<1> QED BY <1>1, <1>2, HistoryInvariance, PTL DEF Spec, ImplementsContract, Contract!Spec
=============================================================================
