--------------------------- MODULE ReleasePreparation ---------------------------
(***************************************************************************)
(* From a workspace that asks whether it may be released to local refs     *)
(* that hold the release: readiness and the promotion rehearsal, the plan  *)
(* of the train, the gate of release start, and the stages frontends,      *)
(* versions, builds and local-refs with the gate of every resume           *)
(* (release_support/workspace.py, versioning.py, validation.py,            *)
(* distribution.py, refs.py).  ReleaseLifecycle models the ledger and its  *)
(* phases; here is what the stages do to the isolated workspaces.  While   *)
(* they run the controller may be killed, the world around it may change   *)
(* and somebody (a build that outlived its controller) may write into a    *)
(* workspace.                                                              *)
(***************************************************************************)
EXTENDS ReleaseSource

CONSTANTS
  Trains,      \* name -> train, the trains that a release may be planned from
  Worlds,      \* name -> world; "good" is the one in which every check passes
  Acceptances, \* what the operator may accept at release start
  MaxFaults    \* bound: breaks, writes and crashes in one behaviour

\* The packages of a train are bundled as CEE bundles them, and a stamped
\* default occurs a number of times.
ASSUME TrainsAssumption ==
  \A name \in DOMAIN Trains : LET t == Trains[name] IN
    /\ Bundled(t.served["cee"]) /\ (t.public # Missing => Bundled(t.public.served))
    /\ \A v \in DockerDefaults(t, "release") \cup DockerDefaults(t, "next") : t.captured.defaults[v] \in Nat

\* What CI's package and the train's are builds of: one source when the pins of
\* CEE name the commits that the train builds (check_cee_promotion_rehearsal says
\* so of them), and the public package was built at another time.
PinsFollow(t) ==
  \A package \in DOMAIN t.captured.pins \cap DOMAIN t.source.revisions :
    t.captured.pins[package] = t.source.revisions[package]
ASSUME BuildsAssumption ==
  \A name \in DOMAIN Trains :
    LET t == Trains[name]
        trains == t.npmDone.packages["cee"].bytes
    IN t.rehearsed.package # Missing /\ t.public # Missing /\ PinsFollow(t) =>
         /\ (t.captured.tokens = None) = (t.npmPlan.tokens = None)
         /\ Bundled(t.rehearsed.package)
         /\ SameSource(t.rehearsed.package, trains, RehearsalContext(t), Context(t))
         /\ BuiltApart(t.rehearsed.package, t.public.served) /\ BuiltApart(trains, t.public.served)
ASSUME WorldsAssumption == "good" \in DOMAIN Worlds /\ "mongo" \in DOMAIN Worlds["good"]
ASSUME BoundsAssumption == MaxFaults \in Nat

VARIABLES
  train, world,   \* what is released, and the world around it as it is now
  accepted,       \* the acceptances that the ledger records
  stage,          \* the next stage
  pc, mem,        \* the controller's step, and its locals
  wired, sealed, built, spread, refs,   \* what the ledger records of the stages
  tree, output, branch, tag,            \* the workspaces, their builds and local refs
  late, raced,     \* history: a refusal after start; a write while a build is spread
  breaks, writes, crashes

ledger == <<accepted, wired, sealed, built, spread, refs>>
workspace == <<tree, output, branch, tag>>
world_ == <<train, world, breaks>>
history == <<late, raced>>
bounds == <<writes, crashes>>
vars == <<world_, stage, pc, mem, ledger, workspace, history, bounds>>

T == train
W == world
Good == Worlds["good"]

----------------------------------------------------------------------------
(* One application stands for the repositories: its CEE consumer manifest,  *)
(* its published manifest and bundle in the distribution directory, a file  *)
(* of its source, and a file that nothing of the release makes.  A content  *)
(* is the set of what was done to the captured one.                         *)

Variants == <<"release", "next">>
Workspaces == Elements(Variants)
FileNames == {"consumer", "meta", "bundle", "source", "stray"}
Distribution == {"meta", "bundle"}
Absent == {"absent"}
Captured == [f \in FileNames |-> IF f = "stray" THEN Absent ELSE {}]
NoTree == [f \in FileNames |-> Absent]
Nothing == {"nothing"}

\* _actual_changes, _working_changes: against the commit that is checked out.
Changes(v) == {f \in FileNames : tree[v][f] # Captured[f]}
\* _verify_expected_files, _verify_file_hashes.
Matches(v, seal) == \A f \in DOMAIN seal : tree[v][f] = seal[f]
Restrict(v, names) == [f \in names |-> tree[v][f]]

NoSeal == [v \in Workspaces |-> <<>>]
Fresh == [v |-> 1, seal |-> NoSeal, kept |-> Absent]
V == Variants[mem.v]
HasNext == mem.v < Len(Variants)

Before == {"readiness", "rehearsal", "plan", "start"}
Stages == <<"frontends", "versions", "builds", "local-refs", "prepared">>

Init ==
  /\ \E name \in DOMAIN Trains : train = Trains[name]
  /\ world = Good /\ accepted \in Acceptances
  /\ stage = "readiness" /\ pc = "idle" /\ mem = Fresh
  /\ wired = Nothing /\ sealed = NoSeal
  /\ built = [v \in Workspaces |-> Nothing]
  /\ spread = NoSeal /\ refs = [v \in Workspaces |-> <<>>]
  /\ tree = [v \in Workspaces |-> NoTree]
  /\ output = [v \in Workspaces |-> Absent]
  /\ branch = [v \in Workspaces |-> <<>>] /\ tag = <<>>
  /\ late = FALSE /\ raced = FALSE
  /\ breaks = 0 /\ writes = 0 /\ crashes = 0

Goto(place) == pc' = place /\ mem' = mem
Stop == pc' = "idle" /\ mem' = Fresh
\* Mutant: versions is tried again in the attempt that it failed in.
NotRewound == stage

\* A stage refuses; versions rewinds to frontends, in a new attempt.
Rewound == IF stage = "versions" THEN "frontends" ELSE stage
Refuse ==
  /\ Stop
  /\ stage' = Rewound
  /\ late' = (late \/ stage \notin Before)
  /\ UNCHANGED <<world_, ledger, workspace, raced, bounds>>

----------------------------------------------------------------------------
(* Before the release starts: nothing is kept of a refusal. *)

Ask(from, passes, to) ==
  /\ pc = "idle" /\ stage = from /\ passes
  /\ stage' = to
  /\ UNCHANGED <<world_, pc, mem, ledger, workspace, history, bounds>>

Rehearsed ==
  Rehearsal(T.rehearsed.package, IF T.public = Missing THEN Missing ELSE T.public.served, RehearsalContext(T),
            T.captured.pins, T.source.revisions)

Ready == Ask("readiness", ~ReadinessFinds(T), "rehearsal")
Rehearse == Ask("rehearsal", Rehearsed # "fail", "plan")
Plan == Ask("plan", PlanAccepts(T), "start")
Start == Ask("start", StartGate(T, W, accepted), "frontends")

FirstStep == CASE stage = "frontends" -> "clone"
               [] stage = "versions" -> "cloneNext"
               [] stage = "builds" -> "completed"
               [] stage = "local-refs" -> "materialize"

\* release start goes on to its first stage, and release resume asks again.
Resume ==
  /\ pc = "idle" /\ stage \in {"frontends", "versions", "builds", "local-refs"}
  /\ IF ResumeGate(stage, T, W, accepted)
     THEN Goto(FirstStep) /\ UNCHANGED <<world_, stage, ledger, workspace, history, bounds>>
     ELSE Refuse

NextStage(to) == stage' = to /\ Stop

----------------------------------------------------------------------------
(* frontends: ReleaseWorkspacePreparer.prepare in a new attempt. *)

Clone ==
  /\ pc = "clone"
  /\ tree' = [release |-> Captured, next |-> NoTree]
  /\ output' = [v \in Workspaces |-> Absent]
  /\ Goto("wire")
  /\ UNCHANGED <<world_, stage, ledger, branch, tag, history, bounds>>

\* propagate-cee-release.mjs and npm install --package-lock-only.
Wire ==
  /\ pc = "wire"
  /\ IF WiringAccepts(T)
     THEN /\ tree' = [tree EXCEPT !["release"].consumer = @ \cup {"wired"}]
          /\ Goto("sealWiring")
          /\ UNCHANGED <<world_, stage, ledger, output, branch, tag, history, bounds>>
     ELSE Refuse

\* _verify_consumer: the manifest and the lock name the public CEE.
ConsumerVerified == "wired" \in tree["release"].consumer

\* The allowed change set, and the hashes for the ledger.
SealWiring ==
  /\ pc = "sealWiring"
  /\ IF ConsumerVerified /\ Changes("release") \subseteq {"consumer"}
     THEN /\ wired' = tree["release"].consumer
          /\ NextStage("versions")
          /\ UNCHANGED <<world_, accepted, sealed, built, spread, refs, workspace, history, bounds>>
     ELSE Refuse

----------------------------------------------------------------------------
(* versions: ReleaseVersionPreparer.prepare. *)

CloneNext ==
  /\ pc = "cloneNext"
  /\ tree' = [tree EXCEPT !["next"] = Captured]
  /\ Goto("copy")
  /\ UNCHANGED <<world_, stage, ledger, output, branch, tag, history, bounds>>

\* The consumers are copied as they were sealed.
CopyConsumers ==
  /\ pc = "copy"
  /\ IF tree["release"].consumer = wired
     THEN /\ tree' = [tree EXCEPT !["next"].consumer = wired]
          /\ Goto("stamp")
          /\ UNCHANGED <<world_, stage, ledger, output, branch, tag, history, bounds>>
     ELSE Refuse

Stamp ==
  /\ pc = "stamp"
  /\ IF StampingAccepts(T, V)
     THEN /\ tree' = [tree EXCEPT ![V].consumer = @ \cup {V}, ![V].meta = @ \cup {V}]
          /\ Goto("sealVersion")
          /\ UNCHANGED <<world_, stage, ledger, output, branch, tag, history, bounds>>
     ELSE Refuse

\* The change set is exact; the ledger records both variants at the end.
SealVersion ==
  /\ pc = "sealVersion"
  /\ IF ChangesAreExact(T) /\ Changes(V) = {"consumer", "meta"}
     THEN LET seal == [mem.seal EXCEPT ![V] = Restrict(V, Changes(V))] IN
            /\ IF HasNext
               THEN pc' = "stamp" /\ mem' = [mem EXCEPT !.v = @ + 1, !.seal = seal] /\ UNCHANGED <<stage, sealed>>
               ELSE sealed' = seal /\ NextStage("builds")
            /\ UNCHANGED <<world_, accepted, wired, built, spread, refs, workspace, history, bounds>>
     ELSE Refuse

----------------------------------------------------------------------------
(* builds: ReleaseBuildValidator. *)

\* verify_completed_task of what an earlier resume completed.
Completed ==
  /\ pc = "completed"
  /\ IF \A v \in Workspaces : built[v] \in {Nothing, output[v]}
     THEN Goto("build") /\ UNCHANGED <<world_, stage, ledger, workspace, history, bounds>>
     ELSE Refuse

SkipBuilt ==
  /\ pc = "build" /\ built[V] # Nothing
  /\ IF HasNext THEN mem' = [mem EXCEPT !.v = @ + 1] /\ UNCHANGED <<stage, pc>>
     ELSE NextStage("local-refs")
  /\ UNCHANGED <<world_, ledger, workspace, history, bounds>>

\* run_task: the Maven tests of the release are guarded; a build works from what
\* the tree holds.
Build ==
  /\ pc = "build" /\ built[V] = Nothing
  /\ IF V = "release" /\ W.mongo
     THEN Refuse
     ELSE /\ output' = [output EXCEPT ![V] = {"built"} \cup ((tree[V].consumer \cup tree[V].source) \cap {"wired", "foreign"})]
          /\ Goto("recordBuild")
          /\ UNCHANGED <<world_, stage, ledger, tree, branch, tag, history, bounds>>

\* Mutant: the stage ends with the first build.
RecordOneBuild ==
  /\ pc = "recordBuild"
  /\ built' = [built EXCEPT ![V] = output[V]]
  /\ NextStage("local-refs")
  /\ UNCHANGED <<world_, accepted, wired, sealed, spread, refs, workspace, history, bounds>>

\* The log and _directory_file_hashes of the output are recorded.
RecordBuild ==
  /\ pc = "recordBuild"
  /\ built' = [built EXCEPT ![V] = output[V]]
  /\ Goto("build")
  /\ UNCHANGED <<world_, stage, accepted, wired, sealed, spread, refs, workspace, history, bounds>>

----------------------------------------------------------------------------
(* local-refs: ReleaseDistributionMaterializer and ReleaseRefCreator. *)

Materialized == spread # NoSeal

\* _cee_evidence: the application serves the public CEE.
ServesCee(content) == "wired" \in content

\* Every distribution is verified once it is recorded; before, the prepared
\* files, the change set outside the distribution and the build are.
BeginMaterialize ==
  /\ pc = "materialize"
  /\ IF Materialized
     THEN IF \A v \in Workspaces : output[v] = built[v] /\ Matches(v, spread[v])
          THEN pc' = "verifyRefs" /\ mem' = Fresh /\ UNCHANGED <<world_, stage, ledger, workspace, history, bounds>>
          ELSE Refuse
     ELSE IF /\ Matches(V, sealed[V]) /\ Changes(V) \ Distribution = {"consumer"}
             /\ output[V] = built[V] /\ tree[V].meta # Absent
          THEN pc' = "delete" /\ mem' = [mem EXCEPT !.kept = tree[V].meta]
               /\ UNCHANGED <<world_, stage, ledger, workspace, history, bounds>>
          ELSE Refuse

\* _copy_exact_build: the distribution is emptied, ...
Delete ==
  /\ pc = "delete"
  /\ tree' = [tree EXCEPT ![V].meta = Absent, ![V].bundle = Absent]
  /\ Goto("restore")
  /\ UNCHANGED <<world_, stage, ledger, output, branch, tag, history, bounds>>

\* ... the preserved files are written back, ...
Restore ==
  /\ pc = "restore"
  /\ tree' = [tree EXCEPT ![V].meta = mem.kept]
  /\ Goto("spread")
  /\ UNCHANGED <<world_, stage, ledger, output, branch, tag, history, bounds>>

\* ... and the output is copied.
CopyBuild ==
  /\ pc = "spread"
  /\ tree' = [tree EXCEPT ![V].bundle = output[V]]
  /\ Goto("sealSpread")
  /\ UNCHANGED <<world_, stage, ledger, output, branch, tag, history, bounds>>

\* The new hashes of all that changed are recorded when both variants are done.
SealSpread ==
  /\ pc = "sealSpread"
  /\ IF ~ServesCee(tree[V].bundle) THEN Refuse
     ELSE LET seal == [mem.seal EXCEPT ![V] = Restrict(V, Changes(V))]
              dist == [v \in Workspaces |-> [f \in Distribution |-> tree[v][f]]]
          IN /\ IF HasNext
                THEN pc' = "materialize" /\ mem' = [mem EXCEPT !.v = @ + 1, !.seal = seal]
                     /\ UNCHANGED <<sealed, spread>>
                ELSE sealed' = seal /\ spread' = dist /\ pc' = "verifyRefs" /\ mem' = Fresh
             /\ UNCHANGED <<world_, stage, accepted, wired, built, refs, workspace, history, bounds>>

\* _verify_commit: the commit changes the expected files, and the working tree
\* holds the expected content.
CommitAgrees(v) ==
  /\ {f \in FileNames : branch[v][f] # Captured[f]} = DOMAIN sealed[v]
  /\ Matches(v, sealed[v])

\* verify_record of the refs that an earlier resume created.
VerifyRefs ==
  /\ pc = "verifyRefs"
  /\ IF \A v \in Workspaces : refs[v] # <<>> =>
          branch[v] = refs[v] /\ (v = "release" => tag = refs[v]) /\ CommitAgrees(v)
     THEN Goto("ref") /\ UNCHANGED <<world_, stage, ledger, workspace, history, bounds>>
     ELSE Refuse

SkipRef ==
  /\ pc = "ref" /\ refs[V] # <<>>
  /\ IF HasNext THEN mem' = [mem EXCEPT !.v = @ + 1] /\ UNCHANGED <<stage, pc>>
     ELSE NextStage("prepared")
  /\ UNCHANGED <<world_, ledger, workspace, history, bounds>>

\* create: on the captured commit, with exactly the prepared files; a branch
\* that has its commit already is only verified.
PrepareCommit ==
  /\ pc = "ref" /\ refs[V] = <<>>
  /\ IF branch[V] # <<>> THEN Goto("verifyCommit") /\ UNCHANGED <<world_, stage, ledger, workspace, history, bounds>>
     ELSE IF Changes(V) = DOMAIN sealed[V] /\ Matches(V, sealed[V])
          THEN Goto("commit") /\ UNCHANGED <<world_, stage, ledger, workspace, history, bounds>>
          ELSE Refuse

\* git add of the expected files, git commit.
Commit ==
  /\ pc = "commit"
  /\ branch' = [branch EXCEPT ![V] = [f \in FileNames |-> IF f \in DOMAIN sealed[V] THEN tree[V][f] ELSE Captured[f]]]
  /\ Goto("verifyCommit")
  /\ UNCHANGED <<world_, stage, ledger, tree, output, tag, history, bounds>>

\* Mutant: the hashes are not compared again after the commit.
VerifyCommitByName ==
  /\ pc = "verifyCommit"
  /\ IF {f \in FileNames : branch[V][f] # Captured[f]} = DOMAIN sealed[V]
     THEN Goto("clean") /\ UNCHANGED <<world_, stage, ledger, workspace, history, bounds>>
     ELSE Refuse

VerifyCommit ==
  /\ pc = "verifyCommit"
  /\ IF CommitAgrees(V)
     THEN Goto("clean") /\ UNCHANGED <<world_, stage, ledger, workspace, history, bounds>>
     ELSE Refuse

\* Nothing may be left in the working tree.
VerifyClean ==
  /\ pc = "clean"
  /\ IF tree[V] = branch[V]
     THEN Goto("tag") /\ UNCHANGED <<world_, stage, ledger, workspace, history, bounds>>
     ELSE Refuse

Tag ==
  /\ pc = "tag"
  /\ tag' = IF V = "release" /\ tag = <<>> THEN branch[V] ELSE tag
  /\ IF V = "release" /\ tag' # branch[V]
     THEN Stop /\ late' = TRUE /\ refs' = refs
     ELSE Goto("ref") /\ refs' = [refs EXCEPT ![V] = branch[V]] /\ late' = late
  /\ UNCHANGED <<world_, stage, accepted, wired, sealed, built, spread, tree, output, branch, raced, bounds>>

----------------------------------------------------------------------------
(* Others. *)

HasFaults == breaks + writes + crashes < MaxFaults

\* The controller dies; versions continues at frontends.
Crash ==
  /\ pc # "idle" /\ HasFaults
  /\ crashes' = crashes + 1
  /\ Stop
  /\ stage' = Rewound
  /\ UNCHANGED <<world_, ledger, workspace, history, writes>>

Break(w) ==
  /\ stage \notin Before /\ world = Good /\ w # "good" /\ HasFaults
  /\ world' = Worlds[w]
  /\ breaks' = breaks + 1
  /\ UNCHANGED <<train, stage, pc, mem, ledger, workspace, history, bounds>>

Repair ==
  /\ world # Good
  /\ world' = Good
  /\ UNCHANGED <<train, breaks, stage, pc, mem, ledger, workspace, history, bounds>>

\* The output was validated, and its copy is not yet recorded.
Spreading == {"delete", "restore", "spread", "sealSpread"}

\* Somebody writes into a workspace or into the output of its build.
Write(v, f) ==
  /\ HasFaults /\ tree[v] # NoTree
  /\ writes' = writes + 1
  /\ raced' = (raced \/ (v = V /\ pc \in Spreading))
  /\ \/ tree' = [tree EXCEPT ![v][f] = (@ \ Absent) \cup {"foreign"}] /\ output' = output
     \/ f = "bundle" /\ output[v] # Absent /\ tree' = tree
        /\ output' = [output EXCEPT ![v] = @ \cup {"foreign"}]
  /\ UNCHANGED <<world_, stage, pc, mem, ledger, branch, tag, late, crashes>>

\* Whoever wrote puts the file back.
Undo(v, f) ==
  /\ "foreign" \in tree[v][f] /\ HasFaults
  /\ writes' = writes + 1
  /\ tree' = [tree EXCEPT ![v][f] = IF @ \ {"foreign"} = {} /\ f = "stray" THEN Absent ELSE @ \ {"foreign"}]
  /\ raced' = (raced \/ (v = V /\ pc \in Spreading))
  /\ UNCHANGED <<world_, stage, pc, mem, ledger, output, branch, tag, late, crashes>>

Controller ==
  \/ Ready \/ Rehearse \/ Plan \/ Start \/ Resume
  \/ Clone \/ Wire \/ SealWiring
  \/ CloneNext \/ CopyConsumers \/ Stamp \/ SealVersion
  \/ Completed \/ SkipBuilt \/ Build \/ RecordBuild
  \/ BeginMaterialize \/ Delete \/ Restore \/ CopyBuild \/ SealSpread
  \/ VerifyRefs \/ SkipRef \/ PrepareCommit \/ Commit \/ VerifyCommit \/ VerifyClean \/ Tag

Others == Crash \/ (\E w \in DOMAIN Worlds : Break(w)) \/ \E v \in Workspaces, f \in FileNames : Write(v, f) \/ Undo(v, f)

Next == Controller \/ Repair \/ Others

\* The operator resumes, the controller goes on, and what is broken is repaired.
Fairness == WF_vars(Controller) /\ WF_vars(Repair)
Spec == Init /\ [][Next]_vars
FairSpec == Spec /\ Fairness

----------------------------------------------------------------------------
(* Properties. *)

Contents == SUBSET {"wired", "release", "next", "built", "foreign", "absent"}

\* The type of every variable, and a step's records exist once it is reached.
TypeOK ==
  /\ accepted \in Acceptances /\ breaks + writes + crashes <= MaxFaults
  /\ stage \in Before \cup Elements(Stages)
  /\ mem.v \in DOMAIN Variants /\ mem.kept \in Contents
  /\ wired \in Contents \cup {Nothing}
  /\ \A v \in Workspaces :
       /\ tree[v] \in [FileNames -> Contents] /\ output[v] \in Contents
       /\ branch[v] = <<>> \/ branch[v] \in [FileNames -> Contents]
       /\ stage \in {"builds", "local-refs", "prepared"} => sealed[v] # <<>>
       /\ stage \in {"local-refs", "prepared"} => built[v] # Nothing
       /\ refs[v] # <<>> => Materialized
  /\ stage = "prepared" => \A v \in Workspaces : refs[v] # <<>>

\* What a release is prepared from is proven: its CEE is the same executable
\* code as the public package, and the train's records, images and component
\* copies are those of one captured source (ReleasePlanner.build), which no
\* single altered record or package gets past.
PlanIsProven ==
  stage \notin {"readiness", "rehearsal", "plan"} =>
    /\ IsPromotion(T.served["cee"], T.public.served)
    /\ \A record \in {T.npmPlan, T.npmDone, T.dockerPlan, T.dockerDone} : record.source = T.source
    /\ \A record \in {T.dockerPlan, T.dockerDone} : record.npmPlan = T.npmDone.plan
    /\ \A component \in Wired(T) :
         T.served[component.name] = T.npmDone.packages[component.name].bytes
         /\ component.revision = T.source.revisions[component.repository]

\* A rehearsal that passed says what the plan will say of the package that the
\* train records: CEE is not refused as a promotion after the train was built
\* (check_cee_promotion_rehearsal), unless the registry serves other bytes.
RehearsalAnswers ==
  stage = "plan" /\ Rehearsed = "pass" /\ T.served["cee"] = T.npmDone.packages["cee"].bytes =>
    ComparesEqual(T.served["cee"], T.public.served, Context(T))

\* Conditions that hold when the release starts, that its preparation refuses
\* and that preflight does not ask about: the declared generated file and the
\* variable that must be there exactly once, files that the stamping looks for
\* under a narrower name, the wiring helper, locks that pin other registries,
\* empty audit baselines, a consumer that is already wired.
Unasked(t) ==
  \/ t.captured.swagger # 1
  \/ \E v \in DockerDefaults(t, "release") \cup DockerDefaults(t, "next") : t.captured.defaults[v] > 1
  \/ t.captured.poms.suffix /\ ~t.captured.poms.exact
  \/ t.captured.env.suffix /\ ~t.captured.env.exact
  \/ ~WiringAccepts(t)
  \/ t.captured.baselines = "empty"
  \/ ~ChangesAreExact(t)

\* A release either refuses in its first minute or runs with its preconditions
\* settled (ReleasePreflight): it refuses after start only what has changed
\* since, or what preflight is known not to ask.
SettledInTheFirstMinute ==
  late => breaks > 0 \/ writes > 0 \/ crashes > 0 \/ Unasked(T)

\* The refs that a release records hold what was sealed: the prepared versions,
\* the validated build and the captured source, nothing else, whoever writes
\* into the workspaces and wherever the controller dies (distribution.py,
\* refs.py); the exception is a write while a validated build is copied: what is
\* then found is recorded, and compared with neither the build nor the seal.
CommittedIsSealed ==
  \A v \in Workspaces : refs[v] # <<>> =>
    /\ \A f \in DOMAIN sealed[v] : refs[v][f] = sealed[v][f]
    /\ raced \/ (refs[v].bundle = built[v] /\ refs[v].source = {} /\ refs[v].stray = Absent)
    /\ v = "release" => tag = refs[v]
    /\ writes = 0 => refs[v] = [Captured EXCEPT !.consumer = {"wired", v}, !.meta = {v}, !.bundle = {"built", "wired"}]

\* A controller that died after it emptied a distribution and before it wrote
\* the preserved files back leaves a workspace that every resume refuses.
Emptied == pc = "idle" /\ \E v \in Workspaces : stage = "local-refs" /\ ~Materialized /\ tree[v].meta = Absent

\* Otherwise a started release that nobody writes into is prepared, however
\* often it is resumed.
Prepares == []<>(stage = "prepared" \/ stage \in Before \/ Unasked(T) \/ writes > 0 \/ Emptied)
================================================================================
