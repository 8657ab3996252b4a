----------------------------- MODULE ReleaseSource -----------------------------
(***************************************************************************)
(* What a release is planned from, and what is asked of it before and      *)
(* while it is prepared: release_support/planning.py (the plan of a        *)
(* train), preflight.py (the checks of release start and resume),          *)
(* readiness.py and packaging.py (the same before the train exists) and    *)
(* the refusals of versioning.py and workspace.py.  A train is a record of *)
(* its immutable records and of the commits it captured; a hash stands for *)
(* what it hashes.  One repository stands for each kind that the policy    *)
(* tables tell apart.                                                      *)
(***************************************************************************)
EXTENDS CeePromotion, Sequences

----------------------------------------------------------------------------
(* policy.py *)

Independent == {"cee", "model"}              \* INDEPENDENT_RELEASE_REPOSITORIES
NextDevelopmentOnly == {"model"}             \* NEXT_DEVELOPMENT_VERSION_FILES
NpmSurfaces == [app |-> {"src", "dist"}]     \* NPM_VERSION_SURFACES
Published == {"app"}                         \* NPM_RELEASE_SURFACES
ImageVariables == {"image", "maven", "application"}
Retained == "retained"                       \* NEXUS_NPM_RETAINED_REGISTRY
ImageCount == 2                              \* the 27 images of a train

Distinct(sequence) == \A i, j \in DOMAIN sequence : sequence[i] = sequence[j] => i = j
Elements(sequence) == {sequence[i] : i \in DOMAIN sequence}

----------------------------------------------------------------------------
(* ReleasePlanner.build: the records of a train chain to one source. *)

\* _validate_stable_version, BuildTrain.validate: the operator's versions.
VersionsFollow(t) ==
  /\ t.next > t.release
  /\ t.train.base = t.release
  /\ t.source.sourceVersion = t.release

NpmRecordsAgree(t) ==
  /\ \A record \in {t.source, t.npmPlan, t.npmDone} : record.train = t.train
  /\ t.completion.train = t.train
  /\ t.npmPlan.source = t.source /\ t.npmDone.source = t.source
  /\ t.npmDone.plan = t.npmPlan

\* _validate_docker_completion.
DockerRecordsAgree(t) ==
  /\ \A record \in {t.dockerPlan, t.dockerDone} :
       record.train = t.train /\ record.source = t.source /\ record.npmPlan = t.npmPlan
  /\ t.dockerDone.plan = t.train
  /\ Len(t.dockerPlan.images) = ImageCount /\ Distinct(t.dockerPlan.images)
  /\ t.dockerDone.images = t.dockerPlan.images
  /\ t.dockerDone.digests

\* _release_repositories, _maven_phases, _publication_plan.
ReleaseRepositories(t) == t.build.repositories \ Independent
TopologyAgrees(t) ==
  /\ t.build.repositories # {} /\ t.build.maven # {} /\ t.build.phases # <<>>
  /\ t.build.repositories = DOMAIN t.source.revisions
  /\ t.build.maven \subseteq t.build.repositories
  /\ Elements(t.build.phases) \subseteq t.build.maven
  /\ t.build.required # {}
  /\ Published \subseteq ReleaseRepositories(t)

\* _cee_consumers: the configuration and the npm plan cover each other exactly;
\* an application is planned by repository, another consumer by its manifest.
Key(consumer) == IF consumer.kind = "frontend" THEN <<consumer.repository, "">>
                 ELSE <<consumer.repository, consumer.manifest>>
Place(consumer) == <<consumer.repository, consumer.manifest>>
ConsumersAgree(t) ==
  LET consumers == t.frontend.consumers
      keys == [i \in DOMAIN consumers |-> Key(consumers[i])]
      planned == t.npmPlan.consumers
  IN /\ consumers # <<>>
     /\ Distinct(keys) /\ Elements(keys) = DOMAIN planned
     /\ Distinct([i \in DOMAIN consumers |-> Place(consumers[i])])
     /\ \A i \in DOMAIN consumers :
          consumers[i].repository \in DOMAIN t.source.revisions
          /\ planned[keys[i]] = t.source.revisions[consumers[i].repository]
Consumers(t) == {t.frontend.consumers[i].repository : i \in DOMAIN t.frontend.consumers}

\* The development CEE: planned at the captured commit, recorded by the train,
\* and served with the recorded bytes; the public one as npmjs recorded it.
CeeAgrees(t) ==
  /\ t.npmPlan.cee.name = "dev"
  /\ "cee" \in DOMAIN t.npmDone.packages
  /\ "cee" \in DOMAIN t.source.revisions => t.npmPlan.cee.revision = t.source.revisions["cee"]
  /\ t.served["cee"] = t.npmDone.packages["cee"].bytes
  /\ t.public # Missing /\ t.public.served = t.public.recorded

\* What the proof is given: the identities, the captured install policy and the
\* train's pin of the design tokens.
Context(t) ==
  [devName |-> "dev", devVersion |-> t.npmPlan.cee.version, version |-> t.npmPlan.cee.version,
   publicName |-> "public", publicVersion |-> t.public.version,
   scripts |-> t.captured.installPolicy, tokens |-> t.npmPlan.tokens, loader |-> t.models]

\* What the rehearsal is given: the version CI published, and the version and the
\* pin that are committed.
RehearsalContext(t) ==
  [Context(t) EXCEPT !.devVersion = t.rehearsed.version, !.version = t.captured.ceeVersion,
                     !.tokens = t.captured.tokens]

\* retained_copy: a shared component was built at the captured commit, recorded,
\* and has a copy of the same bytes in the registry that nothing is removed from.
RetainedCopy(t, component) ==
  /\ component.repository \in DOMAIN t.source.revisions
  /\ t.source.revisions[component.repository] = component.revision
  /\ component.name \in DOMAIN t.npmDone.packages
  /\ t.npmDone.packages[component.name].revision = component.revision
  /\ component.name \in DOMAIN t.npmDone.retained
  /\ LET copy == t.npmDone.retained[component.name] IN
       /\ copy.bytes = t.npmDone.packages[component.name].bytes
       /\ copy.registry = Retained
       /\ t.served[component.name] = copy.bytes

\* The components, and the model when a consumer that is released follows it.
Wired(t) == t.npmPlan.components
            \cup {m \in t.npmPlan.model : t.frontend.modelConsumers \cap (Consumers(t) \cup ReleaseRepositories(t)) # {}}
ComponentsRetained(t) ==
  /\ t.npmPlan.components # {} => t.npmDone.registry = Retained
  /\ \A component \in Wired(t) : RetainedCopy(t, component)

PlanAccepts(t) ==
  /\ VersionsFollow(t)
  /\ NpmRecordsAgree(t) /\ DockerRecordsAgree(t)
  /\ TopologyAgrees(t) /\ ConsumersAgree(t)
  /\ CeeAgrees(t) /\ ComparesEqual(t.served["cee"], t.public.served, Context(t))
  /\ ComponentsRetained(t)

\* _docker_frontend_defaults: the variables that each stamped tree sets; the
\* release names the retained registry as well.
DockerDefaults(t, variant) ==
  IF t.npmDone.inputs = {} THEN {}
  ELSE t.npmDone.inputs \cup (IF variant = "release" THEN {"registry"} ELSE {})

\* _integration_repositories, _development_only_candidates.
IntegrationRepositories(t) == ReleaseRepositories(t) \cup Consumers(t)
DevelopmentOnly(t) == (NextDevelopmentOnly \cap DOMAIN t.source.revisions) \ ReleaseRepositories(t)

----------------------------------------------------------------------------
(* readiness.py and packaging.py: asked of the workspace before a train. *)

ReadinessFinds(t) ==
  \/ t.frontend.consumers = <<>>
  \/ ~Distinct([i \in DOMAIN t.frontend.consumers |-> Place(t.frontend.consumers[i])])
  \/ ~({"consumer", "consumerLock"} \subseteq t.captured.inputs)
  \/ ~(t.build.required \subseteq t.captured.produced)
  \/ "package" \notin t.captured.inputs
  \/ t.next <= t.release \/ t.captured.parentVersion # t.release
  \/ ~t.captured.packable

----------------------------------------------------------------------------
(* preflight.py: the world around a release, as the checks read it. *)

\* The order of ReleasePreflight.CHECKS.
Checks == <<"release", "toolchain", "processes", "profile", "disk", "trees", "identity", "nexus", "npm",
            "npmConfig", "push", "version", "artifacts", "green", "smoke", "components", "source",
            "generated", "license", "survey">>

\* resume_check_names: what the recorded next stage still depends on.
ResumeChecks(stage) ==
  {"toolchain", "processes", "profile", "disk"}
  \cup (IF stage = "acceptance" THEN {} ELSE {"npmConfig"})
  \cup (CASE stage \in {"frontends", "versions", "builds"} -> Elements(Checks) \ {"release"}
          [] stage = "local-refs" -> {"identity", "nexus", "npm", "push", "version", "artifacts", "survey"}
          [] stage = "snapshots" -> {"nexus", "npm", "push", "version", "artifacts", "survey"}
          [] stage = "remotes" -> {"nexus", "npm", "push", "artifacts"}
          [] stage = "artifacts" -> {"nexus", "npm"}
          [] OTHER -> {"nexus"})

ReleaseFree(t, w) == w.active = None
ToolchainFits(w) == w.tools /\ w.java = 17 /\ w.node = 24
\* ReleaseSpaceEstimator: checkouts, two builds of each, and headroom.
SpaceNeeded(t) == Cardinality(DOMAIN t.source.revisions) + Cardinality(ReleaseRepositories(t))
                  + 2 * Cardinality(t.build.maven) + 2 * Cardinality(Published) + 4
TreesClean(t, w) ==
  \A r \in IntegrationRepositories(t) :
    r \in DOMAIN w.trees /\ w.trees[r] = [branch |-> "develop", modified |-> FALSE, unpushed |-> FALSE]
IdentityKnown(t, w) == w.author \/ IntegrationRepositories(t) \cap DOMAIN w.trees \subseteq w.authors
\* check_nexus_authorization: credentials, and the three probes.
NexusReady(w) == w.credentials /\ w.nexus = [authenticated |-> TRUE, writable |-> TRUE, reads |-> TRUE]
NpmReady(w) == {"train", Retained} \subseteq w.npmLogins
PushAllowed(t, w) == w.refusing \cap (IntegrationRepositories(t) \cup DevelopmentOnly(t)) = {}
VersionUnused(t, w) == w.taken \cap (IntegrationRepositories(t) \cup DevelopmentOnly(t)) = {}
ArtifactsUnused(t, w) ==
  /\ ~w.mavenTaken
  /\ "package" \in t.captured.inputs
  /\ w.npmTaken = {}
\* check_develop_is_green: the newest finished run of the captured commit, in
\* every repository with a workflow, passed or was accepted by name.
Green(t, w, accepted) ==
  \A r \in IntegrationRepositories(t) \cap t.captured.workflows :
    LET ran == {n \in DOMAIN w.ci[r] : w.ci[r][n] # "cancelled"}
        newest == CHOOSE n \in ran : \A m \in ran : m <= n
    IN /\ ran # {}
       /\ \/ w.ci[r][newest] = "success"
          \/ w.ci[r][newest] = "failure" /\ accepted.red[r] = newest
SmokeCovers(t, w) == \E run \in w.smoke : run.passed /\ run.heads = t.source.revisions
SurveyClean(t, w, accepted) == {r \in IntegrationRepositories(t) : w.mainOnly[r]} \subseteq accepted.mainOnly

NpmConfigured(w) == w.npmConfig
ComponentsInstalled(w) == w.components
\* check_generated_version_files, check_license_files: a missing license only warns.
GeneratedDeclared(t) == ~t.captured.undeclared
LicenseRecognised(t) == t.captured.license # "unrecognised"

\* The end of check_source_contract: what is deployed and where it is published.
DeploymentContract(t) ==
  /\ "deploy" \in ReleaseRepositories(t) => t.captured.env.suffix
  /\ t.captured.publishesTo = "train"

\* check_source_contract, in the commits that the train captured.
SourceContract(t) ==
  LET c == t.captured IN
    /\ t.build.phases # <<>> => c.mvnw = "executable"
    /\ {"package", "lock", "preserved", "consumer", "consumerLock"} \subseteq c.inputs
    /\ ~c.unreviewedScripts
    /\ \A surface \in NpmSurfaces["app"] :
         c.npm[surface] = [package |-> t.release, lock |-> t.release, root |-> t.release]
    /\ c.poms.suffix
    /\ "development" \in ReleaseRepositories(t) => c.environment
    /\ "dockerbuild" \in ReleaseRepositories(t) =>
         /\ ImageVariables \subseteq c.images
         /\ \A v \in DockerDefaults(t, "release") \cup DockerDefaults(t, "next") : c.defaults[v] >= 1
    /\ DevelopmentOnly(t) # {} => c.conformance = 1
    /\ DeploymentContract(t)

\* One check: whether it finds nothing fatal.
Passes(check, t, w, accepted) ==
  CASE check = "release"    -> ReleaseFree(t, w)
    [] check = "toolchain"  -> ToolchainFits(w)
    [] check = "processes"  -> ~w.mongo
    [] check = "profile"    -> w.profile
    [] check = "disk"       -> w.free >= SpaceNeeded(t)
    [] check = "trees"      -> TreesClean(t, w)
    [] check = "identity"   -> IdentityKnown(t, w)
    [] check = "nexus"      -> NexusReady(w)
    [] check = "npm"        -> NpmReady(w)
    [] check = "npmConfig"  -> NpmConfigured(w)
    [] check = "push"       -> PushAllowed(t, w)
    [] check = "version"    -> VersionUnused(t, w)
    [] check = "artifacts"  -> ArtifactsUnused(t, w)
    [] check = "green"      -> Green(t, w, accepted)
    [] check = "smoke"      -> SmokeCovers(t, w)
    [] check = "components" -> ComponentsInstalled(w)
    [] check = "source"     -> SourceContract(t)
    [] check = "generated"  -> GeneratedDeclared(t)
    [] check = "license"    -> LicenseRecognised(t)
    [] check = "survey"     -> SurveyClean(t, w, accepted)

\* _activate_toolchain: before the checks, the Java and the Node that a release
\* needs are put first on the PATH if the host has them.
Resolved(w) == [w EXCEPT !.java = IF w.hasJava THEN 17 ELSE @, !.node = IF w.hasNode THEN 24 ELSE @]

\* Mutant: the check of the captured commits is left out.
StartGateOfHost(t, w, accepted) ==
  \A check \in Elements(Checks) \ {"source"} : Passes(check, t, Resolved(w), accepted)

StartGate(t, w, accepted) == \A check \in Elements(Checks) : Passes(check, t, Resolved(w), accepted)
ResumeGate(stage, t, w, accepted) == \A check \in ResumeChecks(stage) : Passes(check, t, Resolved(w), accepted)

----------------------------------------------------------------------------
(* What the preparation itself demands of the captured commits. *)

\* ReleaseWorkspacePreparer.prepare: the helper that wires the public CEE, the
\* retained registry behind every lock.
WiringAccepts(t) == t.captured.helper /\ ~t.captured.strayPins

\* _stamp_docker_build, _replace_default, _stamp_docker_deploy: every image names
\* its version, every default is there exactly once.
DockerStampingAccepts(t, variant) ==
  /\ "dockerbuild" \in ReleaseRepositories(t) =>
       /\ ImageVariables \subseteq t.captured.images
       /\ \A v \in DockerDefaults(t, variant) : t.captured.defaults[v] = 1
  /\ "deploy" \in ReleaseRepositories(t) => t.captured.env.exact

\* _stamp_maven, _stamp_npm_surface, _stamp_development, the Docker stamping,
\* _stamp_next_development_files.
StampingAccepts(t, variant) ==
  LET c == t.captured
      release == ReleaseRepositories(t)
  IN /\ t.build.maven \cap release # {} => c.poms.exact /\ c.swagger = 1
     /\ \A surface \in NpmSurfaces["app"] :
          c.npm[surface] = [package |-> t.release, lock |-> t.release, root |-> t.release]
     /\ "development" \in release => c.environment
     /\ DockerStampingAccepts(t, variant)
     /\ variant = "next" /\ DevelopmentOnly(t) # {} => c.conformance = 1
     /\ c.baselines # "empty"

\* The change set is exact: what may change must change, so a consumer that
\* already was as the wiring makes it is refused.
ChangesAreExact(t) == ~t.captured.alreadyWired
================================================================================
