------------------------- MODULE MCReleasePreparation -------------------------
(***************************************************************************)
(* ReleasePreparation with a small estate: a Maven server that is also a   *)
(* CEE consumer, an application, the Docker and environment repositories,  *)
(* and the two independent ones.  Each train is the good one with one      *)
(* alteration: of a package, of a record, or of a captured commit.         *)
(***************************************************************************)
EXTENDS ReleasePreparation, TLC

----------------------------------------------------------------------------
(* The CEE packages. *)

Mark(n, value) == [count |-> n, value |-> value]
Bundle(version, trace, model, code) ==
  [code |-> code, names |-> trace,
   marks |-> [version |-> Mark(1, version), trace |-> Mark(1, trace), model |-> Mark(1, model),
              tokens |-> Mark(1, "pin"), scripts |-> Mark(0, "policy")]]
Describing(package) ==
  [package EXCEPT !.manifests = [p \in DOMAIN @ |-> IF p \in DOMAIN package.bundles
                                                    THEN [@[p] EXCEPT !.of = package.bundles[p]] ELSE @[p]]]
Package(name, version, config, trace, model, log) ==
  LET bundle == Bundle(version, trace, model, "code") IN
    [complete |-> TRUE, identity |-> <<name, version>>, publishConfig |-> config, lock |-> <<name, version>>,
     changelog |-> log, other |-> [types |-> "types"],
     bundles |-> [main |-> bundle, host |-> bundle, integration |-> bundle],
     manifests |-> [main |-> [of |-> bundle], host |-> [of |-> bundle],
                    integration |-> [of |-> bundle, runtimes |-> "rt",
                                     model |-> [version |-> model, bytes |-> [sha |-> model, runtime |-> "run"]]]]]
Log(entries, models, rest) == [entries |-> entries, models |-> models, rest |-> rest]
Dev == Package("dev", "dv", "nexus", "monday", "md", Log(0, {}, "log"))
Public == Package("public", "pv", None, "tuesday", "mp", Log(1, {"mp"}, "log"))
Models == [md |-> [sha |-> "md", runtime |-> "run"], mp |-> [sha |-> "mp", runtime |-> "run"],
           mx |-> [sha |-> "mx", runtime |-> "other"]]

InBundles(package, pairs, change(_)) ==
  Describing([package EXCEPT !.bundles = [p \in DOMAIN @ |-> IF p \in pairs THEN change(@[p]) ELSE @[p]]])
Recoded(b) == [b EXCEPT !.code = "other code"]
Doubled(b) == [b EXCEPT !.marks.version.count = 2]
Traceless(b) == [b EXCEPT !.marks.trace = Mark(0, "none")]
TwoModels(b) == [b EXCEPT !.marks.model.count = 2]
Modelless(b) == [b EXCEPT !.marks.model = Mark(0, "none")]
Tokenless(b) == [b EXCEPT !.marks.tokens = Mark(0, "none")]
Repinned(b) == [b EXCEPT !.marks.tokens.value = "other pin"]
WithPolicy(b) == [b EXCEPT !.marks.scripts.count = 1]
All == {"main", "host", "integration"}
Without(package, pair) ==
  [package EXCEPT !.bundles = [p \in DOMAIN @ \ {pair} |-> @[p]], !.manifests = [p \in DOMAIN @ \ {pair} |-> @[p]]]
OtherModel(package) ==
  [package EXCEPT !.manifests["integration"].model = [version |-> "mx", bytes |-> Models["mx"]],
                  !.changelog = Log(1, {"mx"}, "log")]

PublicVariants ==
  << InBundles(Public, {"main"}, Recoded), InBundles(Public, {"host"}, Recoded),
     InBundles(Public, {"integration"}, Recoded), InBundles(Public, {"host"}, Doubled),
     InBundles(Public, {"main"}, Traceless), InBundles(Public, {"main"}, TwoModels),
     InBundles(Public, All, Tokenless), InBundles(Public, All, Repinned), InBundles(Public, All, Modelless),
     Without(Public, "host"), [Public EXCEPT !.bundles["host"] = Recoded(@)],
     [Public EXCEPT !.complete = FALSE], [Public EXCEPT !.lock = <<>>],
     [Public EXCEPT !.lock = <<"public", "x">>], [Public EXCEPT !.publishConfig = "nexus"],
     [Public EXCEPT !.other["types"] = "new types"], [Public EXCEPT !.changelog.rest = "rewritten"],
     [Public EXCEPT !.changelog.entries = 2], [Public EXCEPT !.changelog.models = {"mp", "mx"}],
     [Public EXCEPT !.manifests["integration"].runtimes = "new"], OtherModel(Public) >>

----------------------------------------------------------------------------
(* The train. *)

Repositories == {"server", "app", "dockerbuild", "deploy", "development", "model", "cee"}
Revisions == [r \in Repositories |-> 1]
TrainId == [base |-> 2, id |-> "t"]
Stamped(version) == [package |-> version, lock |-> version, root |-> version]
Facts ==
  [inputs |-> {"package", "lock", "preserved", "consumer", "consumerLock"}, mvnw |-> "executable",
   unreviewedScripts |-> FALSE, npm |-> [src |-> Stamped(2), dist |-> Stamped(2)],
   poms |-> [suffix |-> TRUE, exact |-> TRUE], swagger |-> 1, undeclared |-> FALSE, environment |-> TRUE,
   images |-> ImageVariables, defaults |-> [frontend |-> 1, registry |-> 1], conformance |-> 1,
   env |-> [suffix |-> TRUE, exact |-> TRUE], publishesTo |-> "train", license |-> "year",
   workflows |-> {"app", "server"}, helper |-> TRUE, strayPins |-> FALSE, baselines |-> "listed",
   alreadyWired |-> FALSE, produced |-> {"library"}, parentVersion |-> 2, packable |-> TRUE,
   installPolicy |-> None, ceeVersion |-> "cv", tokens |-> "committed pin", pins |-> [model |-> 1]]

\* CEE's CI built the same commit under the committed version and pin, on a Sunday.
Restamp(package) ==
  LET at(b) == [b EXCEPT !.marks.version.value = "cv", !.marks.tokens.value = "committed pin",
                         !.marks.trace.value = "sunday", !.names = "sunday"]
  IN [InBundles(package, DOMAIN package.bundles, at) EXCEPT !.identity = <<"dev", "ci">>, !.lock = <<"dev", "ci">>]

BuiltTrain(dev, public, facts) ==
  LET source == [train |-> TrainId, sourceVersion |-> 2, revisions |-> Revisions]
      npmPlan == [train |-> TrainId, source |-> source,
                  consumers |-> (<<"app", "">> :> 1) @@ (<<"server", "demo">> :> 1),
                  cee |-> [name |-> "dev", version |-> "dv", revision |-> 1], tokens |-> "pin",
                  components |-> {[name |-> "tokens", repository |-> "app", revision |-> 1]},
                  model |-> {[name |-> "model", repository |-> "model", revision |-> 1]}]
      recorded(bytes) == [bytes |-> bytes, revision |-> 1]
      kept(bytes) == [bytes |-> bytes, registry |-> Retained]
      npmDone == [train |-> TrainId, source |-> source, plan |-> npmPlan, registry |-> Retained,
                  packages |-> [cee |-> recorded(dev), tokens |-> recorded("tb"), model |-> recorded("mb")],
                  retained |-> [tokens |-> kept("tb"), model |-> kept("mb")], inputs |-> {"frontend"}]
      dockerPlan == [train |-> TrainId, source |-> source, npmPlan |-> npmPlan, images |-> <<"one", "two">>]
  IN [release |-> 2, next |-> 3, train |-> TrainId, source |-> source, completion |-> [train |-> TrainId],
      npmPlan |-> npmPlan, npmDone |-> npmDone, dockerPlan |-> dockerPlan,
      dockerDone |-> [train |-> TrainId, source |-> source, npmPlan |-> npmPlan, plan |-> TrainId,
                      images |-> <<"one", "two">>, digests |-> TRUE],
      frontend |-> [consumers |-> <<[kind |-> "frontend", repository |-> "app", manifest |-> "src"],
                                    [kind |-> "additional", repository |-> "server", manifest |-> "demo"]>>,
                    modelConsumers |-> {"app"}],
      build |-> [repositories |-> Repositories, maven |-> {"server"}, phases |-> <<"server">>, required |-> {"library"}],
      served |-> [cee |-> dev, tokens |-> "tb", model |-> "mb"],
      public |-> [version |-> "pv", recorded |-> public, served |-> public],
      models |-> Models, captured |-> facts,
      rehearsed |-> [version |-> "ci", package |-> Restamp(dev)]]
Sound == BuiltTrain(Dev, Public, Facts)

ByPackage == [n \in DOMAIN PublicVariants |-> BuiltTrain(Dev, PublicVariants[n], Facts)]
ByRecord ==
  << [Sound EXCEPT !.next = 2], [Sound EXCEPT !.release = 1], [Sound EXCEPT !.completion.train.id = "u"],
     [Sound EXCEPT !.npmPlan.source.train.id = "u"], [Sound EXCEPT !.npmDone.plan.tokens = "new"],
     [Sound EXCEPT !.npmDone.source.revisions["app"] = 2], [Sound EXCEPT !.dockerPlan.source.revisions["app"] = 2],
     [Sound EXCEPT !.dockerDone.npmPlan.tokens = "new"], [Sound EXCEPT !.dockerDone.images = <<"one">>],
     [Sound EXCEPT !.dockerDone.digests = FALSE], [Sound EXCEPT !.build.repositories = @ \ {"deploy"}],
     [Sound EXCEPT !.build.phases = <<"app">>], [Sound EXCEPT !.frontend.consumers = <<>>],
     [Sound EXCEPT !.frontend.consumers = Tail(@)], [Sound EXCEPT !.frontend.consumers = Append(@, @[1])],
     [Sound EXCEPT !.npmPlan.cee.revision = 2], [Sound EXCEPT !.served["cee"] = InBundles(Dev, {"host"}, Recoded)],
     [Sound EXCEPT !.served["tokens"] = "zz"], [Sound EXCEPT !.npmDone.retained["model"].registry = "train"],
     [Sound EXCEPT !.npmDone.packages["model"].revision = 2], [Sound EXCEPT !.public = Missing],
     \* CEE pins a model behind the train's: what its CI built is another package.
     [BuiltTrain(InBundles(Dev, {"main"}, Recoded), Public, [Facts EXCEPT !.pins["model"] = 0])
        EXCEPT !.rehearsed.package = Restamp(Dev)],
     BuiltTrain(InBundles(Dev, All, WithPolicy), Public, [Facts EXCEPT !.installPolicy = "policy"]),
     BuiltTrain(Dev, InBundles(Public, All, WithPolicy), [Facts EXCEPT !.installPolicy = "policy"]) >>
ByFact ==
  LET With(facts) == [Sound EXCEPT !.captured = facts] IN
  << With([Facts EXCEPT !.inputs = @ \ {"consumerLock"}]), With([Facts EXCEPT !.inputs = @ \ {"preserved"}]),
     With([Facts EXCEPT !.mvnw = "plain"]), With([Facts EXCEPT !.unreviewedScripts = TRUE]),
     With([Facts EXCEPT !.npm["dist"].root = 1]), With([Facts EXCEPT !.poms = [suffix |-> FALSE, exact |-> FALSE]]),
     With([Facts EXCEPT !.poms.exact = FALSE]), With([Facts EXCEPT !.swagger = 0]), With([Facts EXCEPT !.swagger = 2]),
     With([Facts EXCEPT !.undeclared = TRUE]), With([Facts EXCEPT !.environment = FALSE]),
     With([Facts EXCEPT !.images = {"image"}]), With([Facts EXCEPT !.defaults["registry"] = 0]),
     With([Facts EXCEPT !.defaults["frontend"] = 2]), With([Facts EXCEPT !.conformance = 0]),
     With([Facts EXCEPT !.env.exact = FALSE]), With([Facts EXCEPT !.env = [suffix |-> FALSE, exact |-> FALSE]]),
     With([Facts EXCEPT !.publishesTo = "npmjs"]), With([Facts EXCEPT !.license = "unrecognised"]),
     With([Facts EXCEPT !.helper = FALSE]), With([Facts EXCEPT !.strayPins = TRUE]),
     With([Facts EXCEPT !.baselines = "empty"]), With([Facts EXCEPT !.baselines = "absent"]),
     With([Facts EXCEPT !.alreadyWired = TRUE]), With([Facts EXCEPT !.packable = FALSE]),
     With([Facts EXCEPT !.parentVersion = 3]), With([Facts EXCEPT !.produced = {}]) >>
MCTrains == <<Sound>> \o ByPackage \o ByRecord \o ByFact

----------------------------------------------------------------------------
(* The world, and what may be wrong with it. *)

GoodWorld ==
  [active |-> None, tools |-> TRUE, java |-> 17, node |-> 24, hasJava |-> FALSE, hasNode |-> FALSE,
   mongo |-> FALSE, profile |-> TRUE, free |-> 40,
   trees |-> [r \in Repositories |-> [branch |-> "develop", modified |-> FALSE, unpushed |-> FALSE]],
   author |-> FALSE, authors |-> Repositories, credentials |-> TRUE,
   nexus |-> [authenticated |-> TRUE, writable |-> TRUE, reads |-> TRUE], npmLogins |-> {"train", Retained},
   npmConfig |-> TRUE, refusing |-> {}, taken |-> {}, mavenTaken |-> FALSE, npmTaken |-> {},
   ci |-> [r \in Repositories |-> <<"cancelled", "success">>], smoke |-> {[passed |-> TRUE, heads |-> Revisions]},
   components |-> TRUE, mainOnly |-> [r \in Repositories |-> FALSE]]
MCWorlds ==
  [good |-> GoodWorld, tools |-> [GoodWorld EXCEPT !.tools = FALSE], java |-> [GoodWorld EXCEPT !.java = 21],
   node |-> [GoodWorld EXCEPT !.node = 22, !.hasNode = TRUE], mongo |-> [GoodWorld EXCEPT !.mongo = TRUE],
   full |-> [GoodWorld EXCEPT !.free = 20], dirty |-> [GoodWorld EXCEPT !.trees["app"].modified = TRUE],
   author |-> [GoodWorld EXCEPT !.authors = {}], nexus |-> [GoodWorld EXCEPT !.nexus.writable = FALSE],
   logins |-> [GoodWorld EXCEPT !.npmLogins = {"train"}], push |-> [GoodWorld EXCEPT !.refusing = {"model"}],
   taken |-> [GoodWorld EXCEPT !.taken = {"server"}], published |-> [GoodWorld EXCEPT !.npmTaken = {"app"}],
   red |-> [GoodWorld EXCEPT !.ci["app"] = <<"failure">>], unseen |-> [GoodWorld EXCEPT !.ci["app"] = <<"cancelled">>],
   smoke |-> [GoodWorld EXCEPT !.smoke = {[passed |-> TRUE, heads |-> [Revisions EXCEPT !["app"] = 2]]}],
   hotfix |-> [GoodWorld EXCEPT !.mainOnly["app"] = TRUE], host |-> [GoodWorld EXCEPT !.components = FALSE]]

MCAcceptances ==
  {[red |-> [r \in Repositories |-> 0], mainOnly |-> {}],
   [red |-> [r \in Repositories |-> 1], mainOnly |-> {"app"}]}
================================================================================
