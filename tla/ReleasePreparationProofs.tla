------------------------ MODULE ReleasePreparationProofs ------------------------
(***************************************************************************)
(* What TLAPS proves of the preparation of a release, for any trains and   *)
(* worlds and any number of crashes, breaks and foreign writes.            *)
(***************************************************************************)
EXTENDS ReleasePreparation, TLAPS

----------------------------------------------------------------------------
(* The inductive invariant. *)

FrontendSteps == {"clone", "wire", "sealWiring"}
VersionSteps == {"cloneNext", "copy", "stamp", "sealVersion"}
BuildSteps == {"completed", "build", "recordBuild"}
SpreadSteps == {"materialize"} \cup Spreading
RefSteps == {"verifyRefs", "ref", "commit", "verifyCommit", "clean", "tag"}
Sealing == {"builds", "local-refs", "prepared"}

\* The contents of a whole tree or commit, and the hashes of some of its files.
Trees == [FileNames -> Contents]
Seals(map) ==
  /\ map = [v \in Workspaces |-> map[v]]
  /\ \A v \in Workspaces :
       DOMAIN map[v] \subseteq FileNames /\ map[v] = [f \in DOMAIN map[v] |-> map[v][f]]

MemType ==
  /\ mem = [v |-> mem.v, seal |-> mem.seal, kept |-> mem.kept]
  /\ mem.v \in {1, 2} /\ mem.kept \in Contents /\ Seals(mem.seal)

LedgerType ==
  /\ accepted \in Acceptances /\ wired \in Contents \cup {Nothing}
  /\ Seals(sealed) /\ Seals(spread)
  /\ built \in [Workspaces -> Contents \cup {Nothing}]
  /\ refs \in [Workspaces -> Trees \cup {<<>>}]

WorkspaceType ==
  /\ tree \in [Workspaces -> Trees] /\ output \in [Workspaces -> Contents]
  /\ branch \in [Workspaces -> Trees \cup {<<>>}]

HistoryType ==
  /\ breaks \in Nat /\ writes \in Nat /\ crashes \in Nat
  /\ breaks + writes + crashes <= MaxFaults

\* Where the controller can be in each stage.
ControlInv ==
  /\ pc \in {"idle"} \cup FrontendSteps \cup VersionSteps \cup BuildSteps \cup SpreadSteps \cup RefSteps
  /\ stage \in Before \cup Elements(Stages)
  /\ pc \in FrontendSteps => stage = "frontends"
  /\ pc \in VersionSteps => stage = "versions"
  /\ pc \in BuildSteps => stage = "builds"
  /\ pc \in SpreadSteps \cup RefSteps => stage = "local-refs"
  /\ pc \in {"idle", "cloneNext", "copy", "completed", "verifyRefs"} \cup FrontendSteps => mem = Fresh
  /\ pc \in RefSteps => Materialized
  /\ pc \in Spreading \/ (pc = "materialize" /\ mem.v = 2) => ~Materialized
  /\ Materialized => stage \in {"local-refs", "prepared"}
  /\ stage = "prepared" => Materialized

\* What a step relies on: records of the variant that came before, and a ref is
\* recorded of a branch that has its commit.
RecordInv ==
  /\ pc \in {"stamp", "sealVersion"} \cup SpreadSteps /\ mem.v = 2 => mem.seal["release"] # <<>>
  /\ pc \in {"build", "recordBuild"} /\ mem.v = 2 => built["release"] # Nothing
  /\ pc \in RefSteps /\ mem.v = 2 => refs["release"] # <<>>
  /\ pc = "commit" => branch[V] = <<>>
  /\ pc \in {"verifyCommit", "clean", "tag"} => branch[V] # <<>>
  /\ pc \in {"commit", "verifyCommit", "clean", "tag"} => refs[V] = <<>>
  /\ stage \notin Sealing => \A v \in Workspaces : built[v] = Nothing
  /\ \A v \in Workspaces :
       /\ stage \in Sealing => sealed[v] # <<>>
       /\ stage \in {"local-refs", "prepared"} => built[v] # Nothing
       /\ stage = "prepared" => refs[v] # <<>>
       /\ branch[v] # <<>> => Materialized
       /\ refs[v] # <<>> => refs[v] = branch[v]
  /\ tag = refs["release"]

Base == MemType /\ LedgerType /\ WorkspaceType /\ HistoryType /\ ControlInv /\ RecordInv

\* What is spread and sealed is the validated build, unless somebody wrote into
\* the variant while its build was copied.
SealedBuild(v, seal) ==
  /\ "bundle" \in DOMAIN seal
  /\ raced \/ (seal["bundle"] = built[v] /\ "source" \notin DOMAIN seal /\ "stray" \notin DOMAIN seal)

SpreadInv ==
  /\ Materialized => \A v \in Workspaces : SealedBuild(v, sealed[v])
  /\ pc \in SpreadSteps /\ mem.v = 2 => SealedBuild("release", mem.seal["release"])
  /\ pc \in Spreading /\ ~raced =>
       /\ tree[V]["source"] = {} /\ tree[V]["stray"] = Absent /\ output[V] = built[V]
       /\ pc = "sealSpread" => tree[V]["bundle"] = built[V]

\* How many writes it takes to get other content than what was sealed into a
\* commit, past its verification, and past the look at the working tree.
Strays(v) == {f \in DOMAIN sealed[v] : branch[v][f] # sealed[v][f]}

CommitInv ==
  /\ pc = "commit" => \A f \in DOMAIN sealed[V] : tree[V][f] # sealed[V][f] => writes >= 1
  /\ \A v \in Workspaces : branch[v] # <<>> =>
       /\ \A f \in FileNames \ DOMAIN sealed[v] : branch[v][f] = Captured[f]
       /\ \A f \in Strays(v) :
            /\ writes >= 1
            /\ tree[v][f] # branch[v][f] => writes >= 2
            /\ pc = "clean" /\ v = V => writes >= 2 /\ (tree[v][f] = branch[v][f] => writes >= 3)
            /\ (pc = "tag" /\ v = V) \/ refs[v] # <<>> => writes >= 3

\* What everything is as long as nobody writes, wherever the controller dies.
WiredTree == [Captured EXCEPT !["consumer"] = {"wired"}]
StampedTree(v) == [Captured EXCEPT !["consumer"] = {"wired", v}, !["meta"] = {v}]
Packed == {"built", "wired"}
FinalTree(v) == [StampedTree(v) EXCEPT !["bundle"] = Packed]
VersionSeal(v) == [f \in {"consumer", "meta"} |-> StampedTree(v)[f]]
FinalSeal(v) == [f \in {"consumer", "meta", "bundle"} |-> FinalTree(v)[f]]

PureVersions ==
  /\ stage \notin Before \cup {"frontends"} => wired = {"wired"}
  /\ pc = "wire" => tree["release"] = Captured
  /\ pc = "sealWiring" \/ (stage = "versions" /\ pc \notin {"stamp", "sealVersion"}) => tree["release"] = WiredTree
  /\ pc = "copy" => tree["next"] = Captured
  /\ pc = "stamp" => tree[V] = WiredTree
  /\ pc = "sealVersion" => tree[V] = StampedTree(V)
  /\ pc \in {"stamp", "sealVersion"} =>
       IF mem.v = 1 THEN tree["next"] = WiredTree
       ELSE tree["release"] = StampedTree("release") /\ mem.seal["release"] = VersionSeal("release")

PureVariant(v) ==
  /\ tree[v]["consumer"] = {"wired", v} /\ tree[v]["source"] = {} /\ tree[v]["stray"] = Absent
  /\ tree[v]["meta"] \in {{v}, Absent}
  /\ tree[v]["meta"] = Absent => (pc = "restore" /\ v = V) \/ crashes > 0
  /\ built[v] \in {Nothing, Packed}
  /\ built[v] # Nothing => output[v] = Packed
  /\ stage = "builds" => tree[v] = StampedTree(v)
  /\ IF Materialized
     THEN /\ tree[v] = FinalTree(v) /\ sealed[v] = FinalSeal(v)
          /\ spread[v] = [f \in Distribution |-> FinalTree(v)[f]]
     ELSE sealed[v] = VersionSeal(v)
  /\ branch[v] # <<>> => branch[v] = FinalTree(v)

PureSpread ==
  /\ pc = "recordBuild" => output[V] = Packed
  /\ pc \in Spreading => mem.kept = {V}
  /\ pc \in {"delete", "spread", "sealSpread"} => tree[V]["meta"] = {V}
  /\ pc = "sealSpread" => tree[V] = FinalTree(V)
  /\ pc \in SpreadSteps /\ mem.v = 2 =>
       tree["release"] = FinalTree("release") /\ mem.seal["release"] = FinalSeal("release")

PureVariants == stage \in Sealing => \A v \in Workspaces : PureVariant(v)
PureInv == writes = 0 => PureVersions /\ PureSpread /\ PureVariants

\* What was asked before the release started.
GateInv ==
  /\ \E name \in DOMAIN Trains : train = Trains[name]
  /\ stage \notin {"readiness", "rehearsal", "plan"} => PlanAccepts(T)
  /\ stage \notin Before => StartGate(T, Good, accepted)
  /\ stage \in Before \/ breaks = 0 => world = Good

IInv ==
  /\ Base /\ SpreadInv /\ CommitInv /\ PureInv
  /\ GateInv /\ SettledInTheFirstMinute

----------------------------------------------------------------------------
(* Facts about the constants and the helpers. *)

\* The two variants of a release, in the order in which they are prepared.
LEMMA TheVariants ==
  /\ Workspaces = {"release", "next"} /\ DOMAIN Variants = {1, 2} /\ Len(Variants) = 2
  /\ Variants[1] = "release" /\ Variants[2] = "next"
  /\ Elements(Stages) = {"frontends", "versions", "builds", "local-refs", "prepared"}
BY DEF Workspaces, Variants, Elements, Stages

\* The variant of a step, and whether another follows.
LEMMA VariantAt ==
  ASSUME mem.v \in {1, 2}
  PROVE  /\ V \in Workspaces /\ V \in {"release", "next"}
         /\ HasNext <=> mem.v = 1
         /\ mem.v = 1 <=> V = "release"
         /\ mem.v = 2 <=> V = "next"
BY TheVariants DEF V, HasNext

\* Contents are closed under what the steps do to them.
LEMMA ContentFacts ==
  /\ {} \in Contents /\ Absent \in Contents /\ {"wired"} \in Contents /\ {"foreign"} \in Contents
  /\ {"built"} \in Contents /\ {"release"} \in Contents /\ {"next"} \in Contents
  /\ \A c, d \in Contents : c \cup d \in Contents
  /\ \A c \in Contents : \A d : c \cap d \in Contents /\ c \ d \in Contents
  /\ Nothing \notin Contents /\ {} # Absent
BY DEF Contents, Absent, Nothing

\* The captured tree is one, and the empty record of no commit is none.
LEMMA TreeFacts ==
  /\ Captured \in Trees /\ NoTree \in Trees /\ <<>> \notin Trees
  /\ Distribution \subseteq FileNames
<1>1. <<>> \notin Trees
  <2>1. \A t \in Trees : DOMAIN t = FileNames /\ "meta" \in DOMAIN t
    BY DEF Trees, FileNames
  <2>2. DOMAIN <<>> = {}
    OBVIOUS
  <2> QED BY <2>1, <2>2
<1> QED BY <1>1, ContentFacts DEF Captured, NoTree, Trees, FileNames, Distribution


----------------------------------------------------------------------------
(* The plan. *)

\* A public package that compares equal to the development package runs the same
\* code (compare_cee_packages): a bundle that changed was normalised and found
\* equal, and normalising touches nothing but its marks.
LEMMA EqualIsPromotion ==
  ASSUME NEW dev, NEW public, NEW context,
         Bundled(dev), Bundled(public), ComparesEqual(dev, public, context)
  PROVE  IsPromotion(dev, public)
<1>1. DOMAIN dev.bundles = DOMAIN public.bundles
  BY DEF ComparesEqual, Files
<1>2. ASSUME NEW pair \in DOMAIN dev.bundles
      PROVE  dev.bundles[pair].code = public.bundles[pair].code
  <2>1. pair \in BundlePairs(dev)
    BY DEF Bundled, BundlePairs
  <2>2. CASE dev.bundles[pair] = public.bundles[pair]
    BY <2>2
  <2>3. CASE dev.bundles[pair] # public.bundles[pair]
    <3> DEFINE carried == Carried(dev.bundles[pair], public.bundles[pair], context)
               d == dev.bundles[pair]
               p == public.bundles[pair]
    <3>1. AlphaEquivalent(Normalized(d, carried), Normalized(p, carried))
      BY <2>1, <2>3 DEF ComparesEqual, ChangedBundles, BundlesAgree
    <3>2. "code" \in DOMAIN d /\ "code" \in DOMAIN p
      BY <1>1 DEF Bundled
    <3> HIDE DEF carried, d, p
    <3>3. Normalized(d, carried).code = d.code /\ Normalized(p, carried).code = p.code
      BY <3>2 DEF Normalized
    <3>4. d.code = p.code
      BY <3>1, <3>3 DEF AlphaEquivalent
    <3> QED BY <3>4 DEF d, p
  <2> QED BY <2>2, <2>3
<1>3. ASSUME NEW pair \in DOMAIN public.manifests
      PROVE  public.manifests[pair].of = public.bundles[pair]
  <2>1. pair \in BundlePairs(public)
    BY DEF Bundled, BundlePairs
  <2> QED BY <2>1 DEF ComparesEqual, VerifyBundle
<1>4. "integration" \in DOMAIN dev.manifests =>
        dev.manifests["integration"].model.bytes.runtime = public.manifests["integration"].model.bytes.runtime
  BY DEF ComparesEqual, IntegrationAgrees
<1> QED BY <1>1, <1>2, <1>3, <1>4 DEF IsPromotion, ComparesEqual

\* What the plan accepts is proven (ReleasePlanner.build): the records chain to
\* one source, and what is wired was built of the captured commits.
LEMMA AcceptedIsProven ==
  ASSUME NEW name \in DOMAIN Trains, T = Trains[name], PlanAccepts(T)
  PROVE  /\ IsPromotion(T.served["cee"], T.public.served)
         /\ \A record \in {T.npmPlan, T.npmDone, T.dockerPlan, T.dockerDone} : record.source = T.source
         /\ \A record \in {T.dockerPlan, T.dockerDone} : record.npmPlan = T.npmDone.plan
         /\ \A component \in Wired(T) :
              /\ T.served[component.name] = T.npmDone.packages[component.name].bytes
              /\ component.revision = T.source.revisions[component.repository]
<1>1. IsPromotion(T.served["cee"], T.public.served)
  <2>1. Bundled(T.served["cee"]) /\ Bundled(T.public.served)
    BY TrainsAssumption DEF PlanAccepts, CeeAgrees
  <2>2. ComparesEqual(T.served["cee"], T.public.served, Context(T))
    BY DEF PlanAccepts
  <2> QED BY <2>1, <2>2, EqualIsPromotion
<1>2. /\ \A record \in {T.npmPlan, T.npmDone, T.dockerPlan, T.dockerDone} : record.source = T.source
      /\ \A record \in {T.dockerPlan, T.dockerDone} : record.npmPlan = T.npmDone.plan
  BY DEF PlanAccepts, NpmRecordsAgree, DockerRecordsAgree
<1>3. ASSUME NEW component \in Wired(T)
      PROVE  /\ T.served[component.name] = T.npmDone.packages[component.name].bytes
             /\ component.revision = T.source.revisions[component.repository]
  <2>1. RetainedCopy(T, component)
    BY DEF PlanAccepts, ComponentsRetained
  <2> QED BY <2>1 DEF RetainedCopy
<1> QED BY <1>1, <1>2, <1>3

----------------------------------------------------------------------------
(* The rehearsal: two builds of one source compare alike.                   *)

\* What a pair is proved of, of one build, it is proved of the other.
LEMMA SameCodeAgrees ==
  ASSUME NEW b, NEW d, NEW p, NEW from, NEW to, NEW version, NEW model,
         {"code", "marks"} \subseteq DOMAIN b, {"code", "marks"} \subseteq DOMAIN d,
         \A mark \in Marks : Count(b, mark) \in Nat,
         \A mark \in Marks : Count(p, mark) \in Nat,
         from.scripts = to.scripts, (from.tokens = None) = (to.tokens = None),
         SameCode(b, d, from, to), BundlesAgree(b, p, from, version, model)
  PROVE BundlesAgree(d, p, to, version, model)
PROOF
<1>1. \A mark \in Marks : Count(d, mark) = Count(b, mark)
  BY DEF SameCode, Restamped, Count, Marks
<1>2. Carried(d, p, to) = Carried(b, p, from)
  <2>1. \A mark \in {"tokens", "scripts"} :
          (to[mark] # None /\ Count(d, mark) + Count(p, mark) > 0)
            <=> (from[mark] # None /\ Count(b, mark) + Count(p, mark) > 0)
    <3>1. from["scripts"] = to["scripts"] /\ (from["tokens"] = None) = (to["tokens"] = None)
      OBVIOUS
    <3>2. \A mark \in {"tokens", "scripts"} : Count(d, mark) = Count(b, mark)
      BY <1>1 DEF Marks
    <3>. QED BY <3>1, <3>2
  <2>2. Count(d, "model") = Count(b, "model")
    BY <1>1 DEF Marks
  <2>. QED BY <2>1, <2>2 DEF Carried
<1>. DEFINE carried == Carried(b, p, from)
<1>3. ProvenanceAgrees(d, p, to, version, model)
  <2>. SUFFICES ASSUME NEW mark \in carried
                PROVE CASE mark = "version" -> Once(d, mark, to.version) /\ Once(p, mark, version)
                        [] mark = "trace"   -> Count(d, mark) = 1 /\ Count(p, mark) = 1
                        [] mark = "model"   -> Count(d, mark) = 1 /\ Once(p, mark, model)
                        [] mark = "tokens"  -> Once(d, mark, to.tokens) /\ Count(p, mark) = 1
                        [] mark = "scripts" -> Count(d, mark) = 1 /\ Count(p, mark) <= 1
    BY <1>2 DEF ProvenanceAgrees
  <2>1. (CASE mark = "version" -> Once(b, mark, from.version) /\ Once(p, mark, version)
           [] mark = "trace"   -> Count(b, mark) = 1 /\ Count(p, mark) = 1
           [] mark = "model"   -> Count(b, mark) = 1 /\ Once(p, mark, model)
           [] mark = "tokens"  -> Once(b, mark, from.tokens) /\ Count(p, mark) = 1
           [] mark = "scripts" -> Count(b, mark) = 1 /\ Count(p, mark) <= 1)
    BY DEF BundlesAgree, ProvenanceAgrees
  <2>2. mark \in Marks
    BY DEF Carried, Marks
  <2>3. CASE mark = "version"
    <3>1. Once(b, "version", from.version) /\ Once(p, "version", version)
      BY <2>1, <2>3
    <3>2. d.marks["version"] = Restamped([count |-> 1, value |-> from.version], from.version, to.version)
      BY <3>1 DEF SameCode, Once
    <3>. QED BY <2>3, <3>1, <3>2 DEF Once, Restamped
  <2>4. CASE mark = "tokens"
    <3>1. Once(b, "tokens", from.tokens) /\ Count(p, "tokens") = 1
      BY <2>1, <2>4
    <3>2. d.marks["tokens"] = Restamped([count |-> 1, value |-> from.tokens], from.tokens, to.tokens)
      BY <3>1 DEF SameCode, Once
    <3>. QED BY <2>4, <3>1, <3>2 DEF Once, Restamped
  <2>5. CASE mark \in {"trace", "model", "scripts"}
    BY <1>1, <2>1, <2>2, <2>5
  <2>. QED BY <2>2, <2>3, <2>4, <2>5 DEF Marks
<1>4. AlphaEquivalent(Normalized(b, carried), Normalized(p, carried))
  BY DEF BundlesAgree
<1>5. Normalized(d, carried).code = Normalized(b, carried).code
  BY DEF Normalized, SameCode
<1>6. Normalized(d, carried).marks = Normalized(b, carried).marks
  <2>1. \A mark \in Marks \ carried : d.marks[mark] = b.marks[mark]
    <3>. SUFFICES ASSUME NEW mark \in Marks \ carried PROVE d.marks[mark] = b.marks[mark]
      OBVIOUS
    <3>1. CASE mark \in {"model", "scripts"}
      BY <3>1 DEF SameCode
    <3>2. CASE mark = "tokens"
      <4>1. from.tokens = None \/ ~(Count(b, "tokens") + Count(p, "tokens") > 0)
        BY <3>2 DEF Carried
      <4>2. Count(b, "tokens") \in Nat /\ Count(p, "tokens") \in Nat
        BY DEF Marks
      <4>3. from.tokens = None \/ ~(b.marks["tokens"].count > 0)
        BY <4>1, <4>2 DEF Count
      <4>. QED BY <3>2, <4>3 DEF SameCode, Restamped
    <3>. QED BY <3>1, <3>2 DEF Marks, Carried
  <2>2. Normalized(d, carried).marks = [mark \in Marks |-> IF mark \in carried THEN None ELSE d.marks[mark]]
    BY DEF Normalized
  <2>3. Normalized(b, carried).marks = [mark \in Marks |-> IF mark \in carried THEN None ELSE b.marks[mark]]
    BY DEF Normalized
  <2>. QED BY <2>1, <2>2, <2>3
<1>. QED BY <1>2, <1>3, <1>4, <1>5, <1>6 DEF BundlesAgree, AlphaEquivalent

\* A public package that is proved a promotion of one build, and was not built in
\* the minute of either, is proved one of every other build of its source.
LEMMA SameSourceCompares ==
  ASSUME NEW former, NEW dev, NEW public, NEW from, NEW to,
         Bundled(former), Bundled(dev), Bundled(public),
         SameSource(former, dev, from, to), BuiltApart(former, public), BuiltApart(dev, public),
         from.devName = to.devName, from.publicName = to.publicName, from.publicVersion = to.publicVersion,
         from.scripts = to.scripts, from.loader = to.loader, (from.tokens = None) = (to.tokens = None),
         ComparesEqual(former, public, from)
  PROVE ComparesEqual(dev, public, to)
PROOF
<1>1. BundlePairs(dev) = BundlePairs(former)
  BY DEF BundlePairs, SameSource
<1>2. VerifyBundle(dev)
  <2>1. \A pair \in BundlePairs(former) :
          /\ pair \in DOMAIN former.bundles /\ pair \in DOMAIN former.manifests
          /\ former.manifests[pair].of = former.bundles[pair]
    BY DEF ComparesEqual, VerifyBundle
  <2>. QED BY <1>1, <2>1 DEF VerifyBundle, SameSource
<1>3. Files(former) = Files(public) /\ Files(dev) = Files(public)
  <2>1. Files(former) = Files(public)
    BY DEF ComparesEqual
  <2>2. (dev.lock = <<>>) = (former.lock = <<>>)
    BY DEF ComparesEqual, SameSource, Renamed, MetadataAgrees
  <2>3. DOMAIN dev.other = DOMAIN former.other
    BY DEF SameSource
  <2>4. Files(dev) = Files(former)
    BY <2>2, <2>3 DEF Files, SameSource
  <2>. QED BY <2>1, <2>4
<1>4. MetadataAgrees(dev, to.devName, to.devVersion, "nexus")
  <2>1. former.identity = <<from.devName, from.devVersion>> /\ former.publishConfig = "nexus"
        /\ (former.lock = <<>> \/ former.lock = <<from.devName, from.devVersion>>)
    BY DEF ComparesEqual, MetadataAgrees
  <2>. QED BY <2>1 DEF SameSource, MetadataAgrees, Renamed
<1>5. IntegrationAgrees(dev, public, to.loader)
  <2>1. IntegrationAgrees(former, public, to.loader)
    BY DEF ComparesEqual
  <2>. SUFFICES ASSUME "integration" \in DOMAIN dev.manifests PROVE IntegrationAgrees(dev, public, to.loader)
    BY DEF IntegrationAgrees
  <2>. DEFINE d == dev.manifests["integration"]
              b == former.manifests["integration"]
              p == public.manifests["integration"]
  <2>2. d.model = b.model /\ d.runtimes = b.runtimes /\ "integration" \in DOMAIN former.manifests
    BY DEF SameSource
  <2>3. /\ DeclaresModel(public)
        /\ \A manifest \in {b, p} :
             manifest.model.version \in DOMAIN to.loader /\ manifest.model.bytes = to.loader[manifest.model.version]
        /\ p.model.version = PublicModel(public)
        /\ b.model.bytes.runtime = p.model.bytes.runtime
        /\ b.runtimes = p.runtimes
    BY <2>1, <2>2 DEF IntegrationAgrees
  <2>4. \A manifest \in {d, p} :
          manifest.model.version \in DOMAIN to.loader /\ manifest.model.bytes = to.loader[manifest.model.version]
    BY <2>2, <2>3
  <2>. QED BY <2>2, <2>3, <2>4 DEF IntegrationAgrees
<1>6. \A pair \in BundlePairs(dev) :
        /\ pair \in DOMAIN dev.bundles /\ pair \in DOMAIN public.bundles
        /\ pair \in DOMAIN former.bundles
        /\ pair \in DOMAIN dev.manifests /\ pair \in DOMAIN public.manifests
  <2>1. DOMAIN dev.bundles = DOMAIN public.bundles /\ DOMAIN dev.manifests = DOMAIN public.manifests
    BY <1>3 DEF Files
  <2>. QED BY <1>2, <2>1 DEF VerifyBundle, SameSource
<1>7. \A pair \in BundlePairs(dev) :
        dev.bundles[pair] # public.bundles[pair] /\ former.bundles[pair] # public.bundles[pair]
  BY <1>6 DEF BuiltApart
<1>8. \A pair \in BundlePairs(dev) : dev.manifests[pair] # public.manifests[pair]
  <2>1. VerifyBundle(public)
    BY DEF ComparesEqual
  <2>2. \A pair \in BundlePairs(dev) : pair \in BundlePairs(public)
    BY <1>6 DEF BundlePairs
  <2>. QED BY <1>2, <1>7, <2>1, <2>2 DEF VerifyBundle
<1>9. ChangedBundles(dev, public) = BundlePairs(dev) /\ ChangedManifests(dev, public) = BundlePairs(dev)
  BY <1>7, <1>8 DEF ChangedBundles, ChangedManifests
<1>10. BundlePairs(former) \subseteq ChangedBundles(former, public) \cup ChangedManifests(former, public)
  BY <1>1, <1>7 DEF ChangedBundles
<1>11. Main \in BundlePairs(dev)
  BY DEF BundlePairs
<1>12. DeclaresModel(public)
       /\ \A pair \in BundlePairs(dev) :
            BundlesAgree(former.bundles[pair], public.bundles[pair], from, from.publicVersion, PublicModel(public))
  BY <1>1, <1>10, <1>11 DEF ComparesEqual
<1>13. \A pair \in BundlePairs(dev) :
         BundlesAgree(dev.bundles[pair], public.bundles[pair], to, to.publicVersion, PublicModel(public))
  <2>. SUFFICES ASSUME NEW pair \in BundlePairs(dev)
                PROVE BundlesAgree(dev.bundles[pair], public.bundles[pair], to, to.publicVersion, PublicModel(public))
    OBVIOUS
  <2>1. SameCode(former.bundles[pair], dev.bundles[pair], from, to)
    BY <1>6 DEF SameSource
  <2>2. /\ {"code", "marks"} \subseteq DOMAIN former.bundles[pair]
        /\ {"code", "marks"} \subseteq DOMAIN dev.bundles[pair]
        /\ \A mark \in Marks : Count(former.bundles[pair], mark) \in Nat
        /\ \A mark \in Marks : Count(public.bundles[pair], mark) \in Nat
    BY <1>6 DEF Bundled, Count
  <2>. QED BY <1>12, <2>1, <2>2, SameCodeAgrees
<1>14. /\ dev.complete /\ public.complete /\ VerifyBundle(public)
       /\ MetadataAgrees(public, to.publicName, to.publicVersion, None)
       /\ dev.other = public.other
       /\ dev.changelog # public.changelog => DeclaresModel(public) /\ dev.changelog.rest = public.changelog.rest
                                              /\ dev.changelog.entries = 0
  BY DEF ComparesEqual, SameSource
<1>. QED
  BY <1>2, <1>3, <1>4, <1>5, <1>9, <1>12, <1>13, <1>14 DEF ComparesEqual

----------------------------------------------------------------------------
(* Types, and where the controller can be. *)

\* The initial state is typed.
LEMMA BaseInit == Init => Base
<1> SUFFICES ASSUME Init PROVE Base
  OBVIOUS
<1>0. Seals(NoSeal)
  BY TheVariants DEF Seals, NoSeal
<1>1. MemType
  BY <1>0, ContentFacts DEF Init, MemType, Fresh
<1>2. LedgerType
  BY <1>0 DEF Init, LedgerType
<1>3. WorkspaceType
  BY TreeFacts, ContentFacts DEF Init, WorkspaceType
<1>4. HistoryType
  <2>1. breaks = 0 /\ writes = 0 /\ crashes = 0
    BY DEF Init
  <2> QED BY <2>1, BoundsAssumption DEF HistoryType
<1>5. ControlInv
  BY DEF Init, ControlInv, FrontendSteps, VersionSteps, BuildSteps, SpreadSteps, Spreading, RefSteps,
         Fresh, Materialized, Before
<1>6. RecordInv
  BY TheVariants DEF Init, RecordInv, Sealing, SpreadSteps, Spreading, RefSteps, Fresh
<1> QED BY <1>1, <1>2, <1>3, <1>4, <1>5, <1>6 DEF Base

\* The type invariant of the module, from the parts that are inductive.
LEMMA BaseTypes == Base => TypeOK
BY TheVariants DEF Base, TypeOK, MemType, LedgerType, WorkspaceType, HistoryType, ControlInv, RecordInv, Trees,
   Sealing, Before

\* A record without seals is one of them, and a seal can be added to it.
LEMMA FreshSeal == Seals(NoSeal)
BY TheVariants DEF Seals, NoSeal

LEMMA ChangesAreFiles == \A v : Changes(v) \in SUBSET FileNames
BY DEF Changes

LEMMA PutSeal ==
  ASSUME NEW map, Seals(map), NEW v \in Workspaces, NEW names \in SUBSET FileNames
  PROVE  Seals([map EXCEPT ![v] = Restrict(v, names)])
BY TheVariants DEF Seals, Restrict

\* A tree with another content of one of its files.
LEMMA PutFile ==
  ASSUME tree \in [Workspaces -> Trees], NEW v \in Workspaces, NEW f \in FileNames, NEW c \in Contents
  PROVE  [tree EXCEPT ![v][f] = c] \in [Workspaces -> Trees]
BY DEF Trees

\* The content of a file.
LEMMA GotFile ==
  ASSUME tree \in [Workspaces -> Trees], NEW v \in Workspaces, NEW f \in FileNames
  PROVE  tree[v][f] \in Contents
BY DEF Trees

\* The locals once the release variant is sealed.
LEMMA NextMem ==
  ASSUME MemType, mem.v = 1, NEW s
  PROVE  [mem EXCEPT !.v = @ + 1, !.seal = s] = [v |-> 2, seal |-> s, kept |-> mem.kept]
<1> DEFINE seal == mem.seal
           kept == mem.kept
<1>1. mem = [v |-> 1, seal |-> seal, kept |-> kept]
  BY DEF MemType
<1> HIDE DEF seal, kept
<1> DEFINE next == [mem EXCEPT !.v = 2, !.seal = s]
<1>2. next \in [v : {2}, seal : {s}, kept : {kept}]
  BY <1>1
<1> HIDE DEF next
<1>3. next = [v |-> 2, seal |-> s, kept |-> kept]
  BY <1>2
<1>4. [mem EXCEPT !.v = @ + 1, !.seal = s] = [mem EXCEPT !.v = mem.v + 1, !.seal = s]
  OBVIOUS
<1>5. [mem EXCEPT !.v = mem.v + 1, !.seal = s] = next
  BY DEF next
<1> QED BY <1>3, <1>4, <1>5 DEF kept

\* What is sealed is not empty.
LEMMA SealIsNotEmpty ==
  ASSUME NEW v, NEW names, names # {}
  PROVE  Restrict(v, names) # <<>>
BY DEF Restrict

\* A step keeps the types: of the locals,
LEMMA StepMemType == Base /\ [Next]_vars => MemType'
<1> SUFFICES ASSUME Base, [Next]_vars PROVE MemType'
  OBVIOUS
<1>0. mem.v \in {1, 2} /\ V \in Workspaces
  BY TheVariants, VariantAt DEF Base, MemType
<1> USE <1>0, TheVariants, VariantAt, ContentFacts, PutSeal, FreshSeal
    DEF Base, MemType, LedgerType, WorkspaceType, ControlInv, Refuse, vars, world_, ledger, workspace,
        history, bounds, Goto, Stop, NextStage, Fresh
<1>1. CASE Ready \/ Rehearse \/ Plan \/ Start
  BY <1>1 DEF Ready, Ask, Rehearse, Plan, Start
<1>2. CASE Resume \/ Clone \/ Wire \/ SealWiring
  BY <1>2 DEF Resume, Clone, Wire, SealWiring
<1>3. CASE CloneNext \/ CopyConsumers \/ Stamp
  BY <1>3 DEF CloneNext, CopyConsumers, Stamp
<1>4. CASE SealVersion
  <2>1. CASE Refuse
    BY <2>1
  <2>2. CASE ~Refuse /\ HasNext
    <3> DEFINE s == [mem.seal EXCEPT ![V] = Restrict(V, Changes(V))]
    <3>1. Seals(s)
      BY PutSeal, ChangesAreFiles
    <3>2. mem' = [mem EXCEPT !.v = @ + 1, !.seal = s]
      BY <1>4, <2>2 DEF SealVersion
    <3> HIDE DEF s
    <3>3. mem' = [v |-> 2, seal |-> s, kept |-> mem.kept]
      BY <2>2, <3>2, NextMem
    <3> QED BY <3>1, <3>3
  <2>3. CASE ~Refuse /\ ~HasNext
    BY <1>4, <2>3 DEF SealVersion
  <2> QED BY <2>1, <2>2, <2>3
<1>5. CASE Completed \/ SkipBuilt \/ Build \/ RecordBuild
  BY <1>5 DEF Completed, SkipBuilt, Build, RecordBuild
<1>6. CASE BeginMaterialize
  <2>1. tree[V].meta \in Contents
    BY DEF WorkspaceType, Trees, FileNames
  <2>2. CASE Refuse
    BY <2>2
  <2>3. CASE ~Refuse /\ pc' = "delete"
    <3>1. mem' = [mem EXCEPT !.kept = tree[V].meta]
      BY <1>6, <2>3 DEF BeginMaterialize
    <3> QED BY <2>1, <3>1
  <2>4. CASE ~Refuse /\ pc' # "delete"
    BY <1>6, <2>4 DEF BeginMaterialize
  <2> QED BY <2>2, <2>3, <2>4
<1>7. CASE Delete
  BY <1>7 DEF Delete
<1>8. CASE Restore
  BY <1>8 DEF Restore
<1>9. CASE CopyBuild
  BY <1>9 DEF CopyBuild
<1>10. CASE SealSpread
  <2>1. CASE Refuse
    BY <2>1
  <2>2. CASE ~Refuse /\ HasNext
    <3> DEFINE s == [mem.seal EXCEPT ![V] = Restrict(V, Changes(V))]
    <3>1. Seals(s)
      BY PutSeal, ChangesAreFiles
    <3>2. mem' = [mem EXCEPT !.v = @ + 1, !.seal = s]
      BY <1>10, <2>2 DEF SealSpread
    <3> HIDE DEF s
    <3>3. mem' = [v |-> 2, seal |-> s, kept |-> mem.kept]
      BY <2>2, <3>2, NextMem
    <3> QED BY <3>1, <3>3
  <2>3. CASE ~Refuse /\ ~HasNext
    BY <1>10, <2>3 DEF SealSpread
  <2> QED BY <2>1, <2>2, <2>3
<1>11. CASE VerifyRefs \/ SkipRef \/ PrepareCommit
  BY <1>11 DEF VerifyRefs, SkipRef, PrepareCommit
<1>12. CASE Commit
  BY <1>12 DEF Commit
<1>13. CASE VerifyCommit \/ VerifyClean \/ Tag \/ Crash
  BY <1>13 DEF VerifyCommit, VerifyClean, Tag, Crash
<1>14. CASE Repair
  BY <1>14 DEF Repair
<1>15. ASSUME NEW w \in DOMAIN Worlds, Break(w) PROVE MemType'
  BY <1>15 DEF Break, HasFaults
<1>16. ASSUME NEW v \in Workspaces, NEW f \in FileNames, Write(v, f) PROVE MemType'
  BY <1>16 DEF Write, HasFaults
<1>17. ASSUME NEW v \in Workspaces, NEW f \in FileNames, Undo(v, f) PROVE MemType'
  BY <1>17 DEF Undo, HasFaults
<1>18. CASE UNCHANGED vars
  BY <1>18
<1> QED BY <1>1, <1>2, <1>3, <1>4, <1>5, <1>6, <1>7, <1>8, <1>9, <1>10, <1>11, <1>12, <1>13, <1>14,
  <1>15, <1>16, <1>17, <1>18 DEF Next, Controller, Others

\* ... of the ledger,
LEMMA StepLedgerType == Base /\ [Next]_vars => LedgerType'
<1> SUFFICES ASSUME Base, [Next]_vars PROVE LedgerType'
  OBVIOUS
<1>0. mem.v \in {1, 2} /\ V \in Workspaces
  BY TheVariants, VariantAt DEF Base, MemType
<1> USE <1>0, TheVariants, VariantAt, ContentFacts, PutSeal
    DEF Base, LedgerType, MemType, WorkspaceType, ControlInv, RecordInv, Refuse, vars, world_, ledger,
        workspace, history, bounds, Goto, Stop, NextStage, Fresh
<1>1. CASE Ready \/ Rehearse \/ Plan \/ Start
  BY <1>1 DEF Ready, Ask, Rehearse, Plan, Start
<1>2. CASE Resume \/ Clone \/ Wire
  BY <1>2 DEF Resume, Clone, Wire
<1>3. CASE SealWiring
  <2>1. tree["release"].consumer \in Contents
    BY DEF WorkspaceType, Trees, FileNames
  <2> QED BY <1>3, <2>1 DEF SealWiring
<1>4. CASE CloneNext \/ CopyConsumers \/ Stamp
  BY <1>4 DEF CloneNext, CopyConsumers, Stamp
<1>5. CASE SealVersion
  <2>1. CASE Refuse
    BY <2>1
  <2>2. CASE ~Refuse
    <3> DEFINE s == [mem.seal EXCEPT ![V] = Restrict(V, Changes(V))]
    <3>1. Seals(s)
      BY PutSeal, ChangesAreFiles DEF MemType
    <3> HIDE DEF s
    <3>2. (sealed' = sealed \/ sealed' = s) /\ UNCHANGED <<accepted, wired, spread, built, refs>>
      BY <1>5, <2>2 DEF SealVersion, s
    <3> QED BY <1>5, <2>2, <3>1, <3>2 DEF SealVersion
  <2> QED BY <2>1, <2>2
<1>6. CASE Completed \/ SkipBuilt \/ Build \/ RecordBuild
  BY <1>6 DEF Completed, SkipBuilt, Build, RecordBuild
<1>7. CASE BeginMaterialize
  BY <1>7 DEF BeginMaterialize
<1>8. CASE Delete
  BY <1>8 DEF Delete
<1>9. CASE Restore
  BY <1>9 DEF Restore
<1>10. CASE CopyBuild
  BY <1>10 DEF CopyBuild
<1>11. CASE SealSpread
  <2>1. CASE Refuse
    BY <2>1
  <2>2. CASE ~Refuse
    <3> DEFINE s == [mem.seal EXCEPT ![V] = Restrict(V, Changes(V))]
    <3>1. Seals(s)
      BY PutSeal, ChangesAreFiles DEF MemType
    <3> HIDE DEF s
    <3>2. (sealed' = sealed \/ sealed' = s) /\ UNCHANGED <<accepted, wired, built, refs>>
      BY <1>11, <2>2 DEF SealSpread, s
    <3>3. spread' = spread \/ spread' = [w \in Workspaces |-> [f \in Distribution |-> tree[w][f]]]
      BY <1>11, <2>2 DEF SealSpread
    <3>4. Seals([w \in Workspaces |-> [f \in Distribution |-> tree[w][f]]])
      BY TreeFacts DEF Seals
    <3> QED BY <1>11, <2>2, <3>1, <3>2, <3>3, <3>4 DEF SealSpread
  <2> QED BY <2>1, <2>2
<1>12. CASE VerifyRefs \/ SkipRef \/ PrepareCommit
  BY <1>12 DEF VerifyRefs, SkipRef, PrepareCommit
<1>13. CASE Commit
  BY <1>13 DEF Commit
<1>14. CASE VerifyCommit \/ VerifyClean \/ Tag \/ Crash
  BY <1>14 DEF VerifyCommit, VerifyClean, Tag, Crash
<1>15. CASE Repair
  BY <1>15 DEF Repair
<1>16. ASSUME NEW w \in DOMAIN Worlds, Break(w) PROVE LedgerType'
  BY <1>16 DEF Break, HasFaults
<1>17. ASSUME NEW v \in Workspaces, NEW f \in FileNames, Write(v, f) PROVE LedgerType'
  BY <1>17 DEF Write, HasFaults
<1>18. ASSUME NEW v \in Workspaces, NEW f \in FileNames, Undo(v, f) PROVE LedgerType'
  BY <1>18 DEF Undo, HasFaults
<1>19. CASE UNCHANGED vars
  BY <1>19
<1> QED BY <1>1, <1>2, <1>3, <1>4, <1>5, <1>6, <1>7, <1>8, <1>9, <1>10, <1>11, <1>12, <1>13, <1>14,
  <1>15, <1>16, <1>17, <1>18, <1>19 DEF Next, Controller, Others

\* ... of the workspaces, their builds and branches,
LEMMA StepWorkspaceType == Base /\ [Next]_vars => WorkspaceType'
<1> SUFFICES ASSUME Base, [Next]_vars PROVE WorkspaceType'
  OBVIOUS
<1>0. mem.v \in {1, 2} /\ V \in Workspaces
  BY TheVariants, VariantAt DEF Base, MemType
<1> USE <1>0, TheVariants, VariantAt, ContentFacts, TreeFacts
    DEF Base, WorkspaceType, LedgerType, MemType, ControlInv, Refuse, Trees, vars, world_, ledger,
        workspace, history, bounds, Goto, Stop, NextStage, Fresh
<1>1. CASE Ready \/ Rehearse
  BY <1>1 DEF Ready, Ask, Rehearse
<1>2. CASE Plan \/ Start
  BY <1>2 DEF Plan, Ask, Start
<1>3. CASE Resume \/ Clone
  BY <1>3 DEF Resume, Clone
<1>4. CASE Wire
  <2>1. CASE Refuse
    BY <2>1
  <2>2. CASE ~Refuse
    <3>1. (tree["release"]["consumer"] \cup {"wired"}) \in Contents
      BY GotFile DEF FileNames
    <3>2. tree' = [tree EXCEPT !["release"]["consumer"] = (tree["release"]["consumer"] \cup {"wired"})]
      BY <1>4, <2>2 DEF Wire
    <3>3. tree' \in [Workspaces -> Trees]
      BY <3>1, <3>2, PutFile DEF FileNames
    <3> QED BY <1>4, <2>2, <3>3 DEF Wire
  <2> QED BY <2>1, <2>2
<1>5. CASE SealWiring \/ CloneNext
  BY <1>5 DEF SealWiring, CloneNext
<1>6. CASE CopyConsumers
  <2>1. CASE Refuse
    BY <2>1
  <2>2. CASE ~Refuse
    <3>1. wired \in Contents
      BY <1>6, <2>2, GotFile DEF CopyConsumers, FileNames
    <3>2. tree' = [tree EXCEPT !["next"]["consumer"] = wired]
      BY <1>6, <2>2 DEF CopyConsumers
    <3>3. tree' \in [Workspaces -> Trees]
      BY <3>1, <3>2, PutFile DEF FileNames
    <3> QED BY <1>6, <2>2, <3>3 DEF CopyConsumers
  <2> QED BY <2>1, <2>2
<1>7. CASE Stamp
  <2>1. CASE Refuse
    BY <2>1
  <2>2. CASE ~Refuse
    <3> DEFINE c == tree[V]["consumer"] \cup {V}
               m == tree[V]["meta"] \cup {V}
               stamped == [tree[V] EXCEPT !["consumer"] = c, !["meta"] = m]
    <3>1. c \in Contents /\ m \in Contents
      BY GotFile DEF FileNames
    <3>2. tree' = [tree EXCEPT ![V] = stamped]
      BY <1>7, <2>2, TheVariants DEF Stamp, WorkspaceType
    <3>3. stamped \in Trees
      BY <3>1 DEF Trees, WorkspaceType
    <3> QED BY <1>7, <2>2, <3>2, <3>3 DEF Stamp, WorkspaceType
  <2> QED BY <2>1, <2>2
<1>8. CASE SealVersion \/ Completed
  BY <1>8 DEF SealVersion, Completed
<1>9. CASE SkipBuilt
  BY <1>9 DEF SkipBuilt
<1>10. CASE Build
  <2>1. CASE Refuse
    BY <2>1
  <2>2. CASE ~Refuse
    <3> DEFINE c == {"built"} \cup ((tree[V]["consumer"] \cup tree[V]["source"]) \cap {"wired", "foreign"})
    <3>1. tree[V]["consumer"] \in Contents /\ tree[V]["source"] \in Contents
      BY GotFile DEF FileNames
    <3>2. c \in Contents
      BY <3>1
    <3>3. output' = [output EXCEPT ![V] = c] /\ UNCHANGED <<tree, branch>>
      BY <1>10, <2>2 DEF Build
    <3> HIDE DEF c
    <3> QED BY <3>2, <3>3
  <2> QED BY <2>1, <2>2
<1>11. CASE RecordBuild \/ BeginMaterialize
  BY <1>11 DEF RecordBuild, BeginMaterialize
<1>12. CASE Delete
  BY <1>12 DEF Delete
<1>13. CASE Restore
  BY <1>13 DEF Restore
<1>14. CASE CopyBuild
  BY <1>14 DEF CopyBuild
<1>15. CASE SealSpread \/ VerifyRefs
  BY <1>15 DEF SealSpread, VerifyRefs
<1>16. CASE SkipRef \/ PrepareCommit
  BY <1>16 DEF SkipRef, PrepareCommit
<1>17. CASE Commit
  BY <1>17 DEF Commit
<1>18. CASE VerifyCommit \/ VerifyClean
  BY <1>18 DEF VerifyCommit, VerifyClean
<1>19. CASE Tag \/ Crash
  BY <1>19 DEF Tag, Crash
<1>20. CASE Repair
  BY <1>20 DEF Repair
<1>21. ASSUME NEW w \in DOMAIN Worlds, Break(w) PROVE WorkspaceType'
  BY <1>21 DEF Break, HasFaults
<1>22. ASSUME NEW v \in Workspaces, NEW f \in FileNames, Write(v, f) PROVE WorkspaceType'
  <2> DEFINE c == (tree[v][f] \ Absent) \cup {"foreign"}
             o == output[v] \cup {"foreign"}
  <2>1. c \in Contents /\ o \in Contents
    BY GotFile
  <2>2. tree' = tree \/ tree' = [tree EXCEPT ![v][f] = c]
    BY <1>22 DEF Write
  <2>3. (output' = output \/ output' = [output EXCEPT ![v] = o]) /\ branch' = branch
    BY <1>22 DEF Write
  <2> HIDE DEF c, o
  <2>4. [tree EXCEPT ![v][f] = c] \in [Workspaces -> Trees]
    BY <2>1, PutFile DEF WorkspaceType
  <2>5. tree' \in [Workspaces -> Trees]
    BY <2>2, <2>4 DEF WorkspaceType
  <2>6. output' \in [Workspaces -> Contents]
    BY <2>1, <2>3 DEF WorkspaceType
  <2> QED BY <2>3, <2>5, <2>6
<1>23. ASSUME NEW v \in Workspaces, NEW f \in FileNames, Undo(v, f) PROVE WorkspaceType'
  <2> DEFINE c == IF tree[v][f] \ {"foreign"} = {} /\ f = "stray" THEN Absent ELSE tree[v][f] \ {"foreign"}
  <2>1. c \in Contents
    BY GotFile
  <2>2. tree' = [tree EXCEPT ![v][f] = c]
    BY <1>23 DEF Undo
  <2>3. tree' \in [Workspaces -> Trees]
    BY <2>1, <2>2, PutFile
  <2> QED BY <1>23, <2>3 DEF Undo
<1>24. CASE UNCHANGED vars
  BY <1>24
<1> QED BY <1>1, <1>2, <1>3, <1>4, <1>5, <1>6, <1>7, <1>8, <1>9, <1>10, <1>11, <1>12, <1>13, <1>14,
  <1>15, <1>16, <1>17, <1>18, <1>19, <1>20, <1>21, <1>22, <1>23, <1>24 DEF Next, Controller, Others

\* ... and of the counters, which stay within their bound.
LEMMA StepHistoryType == Base /\ [Next]_vars => HistoryType'
<1> SUFFICES ASSUME Base, [Next]_vars PROVE HistoryType'
  OBVIOUS
<1>0. mem.v \in {1, 2} /\ V \in Workspaces
  BY TheVariants, VariantAt DEF Base, MemType
<1> USE <1>0, BoundsAssumption
    DEF Base, HistoryType, Refuse, HasFaults, vars, world_, ledger, workspace, history, bounds, Goto,
        Stop, NextStage
<1>1. CASE Ready \/ Rehearse \/ Plan \/ Start
  BY <1>1 DEF Ready, Ask, Rehearse, Plan, Start
<1>2. CASE Resume \/ Clone \/ Wire \/ SealWiring
  BY <1>2 DEF Resume, Clone, Wire, SealWiring
<1>3. CASE CloneNext \/ CopyConsumers \/ Stamp \/ SealVersion
  BY <1>3 DEF CloneNext, CopyConsumers, Stamp, SealVersion
<1>4. CASE Completed \/ SkipBuilt \/ Build \/ RecordBuild
  BY <1>4 DEF Completed, SkipBuilt, Build, RecordBuild
<1>5. CASE BeginMaterialize
  BY <1>5 DEF BeginMaterialize
<1>6. CASE Delete
  BY <1>6 DEF Delete
<1>7. CASE Restore
  BY <1>7 DEF Restore
<1>8. CASE CopyBuild
  BY <1>8 DEF CopyBuild
<1>9. CASE SealSpread \/ VerifyRefs \/ SkipRef \/ PrepareCommit
  BY <1>9 DEF SealSpread, VerifyRefs, SkipRef, PrepareCommit
<1>10. CASE Commit
  BY <1>10 DEF Commit
<1>11. CASE VerifyCommit \/ VerifyClean \/ Tag \/ Crash
  BY <1>11 DEF VerifyCommit, VerifyClean, Tag, Crash
<1>12. CASE Repair
  BY <1>12 DEF Repair
<1>13. ASSUME NEW w \in DOMAIN Worlds, Break(w) PROVE HistoryType'
  BY <1>13 DEF Break, HasFaults
<1>14. ASSUME NEW v \in Workspaces, NEW f \in FileNames, Write(v, f) PROVE HistoryType'
  BY <1>14 DEF Write, HasFaults
<1>15. ASSUME NEW v \in Workspaces, NEW f \in FileNames, Undo(v, f) PROVE HistoryType'
  BY <1>15 DEF Undo, HasFaults
<1>16. CASE UNCHANGED vars
  BY <1>16
<1> QED BY <1>1, <1>2, <1>3, <1>4, <1>5, <1>6, <1>7, <1>8, <1>9, <1>10, <1>11, <1>12, <1>13, <1>14,
  <1>15, <1>16 DEF Next, Controller, Others

\* A step leads to a place of its stage (the guards of the steps),
LEMMA StepControlInv == Base /\ [Next]_vars => ControlInv'
<1> SUFFICES ASSUME Base, [Next]_vars PROVE ControlInv'
  OBVIOUS
<1>0. mem.v \in {1, 2} /\ V \in Workspaces
  BY TheVariants, VariantAt DEF Base, MemType
<1> USE <1>0, TheVariants, VariantAt
    DEF Base, ControlInv, Refuse, Rewound, Materialized, MemType, V, Before, Sealing, FrontendSteps,
        VersionSteps, BuildSteps, SpreadSteps, Spreading, RefSteps, vars, world_, ledger, workspace,
        history, bounds, Goto, Stop, NextStage, Fresh
<1>a. ASSUME Refuse PROVE ControlInv'
  BY <1>a DEF Refuse, Rewound
<1>1. CASE Ready \/ Rehearse \/ Plan \/ Start
  BY <1>1 DEF Ready, Ask, Rehearse, Plan, Start
<1>2. CASE Resume \/ Clone \/ Wire \/ SealWiring
  BY <1>2, <1>a DEF Resume, FirstStep, Clone, Wire, SealWiring
<1>3. CASE CloneNext \/ CopyConsumers \/ Stamp \/ SealVersion
  BY <1>3 DEF CloneNext, CopyConsumers, Stamp, SealVersion
<1>4. CASE Completed \/ SkipBuilt \/ Build \/ RecordBuild
  BY <1>4 DEF Completed, SkipBuilt, Build, RecordBuild
<1>5. CASE BeginMaterialize
  BY <1>5 DEF BeginMaterialize
<1>6. CASE Delete
  BY <1>6 DEF Delete
<1>7. CASE Restore
  BY <1>7 DEF Restore
<1>8. CASE CopyBuild
  BY <1>8 DEF CopyBuild
<1>9. CASE SealSpread
  <2>1. CASE Refuse
    BY <2>1
  <2>2. CASE ~Refuse /\ HasNext
    BY <1>9, <2>2 DEF SealSpread
  <2>3. CASE ~Refuse /\ ~HasNext
    <3>1. spread' = [w \in Workspaces |-> [f \in Distribution |-> tree[w][f]]]
      BY <1>9, <2>3 DEF SealSpread
    <3>2. spread'["release"] # <<>>
      BY <3>1, TheVariants DEF Distribution
    <3>3. spread' # NoSeal
      BY <3>2, TheVariants DEF NoSeal
    <3> QED BY <1>9, <2>3, <3>3 DEF SealSpread
  <2> QED BY <2>1, <2>2, <2>3
<1>10. CASE VerifyRefs \/ SkipRef \/ PrepareCommit
  BY <1>10 DEF VerifyRefs, SkipRef, PrepareCommit
<1>11. CASE Commit
  BY <1>11 DEF Commit
<1>12. CASE VerifyCommit \/ VerifyClean \/ Tag \/ Crash
  BY <1>12 DEF VerifyCommit, VerifyClean, Tag, Crash
<1>13. CASE Repair
  BY <1>13 DEF Repair
<1>14. ASSUME NEW w \in DOMAIN Worlds, Break(w) PROVE ControlInv'
  BY <1>14 DEF Break, HasFaults
<1>15. ASSUME NEW v \in Workspaces, NEW f \in FileNames, Write(v, f) PROVE ControlInv'
  BY <1>15 DEF Write, HasFaults
<1>16. ASSUME NEW v \in Workspaces, NEW f \in FileNames, Undo(v, f) PROVE ControlInv'
  BY <1>16 DEF Undo, HasFaults
<1>17. CASE UNCHANGED vars
  BY <1>17
<1> QED BY <1>1, <1>2, <1>3, <1>4, <1>5, <1>6, <1>7, <1>8, <1>9, <1>10, <1>11, <1>12, <1>13, <1>14,
  <1>15, <1>16, <1>17 DEF Next, Controller, Others

\* ... and leaves the records that the next steps rely on.
LEMMA StepRecordInv == Base /\ [Next]_vars => RecordInv'
<1> SUFFICES ASSUME Base, [Next]_vars PROVE RecordInv'
  OBVIOUS
<1>0. mem.v \in {1, 2} /\ V \in Workspaces
  BY TheVariants, VariantAt DEF Base, MemType
<1> USE <1>0, TheVariants, VariantAt
    DEF Base, RecordInv, MemType, LedgerType, WorkspaceType, ControlInv, Refuse, Rewound, Materialized,
        V, Seals, Before, Sealing, FrontendSteps, VersionSteps, BuildSteps, SpreadSteps, Spreading,
        RefSteps, vars, world_, ledger, workspace, history, bounds, Goto, Stop, NextStage, Fresh
<1>a. ASSUME Refuse PROVE RecordInv'
  BY <1>a DEF Refuse, Rewound
<1>1. CASE Ready \/ Rehearse
  BY <1>1 DEF Ready, Ask, Rehearse
<1>2. CASE Plan \/ Start
  BY <1>2 DEF Plan, Ask, Start
<1>3. CASE Resume \/ Clone
  BY <1>3, <1>a DEF Resume, FirstStep, Clone
<1>4. CASE Wire \/ SealWiring
  BY <1>4 DEF Wire, SealWiring
<1>5. CASE CloneNext \/ CopyConsumers
  BY <1>5 DEF CloneNext, CopyConsumers
<1>6. CASE Stamp
  BY <1>6 DEF Stamp
<1>7. CASE SealVersion
  <2>1. CASE Refuse
    BY <2>1
  <2>2. CASE ~Refuse
    <3> DEFINE new == Restrict(V, Changes(V))
               s == [mem.seal EXCEPT ![V] = new]
    <3>1. Changes(V) # {}
      BY <1>7, <2>2 DEF SealVersion
    <3>2. new # <<>>
      BY <3>1, SealIsNotEmpty
    <3>3. IF HasNext THEN mem'.seal = s /\ mem'.v = 2 /\ UNCHANGED <<stage, sealed>>
          ELSE sealed' = s
      <4>1. HasNext => mem' = [mem EXCEPT !.v = @ + 1, !.seal = s] /\ UNCHANGED <<stage, sealed>>
        BY <1>7, <2>2 DEF SealVersion
      <4>2. ~HasNext => sealed' = s
        BY <1>7, <2>2 DEF SealVersion
      <4>3. HasNext => mem' = [v |-> 2, seal |-> s, kept |-> mem.kept]
        BY <4>1, NextMem
      <4> HIDE DEF s, new
      <4> QED BY <4>1, <4>2, <4>3
    <3> HIDE DEF new
    <3>4. s[V] # <<>> /\ (mem.v = 2 => s["release"] # <<>>)
      BY <1>7, <3>2 DEF SealVersion
    <3> HIDE DEF s
    <3>5. CASE HasNext
      BY <1>7, <2>2, <3>3, <3>4, <3>5 DEF SealVersion
    <3>6. CASE ~HasNext
      BY <1>7, <2>2, <3>3, <3>4, <3>6 DEF SealVersion
    <3> QED BY <3>5, <3>6
  <2> QED BY <2>1, <2>2
<1>8. CASE Completed \/ SkipBuilt
  BY <1>8 DEF Completed, SkipBuilt
<1>9. CASE Build \/ RecordBuild
  BY <1>9 DEF Build, RecordBuild
<1>10. CASE BeginMaterialize
  BY <1>10 DEF BeginMaterialize
<1>11. CASE Delete
  BY <1>11 DEF Delete
<1>12. CASE Restore
  BY <1>12 DEF Restore
<1>13. CASE CopyBuild
  BY <1>13 DEF CopyBuild
<1>14. CASE SealSpread
  <2>1. CASE Refuse
    BY <2>1
  <2>2. CASE ~Refuse
    <3> DEFINE new == Restrict(V, Changes(V))
               s == [mem.seal EXCEPT ![V] = new]
    <3>1. Changes(V) # {}
      <4>1. "wired" \in tree[V].bundle
        BY <1>14, <2>2 DEF SealSpread, ServesCee
      <4> QED BY <4>1 DEF Changes, FileNames, Captured
    <3>2. new # <<>>
      BY <3>1, SealIsNotEmpty
    <3>3. IF HasNext THEN mem'.seal = s /\ mem'.v = 2 /\ UNCHANGED <<stage, sealed>>
          ELSE sealed' = s
      <4>1. HasNext => mem' = [mem EXCEPT !.v = @ + 1, !.seal = s] /\ UNCHANGED <<stage, sealed>>
        BY <1>14, <2>2 DEF SealSpread
      <4>2. ~HasNext => sealed' = s
        BY <1>14, <2>2 DEF SealSpread
      <4>3. HasNext => mem' = [v |-> 2, seal |-> s, kept |-> mem.kept]
        BY <4>1, NextMem
      <4> HIDE DEF s, new
      <4> QED BY <4>1, <4>2, <4>3
    <3> HIDE DEF new
    <3>4. s[V] # <<>> /\ (mem.v = 2 => s["release"] # <<>>)
      BY <1>14, <3>2 DEF SealSpread
    <3> HIDE DEF s
    <3>5. CASE HasNext
      BY <1>14, <2>2, <3>3, <3>4, <3>5 DEF SealSpread
    <3>6. CASE ~HasNext
      BY <1>14, <2>2, <3>3, <3>4, <3>6 DEF SealSpread
    <3> QED BY <3>5, <3>6
  <2> QED BY <2>1, <2>2
<1>15. CASE VerifyRefs \/ SkipRef
  BY <1>15 DEF VerifyRefs, SkipRef
<1>16. CASE PrepareCommit
  BY <1>16 DEF PrepareCommit
<1>17. CASE Commit
  <2>1. branch'[V] # <<>>
    BY <1>17 DEF Commit, FileNames
  <2> QED BY <1>17, <2>1 DEF Commit
<1>18. CASE VerifyCommit \/ VerifyClean
  BY <1>18 DEF VerifyCommit, VerifyClean
<1>19. CASE Tag \/ Crash
  BY <1>19 DEF Tag, Crash
<1>20. CASE Repair
  BY <1>20 DEF Repair
<1>21. ASSUME NEW w \in DOMAIN Worlds, Break(w) PROVE RecordInv'
  BY <1>21 DEF Break, HasFaults
<1>22. ASSUME NEW v \in Workspaces, NEW f \in FileNames, Write(v, f) PROVE RecordInv'
  BY <1>22 DEF Write, HasFaults
<1>23. ASSUME NEW v \in Workspaces, NEW f \in FileNames, Undo(v, f) PROVE RecordInv'
  BY <1>23 DEF Undo, HasFaults
<1>24. CASE UNCHANGED vars
  BY <1>24
<1> QED BY <1>1, <1>2, <1>3, <1>4, <1>5, <1>6, <1>7, <1>8, <1>9, <1>10, <1>11, <1>12, <1>13, <1>14,
  <1>15, <1>16, <1>17, <1>18, <1>19, <1>20, <1>21, <1>22, <1>23, <1>24 DEF Next, Controller, Others

\* The parts together.
LEMMA BaseStep == Base /\ [Next]_vars => Base'
BY StepMemType, StepLedgerType, StepWorkspaceType, StepHistoryType, StepControlInv, StepRecordInv DEF Base

\* The type of every variable, for any trains, worlds and number of faults.
THEOREM TypeCorrect == Spec => []TypeOK
<1>1. Spec => []Base
  BY BaseInit, BaseStep, PTL DEF Spec
<1>2. Base => TypeOK
  BY BaseTypes
<1> QED BY <1>1, <1>2, PTL

----------------------------------------------------------------------------
(* What is spread, and what is committed. *)

\* A step keeps what is known of the spread build.
LEMMA StepSpreadInv == Base /\ SpreadInv /\ [Next]_vars => SpreadInv'
<1> SUFFICES ASSUME Base /\ SpreadInv, [Next]_vars PROVE SpreadInv'
  OBVIOUS
<1>0. mem.v \in {1, 2} /\ V \in Workspaces
  BY TheVariants, VariantAt DEF Base, MemType
<1> USE <1>0, TheVariants, VariantAt
    DEF Base, SpreadInv, SealedBuild, MemType, LedgerType, WorkspaceType, ControlInv, RecordInv,
        Materialized, V, Before, Sealing, FrontendSteps, VersionSteps, BuildSteps, SpreadSteps,
        Spreading, RefSteps, vars, world_, ledger, workspace, history, bounds, Goto, Stop, NextStage,
        Fresh
<1>a. ASSUME Refuse PROVE SpreadInv'
  BY <1>a DEF Refuse, Rewound
<1>1. CASE Ready \/ Rehearse \/ Plan \/ Start
  BY <1>1 DEF Ready, Ask, Rehearse, Plan, Start
<1>2. CASE Resume \/ Clone \/ Wire \/ SealWiring
  BY <1>2, <1>a DEF Resume, FirstStep, Clone, Wire, SealWiring
<1>3. CASE CloneNext \/ CopyConsumers \/ Stamp \/ SealVersion
  BY <1>3, <1>a DEF CloneNext, CopyConsumers, Stamp, SealVersion
<1>4. CASE Completed \/ SkipBuilt \/ Build \/ RecordBuild
  BY <1>4, <1>a DEF Completed, SkipBuilt, Build, RecordBuild
<1>5. CASE BeginMaterialize
  <2>1. CASE Refuse
    BY <2>1 DEF Refuse, Rewound
  <2>2. CASE ~Refuse /\ Materialized
    BY <1>5, <2>2 DEF BeginMaterialize
  <2>3. CASE ~Refuse /\ ~Materialized
    <3>1. Changes(V) \ Distribution = {"consumer"} /\ output[V] = built[V]
      BY <1>5, <2>3 DEF BeginMaterialize
    <3>2. "source" \notin Changes(V) /\ "stray" \notin Changes(V)
      BY <3>1 DEF Distribution
    <3>3. tree[V]["source"] = {} /\ tree[V]["stray"] = Absent
      BY <3>2 DEF Changes, FileNames, Captured
    <3>4. pc = "materialize" /\ pc' = "delete" /\ mem' = [mem EXCEPT !.kept = tree[V].meta]
      BY <1>5, <2>3 DEF BeginMaterialize
    <3>5. mem'.v = mem.v /\ mem'.seal = mem.seal
      BY <3>4
    <3> QED BY <1>5, <2>3, <3>1, <3>3, <3>4, <3>5 DEF BeginMaterialize
  <2> QED BY <2>1, <2>2, <2>3
<1>6. CASE Delete
  BY <1>6 DEF Delete
<1>7. CASE Restore
  BY <1>7 DEF Restore
<1>8. CASE CopyBuild
  BY <1>8 DEF CopyBuild
<1>9. CASE SealSpread
  <2>1. CASE Refuse
    BY <2>1 DEF Refuse, Rewound
  <2>2. CASE ~Refuse
    <3> DEFINE new == Restrict(V, Changes(V))
               s == [mem.seal EXCEPT ![V] = new]
    <3>1. "wired" \in tree[V]["bundle"]
      BY <1>9, <2>2 DEF SealSpread, ServesCee
    <3>2. "bundle" \in DOMAIN new /\ new["bundle"] = tree[V]["bundle"]
      BY <3>1 DEF Changes, FileNames, Captured, Restrict
    <3>3. raced \/ ("source" \notin DOMAIN new /\ "stray" \notin DOMAIN new /\ new["bundle"] = built[V])
      BY <1>9, <3>2 DEF SealSpread, Changes, FileNames, Captured, Restrict
    <3>4. SealedBuild(V, new)
      BY <3>2, <3>3 DEF SealedBuild
    <3>5. HasNext => mem' = [mem EXCEPT !.v = @ + 1, !.seal = s] /\ pc' = "materialize" /\ UNCHANGED <<sealed, spread>>
      BY <1>9, <2>2 DEF SealSpread
    <3>6. ~HasNext => sealed' = s /\ pc' = "verifyRefs"
      BY <1>9, <2>2 DEF SealSpread
    <3>7. UNCHANGED <<built, raced, output, tree>>
      BY <1>9, <2>2 DEF SealSpread
    <3> HIDE DEF new
    <3>8. s["release"] = (IF V = "release" THEN new ELSE mem.seal["release"]) /\ (V = "next" => s["next"] = new)
      BY DEF MemType, Seals
    <3> HIDE DEF s
    <3>9. CASE HasNext
      <4>1. mem' = [v |-> 2, seal |-> s, kept |-> mem.kept]
        BY <3>5, <3>9, NextMem
      <4>2. SealedBuild("release", mem'.seal["release"])
        BY <3>4, <3>8, <3>9, <4>1
      <4> QED BY <1>9, <3>5, <3>7, <3>9, <4>1, <4>2
    <3>10. CASE ~HasNext
      <4>1. \A v \in Workspaces : SealedBuild(v, s[v])
        BY <1>9, <3>4, <3>8, <3>10 DEF SealSpread
      <4> QED BY <3>6, <3>7, <3>10, <4>1
    <3> QED BY <3>9, <3>10
  <2> QED BY <2>1, <2>2
<1>10. CASE VerifyRefs \/ SkipRef \/ PrepareCommit
  BY <1>10, <1>a DEF VerifyRefs, SkipRef, PrepareCommit
<1>11. CASE Commit
  BY <1>11 DEF Commit
<1>12. CASE VerifyCommit \/ VerifyClean \/ Tag \/ Crash
  BY <1>12, <1>a DEF VerifyCommit, VerifyClean, Tag, Crash
<1>13. CASE Repair
  BY <1>13 DEF Repair
<1>14. ASSUME NEW w \in DOMAIN Worlds, Break(w) PROVE SpreadInv'
  BY <1>14 DEF Break, HasFaults
<1>15. ASSUME NEW v \in Workspaces, NEW f \in FileNames, Write(v, f) PROVE SpreadInv'
  BY <1>15 DEF Write, HasFaults
<1>16. ASSUME NEW v \in Workspaces, NEW f \in FileNames, Undo(v, f) PROVE SpreadInv'
  BY <1>16 DEF Undo, HasFaults
<1>17. CASE UNCHANGED vars
  BY <1>17
<1> QED BY <1>1, <1>2, <1>3, <1>4, <1>5, <1>6, <1>7, <1>8, <1>9, <1>10, <1>11, <1>12, <1>13, <1>14,
  <1>15, <1>16, <1>17 DEF Next, Controller, Others

\* A step keeps the count of the writes behind a stray file of a commit.
LEMMA StepCommitInv == Base /\ CommitInv /\ [Next]_vars => CommitInv'
<1> SUFFICES ASSUME Base /\ CommitInv, [Next]_vars PROVE CommitInv'
  OBVIOUS
<1>0. mem.v \in {1, 2} /\ V \in Workspaces
  BY TheVariants, VariantAt DEF Base, MemType
<1> USE <1>0, TheVariants, VariantAt
    DEF Base, CommitInv, Strays, MemType, LedgerType, WorkspaceType, HistoryType, ControlInv, RecordInv,
        Materialized, V, Before, Sealing, FrontendSteps, VersionSteps, BuildSteps, SpreadSteps,
        Spreading, RefSteps, vars, world_, ledger, workspace, history, bounds, Goto, Stop, NextStage,
        Fresh
<1>a. ASSUME Refuse PROVE CommitInv'
  BY <1>a DEF Refuse, Rewound
<1>1. CASE Ready \/ Rehearse \/ Plan \/ Start
  BY <1>1 DEF Ready, Ask, Rehearse, Plan, Start
<1>2. CASE Resume \/ Clone \/ Wire \/ SealWiring
  BY <1>2, <1>a DEF Resume, FirstStep, Clone, Wire, SealWiring
<1>3. CASE CloneNext \/ CopyConsumers \/ Stamp \/ SealVersion
  BY <1>3, <1>a DEF CloneNext, CopyConsumers, Stamp, SealVersion
<1>4. CASE Completed \/ SkipBuilt \/ Build \/ RecordBuild
  BY <1>4, <1>a DEF Completed, SkipBuilt, Build, RecordBuild
<1>5. CASE BeginMaterialize
  BY <1>5, <1>a DEF BeginMaterialize
<1>6. CASE Delete
  BY <1>6 DEF Delete
<1>7. CASE Restore
  BY <1>7 DEF Restore
<1>8. CASE CopyBuild
  BY <1>8 DEF CopyBuild
<1>9. CASE SealSpread \/ VerifyRefs \/ SkipRef
  BY <1>9, <1>a DEF SealSpread, VerifyRefs, SkipRef
<1>10. CASE PrepareCommit
  <2>1. CASE Refuse
    BY <2>1 DEF Refuse, Rewound
  <2>2. CASE ~Refuse /\ branch[V] # <<>>
    BY <1>10, <2>2 DEF PrepareCommit
  <2>3. CASE ~Refuse /\ branch[V] = <<>>
    <3>1. \A f \in DOMAIN sealed[V] : tree[V][f] = sealed[V][f]
      BY <1>10, <2>3 DEF PrepareCommit, Matches
    <3> QED BY <1>10, <2>3, <3>1 DEF PrepareCommit
  <2> QED BY <2>1, <2>2, <2>3
<1>11. CASE Commit
  <2> DEFINE commit == [f \in FileNames |-> IF f \in DOMAIN sealed[V] THEN tree[V][f] ELSE Captured[f]]
  <2>1. branch' = [branch EXCEPT ![V] = commit] /\ pc' = "verifyCommit" /\ UNCHANGED <<sealed, tree, refs, mem, writes>>
    BY <1>11 DEF Commit
  <2>2. DOMAIN sealed[V] \subseteq FileNames
    BY DEF Seals
  <2>3. /\ \A f \in FileNames \ DOMAIN sealed[V] : commit[f] = Captured[f]
        /\ \A f \in DOMAIN sealed[V] : commit[f] = tree[V][f]
    BY <2>2
  <2>4. \A f \in DOMAIN sealed[V] : commit[f] # sealed[V][f] => writes >= 1
    BY <1>11, <2>3 DEF Commit
  <2> HIDE DEF commit
  <2>5. refs[V] = <<>>
    BY <1>11 DEF Commit
  <2>6. \A v \in Workspaces : branch'[v] = IF v = V THEN commit ELSE branch[v]
    BY <2>1
  <2> QED BY <2>1, <2>3, <2>4, <2>5, <2>6
<1>12. CASE VerifyCommit
  <2>1. CASE Refuse
    BY <2>1 DEF Refuse, Rewound
  <2>2. CASE ~Refuse
    <3>1. \A f \in DOMAIN sealed[V] : tree[V][f] = sealed[V][f]
      BY <1>12, <2>2 DEF VerifyCommit, CommitAgrees, Matches
    <3> QED BY <1>12, <2>2, <3>1 DEF VerifyCommit
  <2> QED BY <2>1, <2>2
<1>13. CASE VerifyClean \/ Tag \/ Crash \/ Repair
  BY <1>13, <1>a DEF VerifyClean, Tag, Crash, Repair
<1>14. ASSUME NEW w \in DOMAIN Worlds, Break(w) PROVE CommitInv'
  BY <1>14 DEF Break, HasFaults
<1>15. ASSUME NEW v \in Workspaces, NEW f \in FileNames, Write(v, f) PROVE CommitInv'
  BY <1>15 DEF Write, HasFaults
<1>16. ASSUME NEW v \in Workspaces, NEW f \in FileNames, Undo(v, f) PROVE CommitInv'
  BY <1>16 DEF Undo, HasFaults
<1>17. CASE UNCHANGED vars
  BY <1>17
<1> QED BY <1>1, <1>2, <1>3, <1>4, <1>5, <1>6, <1>7, <1>8, <1>9, <1>10, <1>11, <1>12, <1>13, <1>14,
  <1>15, <1>16, <1>17 DEF Next, Controller, Others

----------------------------------------------------------------------------
(* What everything is while nobody writes. *)

\* What the files of a captured, a wired, a stamped and a final tree hold.
LEMMA WiredFacts ==
  /\ WiredTree = [f \in FileNames |-> IF f = "consumer" THEN {"wired"} ELSE Captured[f]]
  /\ [Captured EXCEPT !["consumer"] = @ \cup {"wired"}] = WiredTree
  /\ Captured["consumer"] = {} /\ Captured["meta"] = {} /\ Captured["bundle"] = {}
  /\ Captured["source"] = {} /\ Captured["stray"] = Absent
BY DEF WiredTree, Captured, FileNames

LEMMA FinalFacts ==
  ASSUME NEW v \in Workspaces
  PROVE  /\ StampedTree(v) \in Trees /\ FinalTree(v) \in Trees
         /\ StampedTree(v)["consumer"] = {"wired", v} /\ FinalTree(v)["consumer"] = {"wired", v}
         /\ StampedTree(v)["meta"] = {v} /\ FinalTree(v)["meta"] = {v}
         /\ StampedTree(v)["bundle"] = {} /\ FinalTree(v)["bundle"] = Packed
         /\ StampedTree(v)["source"] = {} /\ FinalTree(v)["source"] = {}
         /\ StampedTree(v)["stray"] = Absent /\ FinalTree(v)["stray"] = Absent
<1>1. {"wired", v} \in Contents /\ {v} \in Contents /\ Packed \in Contents
  BY TheVariants DEF Contents, Packed
<1> QED BY <1>1, TreeFacts, WiredFacts DEF StampedTree, FinalTree, Trees, Captured, FileNames

\* What is changed, and so sealed, in a stamped and in a final tree.
LEMMA StampedChanges ==
  ASSUME NEW v \in Workspaces, tree[v] = StampedTree(v)
  PROVE  Changes(v) = {"consumer", "meta"} /\ Restrict(v, Changes(v)) = VersionSeal(v)
<1>0. {"wired", v} # {} /\ {v} # {}
  OBVIOUS
<1>1. Changes(v) = {"consumer", "meta"}
  BY <1>0, FinalFacts, WiredFacts DEF Changes, FileNames
<1> QED BY <1>1 DEF Restrict, VersionSeal

LEMMA FinalChanges ==
  ASSUME NEW v \in Workspaces, tree[v] = FinalTree(v)
  PROVE  Changes(v) = {"consumer", "meta", "bundle"} /\ Restrict(v, Changes(v)) = FinalSeal(v)
<1>0. {"wired", v} # {} /\ {v} # {} /\ Packed # {}
  BY DEF Packed
<1>2. \A f \in FileNames : FinalTree(v)[f] # Captured[f] <=> f \in {"consumer", "meta", "bundle"}
  <2> DEFINE t == FinalTree(v)
  <2>1. /\ t["consumer"] # Captured["consumer"] /\ t["meta"] # Captured["meta"] /\ t["bundle"] # Captured["bundle"]
        /\ t["source"] = Captured["source"] /\ t["stray"] = Captured["stray"]
    BY <1>0, FinalFacts, WiredFacts
  <2> HIDE DEF t
  <2>2. \A f \in FileNames : t[f] # Captured[f] <=> f \in {"consumer", "meta", "bundle"}
    BY <2>1 DEF FileNames
  <2> QED BY <2>2 DEF t
<1>1. Changes(v) = {"consumer", "meta", "bundle"}
  BY <1>2 DEF Changes, FileNames
<1> QED BY <1>1 DEF Restrict, FinalSeal

\* The stamping of a wired tree.
LEMMA StampWired ==
  ASSUME NEW v \in Workspaces
  PROVE  [WiredTree EXCEPT !["consumer"] = @ \cup {v}, !["meta"] = @ \cup {v}] = StampedTree(v)
<1> DEFINE new == [WiredTree EXCEPT !["consumer"] = @ \cup {v}, !["meta"] = @ \cup {v}]
<1>1. WiredTree \in Trees
  BY TreeFacts, ContentFacts DEF WiredTree, Trees, FileNames
<1>2. WiredTree["consumer"] = {"wired"} /\ WiredTree["meta"] = {}
  BY WiredFacts DEF FileNames
<1>3. {"wired"} \cup {v} = {"wired", v} /\ {} \cup {v} = {v}
  OBVIOUS
<1>4. new = [WiredTree EXCEPT !["consumer"] = {"wired", v}, !["meta"] = {v}]
  BY <1>2, <1>3
<1>5. [WiredTree EXCEPT !["consumer"] = {"wired", v}, !["meta"] = {v}] = StampedTree(v)
  BY TreeFacts DEF WiredTree, StampedTree, Trees, FileNames
<1> QED BY <1>4, <1>5

\* What is sealed of a variant, next to what was sealed before.
LEMMA SealedStamped ==
  ASSUME MemType, NEW v \in Workspaces, tree[v] = StampedTree(v)
  PROVE  LET s == [mem.seal EXCEPT ![v] = Restrict(v, Changes(v))]
         IN  s[v] = VersionSeal(v) /\ \A w \in Workspaces \ {v} : s[w] = mem.seal[w]
BY StampedChanges DEF MemType, Seals

LEMMA SealedFinal ==
  ASSUME MemType, NEW v \in Workspaces, tree[v] = FinalTree(v)
  PROVE  LET s == [mem.seal EXCEPT ![v] = Restrict(v, Changes(v))]
         IN  s[v] = FinalSeal(v) /\ \A w \in Workspaces \ {v} : s[w] = mem.seal[w]
BY FinalChanges DEF MemType, Seals

\* A build that is copied into a prepared variant, and the commit of it.
LEMMA SpreadVariant ==
  ASSUME WorkspaceType, NEW v \in Workspaces,
         tree[v]["consumer"] = {"wired", v}, tree[v]["meta"] = {v}, tree[v]["source"] = {}, tree[v]["stray"] = Absent
  PROVE  [tree[v] EXCEPT !["bundle"] = Packed] = FinalTree(v)
<1> DEFINE t == [tree[v] EXCEPT !["bundle"] = Packed]
<1>1. t \in Trees
  BY DEF WorkspaceType, Trees, Packed, Contents
<1>2. /\ t["consumer"] = {"wired", v} /\ t["meta"] = {v} /\ t["bundle"] = Packed
      /\ t["source"] = {} /\ t["stray"] = Absent
  BY DEF WorkspaceType, Trees, FileNames
<1> HIDE DEF t
<1> DEFINE u == FinalTree(v)
<1>3. /\ u \in Trees /\ u["consumer"] = {"wired", v} /\ u["meta"] = {v} /\ u["bundle"] = Packed
      /\ u["source"] = {} /\ u["stray"] = Absent
  BY FinalFacts
<1> HIDE DEF u
<1>4. t["consumer"] = u["consumer"] /\ t["meta"] = u["meta"] /\ t["bundle"] = u["bundle"]
      /\ t["source"] = u["source"] /\ t["stray"] = u["stray"]
  BY <1>2, <1>3
<1>5. \A f \in FileNames : t[f] = u[f]
  BY <1>4 DEF FileNames
<1>6. t = u
  BY <1>1, <1>3, <1>5 DEF Trees
<1> QED BY <1>6 DEF t, u

LEMMA CommitVariant ==
  ASSUME NEW v \in Workspaces, tree[v] = FinalTree(v), sealed[v] = FinalSeal(v)
  PROVE  [f \in FileNames |-> IF f \in DOMAIN sealed[v] THEN tree[v][f] ELSE Captured[f]] = FinalTree(v)
<1> DEFINE t == [f \in FileNames |-> IF f \in DOMAIN sealed[v] THEN tree[v][f] ELSE Captured[f]]
<1>1. t \in Trees
  BY TreeFacts, FinalFacts DEF Trees
<1>2. DOMAIN sealed[v] = {"consumer", "meta", "bundle"}
  BY DEF FinalSeal
<1>3. /\ t["consumer"] = FinalTree(v)["consumer"] /\ t["meta"] = FinalTree(v)["meta"]
      /\ t["bundle"] = FinalTree(v)["bundle"]
      /\ t["source"] = {} /\ t["stray"] = Absent
  BY <1>2, WiredFacts DEF FileNames
<1> HIDE DEF t
<1> DEFINE u == FinalTree(v)
<1>4. u \in Trees /\ u["source"] = {} /\ u["stray"] = Absent
  BY FinalFacts
<1> HIDE DEF u
<1>5. t = u
  BY <1>1, <1>3, <1>4 DEF Trees, FileNames, u
<1> QED BY <1>5 DEF t, u

\* A final tree that is sealed as such passes every verification of its commit.
LEMMA FinalCommit ==
  ASSUME NEW v \in Workspaces, tree[v] = FinalTree(v), sealed[v] = FinalSeal(v)
  PROVE  /\ Matches(v, sealed[v]) /\ Changes(v) = DOMAIN sealed[v]
         /\ branch[v] = FinalTree(v) => CommitAgrees(v)
<1>1. Matches(v, sealed[v]) /\ Changes(v) = DOMAIN sealed[v]
  BY FinalChanges DEF Matches, FinalSeal
<1>2. branch[v] = FinalTree(v) => CommitAgrees(v)
  BY <1>1 DEF CommitAgrees, Changes
<1> QED BY <1>1, <1>2

\* ... the wired and stamped trees,
LEMMA StepPureVersions ==
  Base /\ PureInv /\ writes = 0 /\ writes' = 0 /\ [Next]_vars => PureVersions'
<1> SUFFICES ASSUME Base /\ PureInv /\ writes = 0 /\ writes' = 0, [Next]_vars PROVE PureVersions'
  OBVIOUS
<1>0. mem.v \in {1, 2} /\ V \in Workspaces
  BY TheVariants, VariantAt DEF Base, MemType
<1> USE <1>0, TheVariants, VariantAt
    DEF Base, PureInv, PureVersions, MemType, LedgerType, WorkspaceType, HistoryType, ControlInv,
        RecordInv, Materialized, V, Before, Sealing, FrontendSteps, VersionSteps, BuildSteps,
        SpreadSteps, Spreading, RefSteps, vars, world_, ledger, workspace, history, bounds, Goto, Stop,
        NextStage, Fresh
<1>a. ASSUME Refuse PROVE PureVersions'
  BY <1>a DEF Refuse, Rewound
<1>1. CASE Ready \/ Rehearse
  BY <1>1 DEF Ready, Ask, Rehearse
<1>2. CASE Plan \/ Start
  BY <1>2 DEF Plan, Ask, Start
<1>3. CASE Resume \/ Clone
  BY <1>3, <1>a DEF Resume, FirstStep, Clone
<1>4. CASE Wire
  <2>1. CASE Refuse
    BY <2>1 DEF Refuse, Rewound
  <2>2. CASE ~Refuse
    <3>1. tree'["release"] = [tree["release"] EXCEPT !["consumer"] = @ \cup {"wired"}]
      BY <1>4, <2>2 DEF Wire
    <3>2. tree'["release"] = WiredTree
      BY <1>4, <3>1, WiredFacts DEF Wire
    <3> QED BY <1>4, <2>2, <3>2 DEF Wire
  <2> QED BY <2>1, <2>2
<1>5. CASE SealWiring
  <2>1. CASE Refuse
    BY <2>1 DEF Refuse, Rewound
  <2>2. CASE ~Refuse
    <3>1. tree["release"] = WiredTree /\ wired' = WiredTree["consumer"] /\ tree' = tree
      BY <1>5, <2>2 DEF SealWiring
    <3>2. wired' = {"wired"}
      BY <3>1, WiredFacts DEF FileNames
    <3> QED BY <1>5, <2>2, <3>1, <3>2 DEF SealWiring
  <2> QED BY <2>1, <2>2
<1>6. CASE CloneNext
  BY <1>6 DEF CloneNext
<1>7. CASE CopyConsumers
  <2>1. CASE Refuse
    BY <2>1 DEF Refuse, Rewound
  <2>2. CASE ~Refuse
    <3>1. /\ tree' = [tree EXCEPT !["next"]["consumer"] = wired]
          /\ tree["next"] = Captured /\ wired = {"wired"} /\ tree["release"] = WiredTree
      BY <1>7, <2>2 DEF CopyConsumers
    <3>2. tree'["next"] = [Captured EXCEPT !["consumer"] = {"wired"}] /\ tree'["release"] = WiredTree
      BY <3>1
    <3>3. tree'["next"] = WiredTree
      BY <3>2 DEF WiredTree
    <3> QED BY <1>7, <2>2, <3>2, <3>3 DEF CopyConsumers
  <2> QED BY <2>1, <2>2
<1>8. CASE Stamp
  <2>1. CASE Refuse
    BY <2>1 DEF Refuse, Rewound
  <2>2. CASE ~Refuse
    <3>1. tree[V] = WiredTree /\ mem' = mem
      BY <1>8, <2>2 DEF Stamp
    <3>2. tree' = [tree EXCEPT ![V] = [tree[V] EXCEPT !["consumer"] = @ \cup {V}, !["meta"] = @ \cup {V}]]
      BY <1>8, <2>2 DEF Stamp
    <3>3. tree'[V] = StampedTree(V) /\ \A v \in Workspaces \ {V} : tree'[v] = tree[v]
      BY <3>1, <3>2, StampWired
    <3> QED BY <1>8, <2>2, <3>1, <3>3 DEF Stamp
  <2> QED BY <2>1, <2>2
<1>9. CASE SealVersion
  <2>1. CASE Refuse
    BY <2>1 DEF Refuse, Rewound
  <2>2. CASE ~Refuse
    <3> DEFINE s == [mem.seal EXCEPT ![V] = Restrict(V, Changes(V))]
    <3>1. tree[V] = StampedTree(V) /\ UNCHANGED <<tree, wired>>
      BY <1>9, <2>2 DEF SealVersion
    <3>2. s[V] = VersionSeal(V)
      <4>1. s[V] = VersionSeal(V) /\ \A w \in Workspaces \ {V} : s[w] = mem.seal[w]
        BY <3>1, SealedStamped
      <4> QED BY <3>1, <4>1
    <3>3. HasNext => mem' = [mem EXCEPT !.v = @ + 1, !.seal = s] /\ pc' = "stamp" /\ stage' = stage
      BY <1>9, <2>2 DEF SealVersion
    <3>4. ~HasNext => pc' = "idle" /\ stage' = "builds"
      BY <1>9, <2>2 DEF SealVersion
    <3> HIDE DEF s
    <3>5. HasNext => mem' = [v |-> 2, seal |-> s, kept |-> mem.kept]
      BY <3>3, NextMem
    <3> QED BY <1>9, <3>1, <3>2, <3>3, <3>4, <3>5 DEF SealVersion
  <2> QED BY <2>1, <2>2
<1>10. CASE Completed \/ SkipBuilt
  BY <1>10, <1>a DEF Completed, SkipBuilt
<1>11. CASE Build \/ RecordBuild
  BY <1>11, <1>a DEF Build, RecordBuild
<1>12. CASE BeginMaterialize
  BY <1>12, <1>a DEF BeginMaterialize
<1>13. CASE Delete
  BY <1>13 DEF Delete
<1>14. CASE Restore
  BY <1>14 DEF Restore
<1>15. CASE CopyBuild
  BY <1>15 DEF CopyBuild
<1>16. CASE SealSpread \/ VerifyRefs
  BY <1>16, <1>a DEF SealSpread, VerifyRefs
<1>17. CASE SkipRef \/ PrepareCommit
  BY <1>17, <1>a DEF SkipRef, PrepareCommit
<1>18. CASE Commit
  BY <1>18 DEF Commit
<1>19. CASE VerifyCommit \/ VerifyClean
  BY <1>19, <1>a DEF VerifyCommit, VerifyClean
<1>20. CASE Tag \/ Crash
  BY <1>20 DEF Tag, Crash, Rewound, HasFaults
<1>21. CASE Repair
  BY <1>21 DEF Repair
<1>22. ASSUME NEW w \in DOMAIN Worlds, Break(w) PROVE PureVersions'
  BY <1>22 DEF Break, HasFaults
<1>23. ASSUME NEW v \in Workspaces, NEW f \in FileNames, Write(v, f) PROVE PureVersions'
  BY <1>23 DEF Write, HasFaults
<1>24. ASSUME NEW v \in Workspaces, NEW f \in FileNames, Undo(v, f) PROVE PureVersions'
  BY <1>24 DEF Undo, HasFaults
<1>25. CASE UNCHANGED vars
  BY <1>25
<1> QED BY <1>1, <1>2, <1>3, <1>4, <1>5, <1>6, <1>7, <1>8, <1>9, <1>10, <1>11, <1>12, <1>13, <1>14,
  <1>15, <1>16, <1>17, <1>18, <1>19, <1>20, <1>21, <1>22, <1>23, <1>24, <1>25 DEF Next, Controller, Others

\* ... what is built and spread,
LEMMA StepPureSpread ==
  Base /\ PureInv /\ writes = 0 /\ writes' = 0 /\ [Next]_vars => PureSpread'
<1> SUFFICES ASSUME Base /\ PureInv /\ writes = 0 /\ writes' = 0, [Next]_vars PROVE PureSpread'
  OBVIOUS
<1>0. mem.v \in {1, 2} /\ V \in Workspaces
  BY TheVariants, VariantAt DEF Base, MemType
<1> USE <1>0, TheVariants, VariantAt
    DEF Base, PureInv, PureSpread, MemType, LedgerType, WorkspaceType, HistoryType, ControlInv,
        RecordInv, Materialized, V, Before, Sealing, FrontendSteps, VersionSteps, BuildSteps,
        SpreadSteps, Spreading, RefSteps, vars, world_, ledger, workspace, history, bounds, Goto, Stop,
        NextStage, Fresh
<1>a. ASSUME Refuse PROVE PureSpread'
  BY <1>a DEF Refuse, Rewound
<1>1. CASE Ready \/ Rehearse \/ Plan \/ Start
  BY <1>1 DEF Ready, Ask, Rehearse, Plan, Start
<1>2. CASE Resume \/ Clone \/ Wire \/ SealWiring
  BY <1>2, <1>a DEF Resume, FirstStep, Clone, Wire, SealWiring
<1>3. CASE CloneNext \/ CopyConsumers \/ Stamp \/ SealVersion
  BY <1>3, <1>a DEF CloneNext, CopyConsumers, Stamp, SealVersion
<1>4. CASE Completed \/ SkipBuilt
  BY <1>4, <1>a DEF Completed, SkipBuilt
<1>5. CASE Build
  <2>1. CASE Refuse
    BY <2>1 DEF Refuse, Rewound
  <2>2. CASE ~Refuse
    <3>1. output' = [output EXCEPT ![V] = {"built"} \cup ((tree[V]["consumer"] \cup tree[V]["source"]) \cap {"wired", "foreign"})]
          /\ mem' = mem /\ pc' = "recordBuild" /\ tree' = tree /\ stage = "builds"
      BY <1>5, <2>2 DEF Build
    <3>2. tree[V]["consumer"] = {"wired", V} /\ tree[V]["source"] = {}
      BY <3>1 DEF PureVariants, PureVariant
    <3>3. {"built"} \cup (({"wired", V} \cup {}) \cap {"wired", "foreign"}) = Packed
      BY TheVariants DEF Packed
    <3>4. output'[V] = Packed
      BY <3>1, <3>2, <3>3
    <3> QED BY <3>1, <3>4
  <2> QED BY <2>1, <2>2
<1>6. CASE RecordBuild
  BY <1>6 DEF RecordBuild
<1>7. CASE BeginMaterialize
  <2>1. CASE Refuse
    BY <2>1 DEF Refuse, Rewound
  <2>2. CASE ~Refuse /\ Materialized
    BY <1>7, <2>2 DEF BeginMaterialize
  <2>3. CASE ~Refuse /\ ~Materialized
    <3>1. tree[V]["meta"] # Absent /\ pc' = "delete" /\ mem' = [mem EXCEPT !.kept = tree[V]["meta"]] /\ UNCHANGED <<tree>>
      BY <1>7, <2>3 DEF BeginMaterialize
    <3>2. tree[V]["meta"] = {V}
      BY <1>7, <3>1 DEF BeginMaterialize, PureVariants, PureVariant
    <3>3. mem'.v = mem.v /\ mem'.seal = mem.seal /\ mem'.kept = {V}
      BY <3>1, <3>2
    <3> QED BY <1>7, <3>1, <3>2, <3>3 DEF BeginMaterialize
  <2> QED BY <2>1, <2>2, <2>3
<1>8. CASE Delete
  BY <1>8 DEF Delete
<1>9. CASE Restore
  BY <1>9 DEF Restore
<1>10. CASE CopyBuild
  <2>1. tree' = [tree EXCEPT ![V]["bundle"] = output[V]] /\ pc = "spread" /\ pc' = "sealSpread" /\ mem' = mem
    BY <1>10 DEF CopyBuild
  <2>2. stage = "local-refs" /\ PureVariant(V)
    BY <2>1 DEF PureVariants
  <2>3. output[V] = Packed /\ tree[V]["meta"] = {V}
    BY <2>1, <2>2 DEF PureVariant
  <2>4. tree'[V] = [tree[V] EXCEPT !["bundle"] = Packed] /\ \A v \in Workspaces \ {V} : tree'[v] = tree[v]
    BY <2>1, <2>3
  <2>5. [tree[V] EXCEPT !["bundle"] = Packed] = FinalTree(V)
    BY <2>2, <2>3, SpreadVariant DEF PureVariant
  <2> QED BY <2>1, <2>3, <2>4, <2>5
<1>11. CASE SealSpread
  <2>1. CASE Refuse
    BY <2>1 DEF Refuse, Rewound
  <2>2. CASE ~Refuse
    <3> DEFINE s == [mem.seal EXCEPT ![V] = Restrict(V, Changes(V))]
    <3>1. tree[V] = FinalTree(V) /\ tree' = tree
      BY <1>11, <2>2 DEF SealSpread
    <3>2. s[V] = FinalSeal(V)
      <4>1. s[V] = FinalSeal(V) /\ \A w \in Workspaces \ {V} : s[w] = mem.seal[w]
        BY <3>1, SealedFinal
      <4> QED BY <3>1, <4>1
    <3>3. HasNext => mem' = [mem EXCEPT !.v = @ + 1, !.seal = s] /\ pc' = "materialize"
      BY <1>11, <2>2 DEF SealSpread
    <3>4. ~HasNext => pc' = "verifyRefs"
      BY <1>11, <2>2 DEF SealSpread
    <3> HIDE DEF s
    <3>5. HasNext => mem' = [v |-> 2, seal |-> s, kept |-> mem.kept]
      BY <3>3, NextMem
    <3> QED BY <3>1, <3>2, <3>3, <3>4, <3>5
  <2> QED BY <2>1, <2>2
<1>12. CASE VerifyRefs \/ SkipRef \/ PrepareCommit
  BY <1>12, <1>a DEF VerifyRefs, SkipRef, PrepareCommit
<1>13. CASE Commit
  BY <1>13 DEF Commit
<1>14. CASE VerifyCommit \/ VerifyClean \/ Tag \/ Crash
  BY <1>14, <1>a DEF VerifyCommit, VerifyClean, Tag, Crash, Rewound, HasFaults
<1>15. CASE Repair
  BY <1>15 DEF Repair
<1>16. ASSUME NEW w \in DOMAIN Worlds, Break(w) PROVE PureSpread'
  BY <1>16 DEF Break, HasFaults
<1>17. ASSUME NEW v \in Workspaces, NEW f \in FileNames, Write(v, f) PROVE PureSpread'
  BY <1>17 DEF Write, HasFaults
<1>18. ASSUME NEW v \in Workspaces, NEW f \in FileNames, Undo(v, f) PROVE PureSpread'
  BY <1>18 DEF Undo, HasFaults
<1>19. CASE UNCHANGED vars
  BY <1>19
<1> QED BY <1>1, <1>2, <1>3, <1>4, <1>5, <1>6, <1>7, <1>8, <1>9, <1>10, <1>11, <1>12, <1>13, <1>14,
  <1>15, <1>16, <1>17, <1>18, <1>19 DEF Next, Controller, Others

\* ... and the variants from their versions to their commits.
LEMMA StepPureVariants ==
  Base /\ PureInv /\ writes = 0 /\ writes' = 0 /\ [Next]_vars => PureVariants'
<1> SUFFICES ASSUME Base /\ PureInv /\ writes = 0 /\ writes' = 0, [Next]_vars PROVE PureVariants'
  OBVIOUS
<1>0. mem.v \in {1, 2} /\ V \in Workspaces
  BY TheVariants, VariantAt DEF Base, MemType
<1> USE <1>0, TheVariants, VariantAt
    DEF Base, PureInv, PureVariants, PureVariant, MemType, LedgerType, WorkspaceType, HistoryType,
        ControlInv, RecordInv, Materialized, V, Before, Sealing, FrontendSteps, VersionSteps, BuildSteps,
        SpreadSteps, Spreading, RefSteps, vars, world_, ledger, workspace, history, bounds, Goto, Stop,
        NextStage, Fresh
<1>a. ASSUME Refuse, pc # "restore" PROVE PureVariants'
  BY <1>a DEF Refuse, Rewound
<1>1. CASE Ready \/ Rehearse
  BY <1>1 DEF Ready, Ask, Rehearse
<1>2. CASE Plan \/ Start
  BY <1>2 DEF Plan, Ask, Start
<1>3. CASE Resume \/ Clone
  BY <1>3, <1>a DEF Resume, FirstStep, Clone
<1>4. CASE Wire \/ SealWiring
  BY <1>4, <1>a DEF Wire, SealWiring
<1>5. CASE CloneNext \/ CopyConsumers
  BY <1>5, <1>a DEF CloneNext, CopyConsumers
<1>6. CASE Stamp
  BY <1>6, <1>a DEF Stamp
<1>7. CASE SealVersion
  <2>1. CASE Refuse
    BY <1>7, <2>1 DEF SealVersion, Refuse, Rewound
  <2>2. CASE ~Refuse /\ HasNext
    BY <1>7, <2>2 DEF SealVersion
  <2>3. CASE ~Refuse /\ ~HasNext
    <3> DEFINE s == [mem.seal EXCEPT ![V] = Restrict(V, Changes(V))]
    <3>1. /\ tree[V] = StampedTree(V) /\ V = "next"
          /\ tree["release"] = StampedTree("release") /\ mem.seal["release"] = VersionSeal("release")
      BY <1>7, <2>3 DEF SealVersion, PureVersions
    <3>2. sealed' = s /\ stage' = "builds" /\ UNCHANGED <<tree, built, output, branch, spread>>
      BY <1>7, <2>3 DEF SealVersion
    <3>3. s[V] = VersionSeal(V) /\ s["release"] = VersionSeal("release")
      <4>1. s[V] = VersionSeal(V) /\ \A w \in Workspaces \ {V} : s[w] = mem.seal[w]
        BY <3>1, SealedStamped
      <4> QED BY <3>1, <4>1
    <3> HIDE DEF s
    <3>4. \A v \in Workspaces : s[v] = VersionSeal(v) /\ tree[v] = StampedTree(v)
      BY <3>1, <3>3
    <3>5. \A v \in Workspaces : built[v] = Nothing /\ branch[v] = <<>> /\ spread = NoSeal
      BY <1>7 DEF SealVersion
    <3>6. \A v \in Workspaces : StampedTree(v)["meta"] # Absent
      BY FinalFacts, TheVariants DEF Absent
    <3> QED BY <3>2, <3>4, <3>5, <3>6, FinalFacts
  <2> QED BY <2>1, <2>2, <2>3
<1>8. CASE Completed \/ SkipBuilt
  BY <1>8, <1>a DEF Completed, SkipBuilt
<1>9. CASE Build
  BY <1>9, <1>a DEF Build
<1>10. CASE RecordBuild
  <2>1. built' = [built EXCEPT ![V] = output[V]] /\ output[V] = Packed
    BY <1>10 DEF RecordBuild, PureSpread
  <2>2. \A v \in Workspaces : built'[v] \in {Nothing, Packed} /\ (built'[v] # Nothing => output[v] = Packed)
    BY <2>1
  <2> QED BY <1>10, <2>2 DEF RecordBuild
<1>11. CASE BeginMaterialize
  <2>1. CASE Refuse
    BY <1>11, <2>1 DEF BeginMaterialize, Refuse, Rewound
  <2>2. CASE ~Refuse /\ Materialized
    BY <1>11, <2>2 DEF BeginMaterialize
  <2>3. CASE ~Refuse /\ ~Materialized
    BY <1>11, <2>3 DEF BeginMaterialize
  <2> QED BY <2>1, <2>2, <2>3
<1>12. CASE Delete
  BY <1>12 DEF Delete
<1>13. CASE Restore
  <2>1. tree' = [tree EXCEPT ![V]["meta"] = mem.kept] /\ mem.kept = {V} /\ stage = "local-refs" /\ ~Materialized
    BY <1>13 DEF Restore, PureSpread
  <2>2. \A v \in Workspaces : tree'[v] = IF v = V THEN [tree[V] EXCEPT !["meta"] = {V}] ELSE tree[v]
    BY <2>1
  <2>3. tree'[V]["meta"] = {V} /\ \A f \in FileNames \ {"meta"} : tree'[V][f] = tree[V][f]
    BY <2>2 DEF Trees, FileNames
  <2>4. {V} # Absent
    BY DEF Absent
  <2> QED BY <1>13, <2>1, <2>2, <2>3, <2>4 DEF Restore, FileNames
<1>14. CASE CopyBuild
  BY <1>14 DEF CopyBuild
<1>15. CASE SealSpread
  <2>1. CASE Refuse
    BY <1>15, <2>1 DEF SealSpread, Refuse, Rewound
  <2>2. CASE ~Refuse /\ HasNext
    BY <1>15, <2>2 DEF SealSpread
  <2>3. CASE ~Refuse /\ ~HasNext
    <3> DEFINE s == [mem.seal EXCEPT ![V] = Restrict(V, Changes(V))]
               dist == [v \in Workspaces |-> [f \in Distribution |-> tree[v][f]]]
    <3>1. /\ tree[V] = FinalTree(V) /\ V = "next"
          /\ tree["release"] = FinalTree("release") /\ mem.seal["release"] = FinalSeal("release")
      BY <1>15, <2>3 DEF SealSpread, PureSpread
    <3>2. sealed' = s /\ spread' = dist /\ stage' = stage /\ stage = "local-refs" /\ UNCHANGED <<tree, built, output, branch>>
      BY <1>15, <2>3 DEF SealSpread
    <3>3. s[V] = FinalSeal(V) /\ s["release"] = FinalSeal("release")
      <4>1. s[V] = FinalSeal(V) /\ \A w \in Workspaces \ {V} : s[w] = mem.seal[w]
        BY <3>1, SealedFinal
      <4> QED BY <3>1, <4>1
    <3> HIDE DEF s
    <3>4. \A v \in Workspaces : s[v] = FinalSeal(v) /\ tree[v] = FinalTree(v)
      BY <3>1, <3>3
    <3>5. \A v \in Workspaces : branch[v] = <<>>
      BY <1>15 DEF SealSpread
    <3>6. \A v \in Workspaces : dist[v] = [f \in Distribution |-> FinalTree(v)[f]]
      BY <3>4
    <3>7. dist["release"] # <<>>
      BY DEF Distribution
    <3>8. dist # NoSeal
      BY <3>7 DEF NoSeal
    <3>9. \A v \in Workspaces : FinalTree(v)["meta"] # Absent
      BY FinalFacts, TheVariants DEF Absent
    <3> HIDE DEF dist
    <3> QED BY <3>2, <3>4, <3>5, <3>6, <3>8, <3>9, FinalFacts
  <2> QED BY <2>1, <2>2, <2>3
<1>16. CASE VerifyRefs \/ SkipRef
  BY <1>16, <1>a DEF VerifyRefs, SkipRef
<1>17. CASE PrepareCommit
  BY <1>17, <1>a DEF PrepareCommit
<1>18. CASE Commit
  <2> DEFINE commit == [f \in FileNames |-> IF f \in DOMAIN sealed[V] THEN tree[V][f] ELSE Captured[f]]
  <2>1. branch' = [branch EXCEPT ![V] = commit] /\ Materialized /\ stage = "local-refs"
    BY <1>18 DEF Commit
  <2>2. tree[V] = FinalTree(V) /\ sealed[V] = FinalSeal(V)
    BY <2>1
  <2>4. commit = FinalTree(V)
    BY <2>2, CommitVariant
  <2> HIDE DEF commit
  <2>5. \A v \in Workspaces : branch'[v] = IF v = V THEN FinalTree(V) ELSE branch[v]
    BY <2>1, <2>4
  <2> QED BY <1>18, <2>1, <2>5 DEF Commit
<1>19. CASE VerifyCommit \/ VerifyClean
  BY <1>19, <1>a DEF VerifyCommit, VerifyClean
<1>20. CASE Tag \/ Crash
  BY <1>20 DEF Tag, Crash, Rewound, HasFaults
<1>21. CASE Repair
  BY <1>21 DEF Repair
<1>22. ASSUME NEW w \in DOMAIN Worlds, Break(w) PROVE PureVariants'
  BY <1>22 DEF Break, HasFaults
<1>23. ASSUME NEW v \in Workspaces, NEW f \in FileNames, Write(v, f) PROVE PureVariants'
  BY <1>23 DEF Write, HasFaults
<1>24. ASSUME NEW v \in Workspaces, NEW f \in FileNames, Undo(v, f) PROVE PureVariants'
  BY <1>24 DEF Undo, HasFaults
<1>25. CASE UNCHANGED vars
  BY <1>25
<1> QED BY <1>1, <1>2, <1>3, <1>4, <1>5, <1>6, <1>7, <1>8, <1>9, <1>10, <1>11, <1>12, <1>13, <1>14,
  <1>15, <1>16, <1>17, <1>18, <1>19, <1>20, <1>21, <1>22, <1>23, <1>24, <1>25 DEF Next, Controller, Others

----------------------------------------------------------------------------
(* What was asked before the release started, and what may be refused after. *)

\* What resume asks of an unchanged world was asked at the start.
LEMMA ResumeAsksAgain ==
  ASSUME NEW w, StartGate(T, w, accepted), stage \in {"frontends", "versions", "builds", "local-refs"}
  PROVE  ResumeGate(stage, T, w, accepted)
<1>1. Elements(Checks) =
        {"release", "toolchain", "processes", "profile", "disk", "trees", "identity", "nexus", "npm",
         "npmConfig", "push", "version", "artifacts", "green", "smoke", "components", "source",
         "generated", "license", "survey"}
  BY DEF Elements, Checks
<1>2. ResumeChecks(stage) \subseteq Elements(Checks)
  <2>1. CASE stage = "local-refs"
    BY <1>1, <2>1 DEF ResumeChecks
  <2>2. CASE stage # "local-refs"
    BY <1>1, <2>2 DEF ResumeChecks
  <2> QED BY <2>1, <2>2
<1> QED BY <1>2 DEF StartGate, ResumeGate

\* What the start asked of the captured commits and of the world.
LEMMA Asked ==
  ASSUME StartGate(T, Good, accepted)
  PROVE  SourceContract(T) /\ ~Good.mongo
<1>1. "source" \in Elements(Checks) /\ "processes" \in Elements(Checks)
  <2>1. DOMAIN Checks = 1..20 /\ Checks[17] = "source" /\ Checks[3] = "processes"
    BY DEF Checks
  <2> QED BY <2>1 DEF Elements
<1>2. Passes("source", T, Resolved(Good), accepted) /\ Passes("processes", T, Resolved(Good), accepted)
  BY <1>1 DEF StartGate
<1>3. SourceContract(T)
  BY <1>2 DEF Passes
<1>4. ~Resolved(Good).mongo
  BY <1>2 DEF Passes
<1>5. Resolved(Good).mongo = Good.mongo
  BY WorldsAssumption DEF Resolved, Good
<1> QED BY <1>3, <1>4, <1>5

\* A stamping refuses only what preflight is known not to ask.
LEMMA StampingSettled ==
  ASSUME NEW name \in DOMAIN Trains, train = Trains[name], SourceContract(T), ~Unasked(T),
         NEW v \in {"release", "next"}
  PROVE  StampingAccepts(T, v)
<1>1. /\ T.captured.swagger = 1 /\ T.captured.poms.suffix /\ T.captured.poms.exact /\ T.captured.baselines # "empty"
      /\ T.captured.env.suffix => T.captured.env.exact
  BY DEF Unasked, SourceContract
<1>2. ASSUME "dockerbuild" \in ReleaseRepositories(T), NEW d \in DockerDefaults(T, v)
      PROVE  T.captured.defaults[d] = 1
  <2>1. d \in DockerDefaults(T, "release") \cup DockerDefaults(T, "next")
    OBVIOUS
  <2>2. T.captured.defaults[d] \in Nat
    BY <2>1, TrainsAssumption DEF T
  <2>3. T.captured.defaults[d] >= 1
    BY <1>2, <2>1 DEF SourceContract
  <2>4. ~(T.captured.defaults[d] > 1)
    BY <2>1 DEF Unasked
  <2> QED BY <2>2, <2>3, <2>4
<1>3. DockerStampingAccepts(T, v)
  BY <1>1, <1>2 DEF DockerStampingAccepts, SourceContract, DeploymentContract
<1> QED BY <1>1, <1>3 DEF StampingAccepts, SourceContract

\* What was asked stays asked.
LEMMA StepGateInv == Base /\ GateInv /\ [Next]_vars => GateInv'
<1> SUFFICES ASSUME Base /\ GateInv, [Next]_vars PROVE GateInv'
  OBVIOUS
<1>0. mem.v \in {1, 2} /\ V \in Workspaces
  BY TheVariants, VariantAt DEF Base, MemType
<1> USE <1>0, TheVariants
    DEF Base, Refuse, T, W, Good, GateInv, MemType, ControlInv, Rewound, V, Before, Sealing,
        FrontendSteps, VersionSteps, BuildSteps, SpreadSteps, Spreading, RefSteps, vars, world_, ledger,
        workspace, history, bounds, Goto, Stop, NextStage, Fresh
<1>a. ASSUME Refuse PROVE GateInv'
  BY <1>a DEF Refuse, Rewound
<1>1. CASE Ready \/ Rehearse \/ Plan \/ Start
  BY <1>1 DEF Ready, Ask, Rehearse, Plan, Start
<1>2. CASE Resume \/ Clone \/ Wire \/ SealWiring
  BY <1>2, <1>a DEF Resume, FirstStep, Clone, Wire, SealWiring
<1>3. CASE CloneNext \/ CopyConsumers \/ Stamp \/ SealVersion
  BY <1>3, <1>a DEF CloneNext, CopyConsumers, Stamp, SealVersion
<1>4. CASE Completed \/ SkipBuilt \/ Build \/ RecordBuild
  BY <1>4, <1>a DEF Completed, SkipBuilt, Build, RecordBuild
<1>5. CASE BeginMaterialize
  BY <1>5, <1>a DEF BeginMaterialize
<1>6. CASE Delete
  BY <1>6 DEF Delete
<1>7. CASE Restore
  BY <1>7 DEF Restore
<1>8. CASE CopyBuild
  BY <1>8 DEF CopyBuild
<1>9. CASE SealSpread \/ VerifyRefs \/ SkipRef \/ PrepareCommit
  BY <1>9, <1>a DEF SealSpread, VerifyRefs, SkipRef, PrepareCommit
<1>10. CASE Commit
  BY <1>10 DEF Commit
<1>11. CASE VerifyCommit \/ VerifyClean \/ Tag \/ Crash
  BY <1>11, <1>a DEF VerifyCommit, VerifyClean, Tag, Crash
<1>12. CASE Repair
  BY <1>12 DEF Repair
<1>13. ASSUME NEW w \in DOMAIN Worlds, Break(w) PROVE GateInv'
  <2>1. breaks' = breaks + 1 /\ breaks \in Nat
    BY <1>13 DEF Break, Base, HistoryType
  <2>2. breaks' # 0
    BY <2>1
  <2> QED BY <1>13, <2>2 DEF Break
<1>14. ASSUME NEW v \in Workspaces, NEW f \in FileNames, Write(v, f) PROVE GateInv'
  BY <1>14 DEF Write, HasFaults
<1>15. ASSUME NEW v \in Workspaces, NEW f \in FileNames, Undo(v, f) PROVE GateInv'
  BY <1>15 DEF Undo, HasFaults
<1>16. CASE UNCHANGED vars
  BY <1>16
<1> QED BY <1>1, <1>2, <1>3, <1>4, <1>5, <1>6, <1>7, <1>8, <1>9, <1>10, <1>11, <1>12, <1>13, <1>14,
  <1>15, <1>16 DEF Next, Controller, Others

\* While nothing breaks, nobody writes and no controller dies, a step that asks
\* something finds it.
LEMMA NothingRefuses ==
  ASSUME Base, PureInv, GateInv, breaks = 0, writes = 0, crashes = 0, ~Unasked(T), stage \notin Before,
         Controller, Refuse
  PROVE  FALSE
<1>0. /\ mem.v \in {1, 2} /\ V \in Workspaces /\ V \in {"release", "next"}
      /\ MemType /\ WorkspaceType /\ ControlInv /\ RecordInv /\ PureVersions /\ PureSpread /\ PureVariants
      /\ world = Good /\ StartGate(T, Good, accepted)
  BY TheVariants, VariantAt DEF Base, MemType, PureInv, GateInv
<1>a. pc' = "idle" /\ stage' = Rewound /\ UNCHANGED <<ledger, workspace>>
  BY DEF Refuse, Stop
<1> USE <1>0, <1>a, TheVariants
<1>1. CASE Resume
  <2>1. stage \in {"frontends", "versions", "builds", "local-refs"}
    BY <1>1 DEF Resume
  <2>2. ResumeGate(stage, T, W, accepted)
    BY <2>1, ResumeAsksAgain DEF GateInv, W
  <2> QED BY <1>1, <2>1, <2>2 DEF Resume, FirstStep, Goto
<1>2. CASE Wire
  BY <1>2 DEF Wire, Unasked, Goto
<1>3. CASE SealWiring
  <2>1. tree["release"] = WiredTree /\ pc = "sealWiring"
    BY <1>3 DEF SealWiring, PureVersions
  <2>2. tree["release"]["consumer"] = {"wired"} /\ \A f \in FileNames \ {"consumer"} : tree["release"][f] = Captured[f]
    BY <2>1, WiredFacts DEF FileNames
  <2>3. ConsumerVerified /\ Changes("release") \subseteq {"consumer"}
    BY <2>2 DEF ConsumerVerified, Changes
  <2>4. stage = "frontends"
    BY <2>1 DEF ControlInv, FrontendSteps
  <2> QED BY <1>3, <2>3, <2>4 DEF SealWiring, NextStage, Rewound
<1>4. CASE CopyConsumers
  <2>1. stage = "versions" /\ pc = "copy"
    BY <1>4 DEF CopyConsumers, ControlInv, VersionSteps
  <2>2. wired = {"wired"} /\ tree["release"] = WiredTree
    BY <2>1 DEF PureVersions, Before
  <2>3. tree["release"]["consumer"] = wired
    BY <2>2, WiredFacts DEF FileNames
  <2> QED BY <1>4, <2>3 DEF CopyConsumers, Goto
<1>5. CASE Stamp
  <2>1. StampingAccepts(T, V)
    BY StampingSettled, Asked DEF GateInv, T
  <2> QED BY <1>5, <2>1 DEF Stamp, Goto
<1>6. CASE SealVersion
  <2>1. stage = "versions" /\ pc = "sealVersion"
    BY <1>6 DEF SealVersion, ControlInv, VersionSteps
  <2>2. tree[V] = StampedTree(V)
    BY <2>1 DEF PureVersions
  <2>3. ChangesAreExact(T) /\ Changes(V) = {"consumer", "meta"}
    BY <2>2, StampedChanges DEF Unasked
  <2> QED BY <1>6, <2>1, <2>3 DEF SealVersion, NextStage, Rewound
<1>7. CASE Completed
  <2>1. stage = "builds"
    BY <1>7 DEF Completed, ControlInv, BuildSteps
  <2>2. \A v \in Workspaces : built[v] \in {Nothing, output[v]}
    BY <2>1 DEF PureVariants, PureVariant, Sealing
  <2> QED BY <1>7, <2>2 DEF Completed, Goto
<1>8. CASE Build
  <2>1. ~W.mongo
    BY Asked DEF GateInv, W
  <2> QED BY <1>8, <2>1 DEF Build, Goto
<1>9. CASE BeginMaterialize
  <2>1. stage = "local-refs" /\ pc = "materialize"
    BY <1>9 DEF BeginMaterialize, ControlInv, SpreadSteps
  <2>2. \A v \in Workspaces : PureVariant(v) /\ built[v] # Nothing
    BY <2>1 DEF PureVariants, Sealing, RecordInv
  <2>3. CASE Materialized
    <3>1. ASSUME NEW v \in Workspaces PROVE output[v] = built[v] /\ Matches(v, spread[v])
      <4>1. output[v] = Packed /\ built[v] = Packed
        BY <2>2 DEF PureVariant
      <4>2. tree[v] = FinalTree(v) /\ spread[v] = [f \in Distribution |-> FinalTree(v)[f]]
        BY <2>2, <2>3 DEF PureVariant
      <4> QED BY <4>1, <4>2 DEF Matches
    <3> QED BY <1>9, <2>3, <3>1 DEF BeginMaterialize
  <2>4. CASE ~Materialized
    <3>1. sealed[V] = VersionSeal(V) /\ output[V] = built[V] /\ tree[V]["meta"] = {V}
      BY <2>1, <2>2, <2>4 DEF PureVariant
    <3>2. tree[V]["consumer"] = {"wired", V} /\ tree[V]["source"] = {} /\ tree[V]["stray"] = Absent
      BY <2>2 DEF PureVariant
    <3>3. Matches(V, sealed[V])
      <4>1. StampedTree(V)["consumer"] = tree[V]["consumer"] /\ StampedTree(V)["meta"] = tree[V]["meta"]
        BY <3>1, <3>2, FinalFacts
      <4>2. \A f \in {"consumer", "meta"} : tree[V][f] = VersionSeal(V)[f]
        BY <4>1 DEF VersionSeal
      <4>3. DOMAIN sealed[V] = {"consumer", "meta"}
        BY <3>1 DEF VersionSeal
      <4> QED BY <3>1, <4>2, <4>3 DEF Matches
    <3>4. Changes(V) \ Distribution = {"consumer"}
      BY <3>2, WiredFacts DEF Changes, Distribution, FileNames
    <3>5. tree[V]["meta"] # Absent
      BY <3>1 DEF Absent
    <3> QED BY <1>9, <2>4, <3>1, <3>3, <3>4, <3>5 DEF BeginMaterialize
  <2> QED BY <2>3, <2>4
<1>10. CASE SealSpread
  <2>1. tree[V] = FinalTree(V) /\ stage = "local-refs"
    BY <1>10 DEF SealSpread, PureSpread, ControlInv, SpreadSteps, Spreading
  <2>2. ServesCee(tree[V].bundle)
    BY <2>1, FinalFacts DEF ServesCee, Packed
  <2> QED BY <1>10, <2>2 DEF SealSpread
<1>11. CASE VerifyRefs
  <2>1. stage = "local-refs" /\ Materialized
    BY <1>11 DEF VerifyRefs, ControlInv, RefSteps
  <2>2. ASSUME NEW v \in Workspaces, refs[v] # <<>>
        PROVE  branch[v] = refs[v] /\ (v = "release" => tag = refs[v]) /\ CommitAgrees(v)
    <3>1. branch[v] = refs[v] /\ (v = "release" => tag = refs[v])
      BY <2>2 DEF RecordInv
    <3>2. tree[v] = FinalTree(v) /\ sealed[v] = FinalSeal(v) /\ (branch[v] # <<>> => branch[v] = FinalTree(v))
      BY <2>1 DEF PureVariants, PureVariant, Sealing
    <3> QED BY <2>2, <3>1, <3>2, FinalCommit
  <2> QED BY <1>11, <2>2 DEF VerifyRefs, Goto
<1>12. CASE PrepareCommit
  <2>1. stage = "local-refs" /\ Materialized
    BY <1>12 DEF PrepareCommit, ControlInv, RefSteps
  <2>2. tree[V] = FinalTree(V) /\ sealed[V] = FinalSeal(V)
    BY <2>1 DEF PureVariants, PureVariant, Sealing
  <2>3. Changes(V) = DOMAIN sealed[V] /\ Matches(V, sealed[V])
    BY <2>2, FinalCommit
  <2> QED BY <1>12, <2>3 DEF PrepareCommit, Goto
<1>13. CASE VerifyCommit
  <2>1. stage = "local-refs" /\ Materialized /\ branch[V] # <<>>
    BY <1>13 DEF VerifyCommit, ControlInv, RefSteps, RecordInv
  <2>2. tree[V] = FinalTree(V) /\ sealed[V] = FinalSeal(V) /\ branch[V] = FinalTree(V)
    BY <2>1 DEF PureVariants, PureVariant, Sealing
  <2>3. CommitAgrees(V)
    BY <2>2, FinalCommit
  <2> QED BY <1>13, <2>3 DEF VerifyCommit, Goto
<1>14. CASE VerifyClean
  <2>1. stage = "local-refs" /\ Materialized /\ branch[V] # <<>>
    BY <1>14 DEF VerifyClean, ControlInv, RefSteps, RecordInv
  <2>2. tree[V] = FinalTree(V) /\ branch[V] = FinalTree(V)
    BY <2>1 DEF PureVariants, PureVariant, Sealing
  <2> QED BY <1>14, <2>2 DEF VerifyClean, Goto
<1>15. CASE SkipBuilt \/ SkipRef
  <2>1. stage \in {"builds", "local-refs"} /\ stage' = stage
    BY <1>15 DEF SkipBuilt, SkipRef, ControlInv, BuildSteps, RefSteps, Rewound
  <2>2. CASE SkipBuilt
    BY <2>1, <2>2 DEF SkipBuilt, NextStage, ControlInv, BuildSteps
  <2>3. CASE SkipRef
    BY <2>1, <2>3 DEF SkipRef, NextStage
  <2> QED BY <1>15, <2>2, <2>3
<1>16. CASE Tag
  <2>1. refs[V] = <<>> /\ tag = refs["release"]
    BY <1>16 DEF Tag, RecordInv
  <2>2. V = "release" => tag' = branch[V]
    BY <1>16, <2>1 DEF Tag
  <2> QED BY <1>16, <2>2 DEF Tag, Goto
<1>17. CASE Ready \/ Rehearse \/ Plan \/ Start \/ Clone \/ CloneNext \/ RecordBuild \/ Delete \/ Restore
         \/ CopyBuild \/ Commit
  BY <1>17 DEF Ready, Rehearse, Plan, Start, Clone, CloneNext, RecordBuild, Delete, Restore, CopyBuild, Commit,
     Ask, Goto, Stop, NextStage, Before, Rewound, ledger, workspace
<1> QED BY <1>1, <1>2, <1>3, <1>4, <1>5, <1>6, <1>7, <1>8, <1>9, <1>10, <1>11, <1>12, <1>13, <1>14, <1>15, <1>16, <1>17 DEF Controller

\* A refusal after the start has a reason that was not asked before it.
LEMMA StepSettled ==
  Base /\ PureInv /\ GateInv /\ SettledInTheFirstMinute /\ [Next]_vars => SettledInTheFirstMinute'
<1> SUFFICES ASSUME Base /\ PureInv /\ GateInv /\ SettledInTheFirstMinute, [Next]_vars PROVE SettledInTheFirstMinute'
  OBVIOUS
<1>0. mem.v \in {1, 2} /\ V \in Workspaces
  BY TheVariants, VariantAt DEF Base, MemType
<1> USE <1>0, TheVariants
    DEF SettledInTheFirstMinute, T, vars, world_, ledger, workspace, history, bounds, Goto, Stop,
        NextStage, Fresh
<1>a. ASSUME Controller, Refuse PROVE SettledInTheFirstMinute'
  <2>1. UNCHANGED <<breaks, writes, crashes, train>> /\ late' = (late \/ stage \notin Before)
    BY <1>a DEF Refuse
  <2>2. breaks \in Nat /\ writes \in Nat /\ crashes \in Nat
    BY DEF Base, HistoryType
  <2>3. CASE stage \in Before
    BY <2>1, <2>3
  <2>4. CASE stage \notin Before /\ breaks = 0 /\ writes = 0 /\ crashes = 0 /\ ~Unasked(train)
    BY <1>a, <2>4, NothingRefuses
  <2>5. CASE stage \notin Before /\ ~(breaks = 0 /\ writes = 0 /\ crashes = 0 /\ ~Unasked(train))
    BY <2>1, <2>2, <2>5
  <2> QED BY <2>3, <2>4, <2>5
<1>1. CASE Ready \/ Rehearse \/ Plan \/ Start
  BY <1>1 DEF Ready, Ask, Rehearse, Plan, Start
<1>2. CASE Resume \/ Clone \/ Wire \/ SealWiring
  BY <1>2, <1>a DEF Resume, Clone, Wire, SealWiring, Controller
<1>3. CASE CloneNext \/ CopyConsumers \/ Stamp \/ SealVersion
  BY <1>3, <1>a DEF CloneNext, CopyConsumers, Stamp, SealVersion, Controller
<1>4. CASE Completed \/ SkipBuilt \/ Build \/ RecordBuild
  BY <1>4, <1>a DEF Completed, SkipBuilt, Build, RecordBuild, Controller
<1>5. CASE BeginMaterialize
  BY <1>5, <1>a DEF BeginMaterialize, Controller
<1>6. CASE Delete
  BY <1>6 DEF Delete
<1>7. CASE Restore
  BY <1>7 DEF Restore
<1>8. CASE CopyBuild
  BY <1>8 DEF CopyBuild
<1>9. CASE SealSpread \/ VerifyRefs \/ SkipRef \/ PrepareCommit
  BY <1>9, <1>a DEF SealSpread, VerifyRefs, SkipRef, PrepareCommit, Controller
<1>10. CASE Commit
  BY <1>10 DEF Commit
<1>11. CASE VerifyCommit \/ VerifyClean
  BY <1>11, <1>a DEF VerifyCommit, VerifyClean, Controller
<1>12. CASE Tag
  <2>1. V = "release" => tag' = branch[V]
    BY <1>12 DEF Tag, Base, RecordInv
  <2>2. late' = late
    BY <1>12, <2>1 DEF Tag
  <2> QED BY <1>12, <2>2 DEF Tag
<1>13. CASE Crash
  <2>1. crashes \in Nat /\ crashes' = crashes + 1
    BY <1>13 DEF Base, HistoryType, Crash
  <2>2. crashes' > 0
    BY <2>1
  <2> QED BY <2>2
<1>14. CASE Repair
  BY <1>14 DEF Repair
<1>15. ASSUME NEW w \in DOMAIN Worlds, Break(w) PROVE SettledInTheFirstMinute'
  <2>1. breaks \in Nat /\ breaks' = breaks + 1
    BY <1>15 DEF Base, HistoryType, Break
  <2>2. breaks' > 0
    BY <2>1
  <2> QED BY <2>2
<1>16. ASSUME NEW v \in Workspaces, NEW f \in FileNames, Write(v, f) PROVE SettledInTheFirstMinute'
  <2>1. writes \in Nat /\ writes' = writes + 1
    BY <1>16 DEF Base, HistoryType, Write
  <2>2. writes' > 0
    BY <2>1
  <2> QED BY <2>2
<1>17. ASSUME NEW v \in Workspaces, NEW f \in FileNames, Undo(v, f) PROVE SettledInTheFirstMinute'
  <2>1. writes \in Nat /\ writes' = writes + 1
    BY <1>17 DEF Base, HistoryType, Undo
  <2>2. writes' > 0
    BY <2>1
  <2> QED BY <2>2
<1>18. CASE UNCHANGED vars
  BY <1>18
<1> QED BY <1>1, <1>2, <1>3, <1>4, <1>5, <1>6, <1>7, <1>8, <1>9, <1>10, <1>11, <1>12, <1>13, <1>14,
  <1>15, <1>16, <1>17, <1>18 DEF Next, Controller, Others

----------------------------------------------------------------------------
(* The invariant. *)

\* The invariant holds at the start, ...
LEMMA InvariantInit == Init => IInv
<1> SUFFICES ASSUME Init PROVE IInv
  OBVIOUS
<1>1. Base
  BY BaseInit
<1>2. SpreadInv /\ CommitInv
  BY DEF Init, SpreadInv, CommitInv, SpreadSteps, Spreading, Materialized
<1>3. PureInv
  BY DEF Init, PureInv, PureVersions, PureSpread, PureVariants, SpreadSteps, Spreading, Before, Sealing
<1>4. GateInv /\ SettledInTheFirstMinute
  BY DEF Init, GateInv, SettledInTheFirstMinute, Before
<1> QED BY <1>1, <1>2, <1>3, <1>4 DEF IInv

\* Nobody but Write and Undo counts a write, and none is taken back.
LEMMA WritesCount == [Next]_vars => writes' = writes \/ writes' = writes + 1
<1> SUFFICES ASSUME [Next]_vars PROVE writes' = writes \/ writes' = writes + 1
  OBVIOUS
<1>1. CASE Ready \/ Rehearse \/ Plan \/ Start \/ Resume \/ Clone \/ Wire \/ SealWiring
  BY <1>1 DEF Ready, Rehearse, Plan, Start, Ask, Resume, Clone, Wire, SealWiring, Refuse, bounds
<1>2. CASE CloneNext \/ CopyConsumers \/ Stamp \/ SealVersion \/ Completed \/ SkipBuilt \/ Build \/ RecordBuild
  BY <1>2 DEF CloneNext, CopyConsumers, Stamp, SealVersion, Completed, SkipBuilt, Build, RecordBuild, Refuse, bounds
<1>3. CASE BeginMaterialize \/ Delete \/ Restore \/ CopyBuild \/ SealSpread
  BY <1>3 DEF BeginMaterialize, Delete, Restore, CopyBuild, SealSpread, Refuse, bounds
<1>4. CASE VerifyRefs \/ SkipRef \/ PrepareCommit \/ Commit \/ VerifyCommit \/ VerifyClean \/ Tag
  BY <1>4 DEF VerifyRefs, SkipRef, PrepareCommit, Commit, VerifyCommit, VerifyClean, Tag, Refuse, bounds
<1>5. CASE Repair \/ Others
  BY <1>5 DEF Repair, Others, Crash, Break, Write, Undo, bounds
<1>6. CASE UNCHANGED vars
  BY <1>6 DEF vars, bounds
<1> QED BY <1>1, <1>2, <1>3, <1>4, <1>5, <1>6 DEF Next, Controller

\* Without a write there was none before.
LEMMA PureStep == Base /\ PureInv /\ [Next]_vars => PureInv'
<1> SUFFICES ASSUME Base, PureInv, [Next]_vars, writes' = 0
             PROVE  PureVersions' /\ PureSpread' /\ PureVariants'
  BY DEF PureInv
<1>1. writes = 0
  <2>1. writes \in Nat
    BY DEF Base, HistoryType
  <2>2. writes' = writes \/ writes' = writes + 1
    BY WritesCount
  <2> QED BY <2>1, <2>2
<1> QED BY <1>1, StepPureVersions, StepPureSpread, StepPureVariants

\* ... a step keeps it, ...
LEMMA InvariantStep == IInv /\ [Next]_vars => IInv'
BY BaseStep, StepSpreadInv, StepCommitInv, PureStep, StepGateInv, StepSettled DEF IInv

\* ... and so it always holds.
LEMMA InvariantHolds == Spec => []IInv
BY InvariantInit, InvariantStep, PTL DEF Spec

\* What a release is prepared from is proven, for any trains whose packages are
\* bundled as CEE bundles them (ReleasePlanner.build).
THEOREM PlanProven == Spec => []PlanIsProven
<1>1. IInv => PlanIsProven
  <2> SUFFICES ASSUME IInv, stage \notin {"readiness", "rehearsal", "plan"}
               PROVE  PlanIsProven
    BY DEF PlanIsProven
  <2>1. PlanAccepts(T) /\ \E name \in DOMAIN Trains : T = Trains[name]
    BY DEF IInv, GateInv, T
  <2> QED BY <2>1, AcceptedIsProven DEF PlanIsProven
<1> QED BY <1>1, InvariantHolds, PTL

\* A rehearsal that passed answers for the plan: whatever train is released, its
\* CEE is proved a promotion again, unless the registry serves other bytes
\* (check_cee_promotion_rehearsal).
THEOREM RehearsalIsAnswer == Spec => []RehearsalAnswers
PROOF
<1>1. IInv => RehearsalAnswers
  <2>. SUFFICES ASSUME IInv, Rehearsed = "pass", T.served["cee"] = T.npmDone.packages["cee"].bytes
                PROVE ComparesEqual(T.served["cee"], T.public.served, Context(T))
    BY DEF RehearsalAnswers
  <2>. DEFINE former == T.rehearsed.package
              from == RehearsalContext(T)
  <2>1. T.public # Missing /\ former # Missing /\ StalePins(T.captured.pins, T.source.revisions) = {}
        /\ ComparesEqual(former, T.public.served, from)
    BY DEF Rehearsed, Rehearsal
  <2>2. PICK name \in DOMAIN Trains : T = Trains[name]
    BY DEF IInv, GateInv, T
  <2>3. PinsFollow(T)
    BY <2>1 DEF StalePins, PinsFollow
  <2>4. /\ (T.captured.tokens = None) = (T.npmPlan.tokens = None)
        /\ Bundled(former) /\ Bundled(T.served["cee"]) /\ Bundled(T.public.served)
        /\ SameSource(former, T.served["cee"], from, Context(T))
        /\ BuiltApart(former, T.public.served) /\ BuiltApart(T.served["cee"], T.public.served)
    BY <2>1, <2>2, <2>3, BuildsAssumption, TrainsAssumption
  <2>5. /\ from.devName = Context(T).devName /\ from.publicName = Context(T).publicName
        /\ from.publicVersion = Context(T).publicVersion /\ from.scripts = Context(T).scripts
        /\ from.loader = Context(T).loader
        /\ from.tokens = T.captured.tokens /\ Context(T).tokens = T.npmPlan.tokens
    BY DEF RehearsalContext, Context
  <2>. QED BY <2>1, <2>4, <2>5, SameSourceCompares
<1>. QED BY <1>1, InvariantHolds, PTL

\* A release refuses after its start only what has changed since or what
\* preflight does not ask (ReleasePreflight): for any worlds and acceptances.
THEOREM Settled == Spec => []SettledInTheFirstMinute
<1>1. IInv => SettledInTheFirstMinute
  BY DEF IInv
<1> QED BY <1>1, InvariantHolds, PTL

\* The refs that a release records hold what was sealed, unless somebody writes
\* three times: a file before the commit, the file back before it is verified,
\* and the file again before the working tree is looked at (distribution.py,
\* refs.py).
THEOREM SealedCommits == Spec => [](writes <= 2 => CommittedIsSealed)
<1>1. IInv => (writes <= 2 => CommittedIsSealed)
  <2> SUFFICES ASSUME IInv, writes <= 2, NEW v \in Workspaces, refs[v] # <<>>
               PROVE  /\ \A f \in DOMAIN sealed[v] : refs[v][f] = sealed[v][f]
                      /\ raced \/ (refs[v].bundle = built[v] /\ refs[v].source = {} /\ refs[v].stray = Absent)
                      /\ v = "release" => tag = refs[v]
                      /\ writes = 0 => refs[v] = [Captured EXCEPT !.consumer = {"wired", v}, !.meta = {v}, !.bundle = {"built", "wired"}]
    BY DEF CommittedIsSealed
  <2>1. refs[v] = branch[v] /\ Materialized /\ (v = "release" => tag = refs[v]) /\ writes \in Nat
    BY DEF IInv, Base, RecordInv, HistoryType
  <2>2. Strays(v) = {}
    <3>1. \A f \in Strays(v) : writes >= 3
      BY <2>1 DEF IInv, CommitInv
    <3>2. ~(writes >= 3)
      BY <2>1
    <3> QED BY <3>1, <3>2
  <2>3. \A f \in DOMAIN sealed[v] : refs[v][f] = sealed[v][f]
    BY <2>1, <2>2 DEF Strays
  <2>4. ASSUME ~raced
        PROVE  refs[v].bundle = built[v] /\ refs[v].source = {} /\ refs[v].stray = Absent
    <3>1. SealedBuild(v, sealed[v])
      BY <2>1 DEF IInv, SpreadInv
    <3>2. /\ "bundle" \in DOMAIN sealed[v] /\ sealed[v]["bundle"] = built[v]
          /\ "source" \notin DOMAIN sealed[v] /\ "stray" \notin DOMAIN sealed[v]
      BY <2>4, <3>1 DEF SealedBuild
    <3>3. refs[v]["source"] = Captured["source"] /\ refs[v]["stray"] = Captured["stray"]
      BY <2>1, <3>2 DEF IInv, CommitInv, FileNames
    <3> QED BY <2>3, <3>2, <3>3, WiredFacts
  <2>5. ASSUME writes = 0
        PROVE  refs[v] = [Captured EXCEPT !.consumer = {"wired", v}, !.meta = {v}, !.bundle = {"built", "wired"}]
    <3>1. stage \in Sealing
      BY <2>1 DEF IInv, Base, ControlInv, Sealing
    <3>2. PureVariant(v)
      BY <2>5, <3>1 DEF IInv, PureInv, PureVariants
    <3>3. refs[v] = FinalTree(v)
      BY <2>1, <3>2 DEF PureVariant
    <3> QED BY <3>3 DEF FinalTree, StampedTree, Packed
  <2> QED BY <2>1, <2>3, <2>4, <2>5
<1> QED BY <1>1, InvariantHolds, PTL

================================================================================
