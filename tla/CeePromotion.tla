----------------------------- MODULE CeePromotion -----------------------------
(***************************************************************************)
(* Whether a public Embeddable Editor (CEE) package is a metadata-only     *)
(* promotion of the development package that a train built:                *)
(* release_support/packages.py, and its rehearsal before the train exists  *)
(* (ReleasePreflight.check_cee_promotion_rehearsal).  A hash stands for    *)
(* what it hashes, so a manifest holds the bundle that it describes.  A    *)
(* bundle is its code, the names its minifier chose, and the provenance    *)
(* marks embedded in it: how often each occurs, and with which value.      *)
(***************************************************************************)
EXTENDS Integers, FiniteSets

None == "none"
Missing == <<>>      \* a record that is not there

\* CEE_BUNDLE_PAIRS: a browser bundle per font strategy and the integration.
Main == "main"
Optional == {"host", "integration"}
Marks == {"version", "trace", "model", "tokens", "scripts"}

\* The pairs of a package: the first always, another when either half is there.
BundlePairs(package) == {Main} \cup (Optional \cap (DOMAIN package.bundles \cup DOMAIN package.manifests))

\* A package bundles nothing else, and every bundle holds code and counted marks.
Bundled(package) ==
  /\ DOMAIN package.bundles \cup DOMAIN package.manifests \subseteq {Main} \cup Optional
  /\ \A pair \in DOMAIN package.bundles :
       /\ {"code", "marks"} \subseteq DOMAIN package.bundles[pair]
       /\ \A mark \in Marks : package.bundles[pair].marks[mark].count \in Nat

\* _verify_bundle: every pair is whole, and its manifest describes its bundle.
VerifyBundle(package) ==
  \A pair \in BundlePairs(package) :
    /\ pair \in DOMAIN package.bundles /\ pair \in DOMAIN package.manifests
    /\ package.manifests[pair].of = package.bundles[pair]

\* _normalize_package_metadata: the names and versions of package.json and the
\* lock are the expected ones, and only a development package says where to
\* publish.
MetadataAgrees(package, name, version, config) ==
  /\ package.identity = <<name, version>>
  /\ package.publishConfig = config
  /\ package.lock \in {<<>>, <<name, version>>}

\* _public_release_changelog: one dated entry for the version, naming one model.
DeclaresModel(package) == package.changelog.entries = 1 /\ Cardinality(package.changelog.models) = 1
PublicModel(package) == CHOOSE version \in package.changelog.models : TRUE

\* _integration_manifests: the integration runs on an external model, so its
\* manifest names that model's bytes; the loader reads what was published.
IntegrationAgrees(dev, public, loader) ==
  "integration" \in DOMAIN dev.manifests =>
    LET d == dev.manifests["integration"]
        p == public.manifests["integration"]
    IN /\ DeclaresModel(public)
       /\ \A manifest \in {d, p} :
            manifest.model.version \in DOMAIN loader /\ manifest.model.bytes = loader[manifest.model.version]
       /\ p.model.version = PublicModel(public)
       /\ d.model.bytes.runtime = p.model.bytes.runtime
       /\ d.runtimes = p.runtimes

----------------------------------------------------------------------------
(* The bundles. *)

Count(bundle, mark) == bundle.marks[mark].count
Once(bundle, mark, value) == bundle.marks[mark] = [count |-> 1, value |-> value]

\* _normalize_bundle_provenance: which marks are provenance in this pair.  A
\* pin, an install policy and a model identity only where a bundle carries one.
Carried(d, p, context) ==
  {"version", "trace"}
  \cup {mark \in {"tokens", "scripts"} : context[mark] # None /\ Count(d, mark) + Count(p, mark) > 0}
  \cup {mark \in {"model"} : Count(d, mark) > 0}

\* Each of them occurs exactly once on both sides, with the value that the train
\* and the release declare; the public bundle may lack the install policy.
ProvenanceAgrees(d, p, context, publicVersion, publicModel) ==
  \A mark \in Carried(d, p, context) :
    CASE mark = "version" -> Once(d, mark, context.version) /\ Once(p, mark, publicVersion)
      [] mark = "trace"   -> Count(d, mark) = 1 /\ Count(p, mark) = 1
      [] mark = "model"   -> Count(d, mark) = 1 /\ Once(p, mark, publicModel)
      [] mark = "tokens"  -> Once(d, mark, context.tokens) /\ Count(p, mark) = 1
      [] mark = "scripts" -> Count(d, mark) = 1 /\ Count(p, mark) <= 1

\* The normalised bundle keeps every mark that is not provenance, ...
Normalized(bundle, carried) ==
  [bundle EXCEPT !.marks = [mark \in Marks |-> IF mark \in carried THEN None ELSE @[mark]]]

\* ... and two of them may differ in the names of local bindings alone
\* (_canonicalize_minified_renames, compare-scoped-bundles.cjs).
AlphaEquivalent(d, p) == d.code = p.code /\ d.marks = p.marks

BundlesAgree(d, p, context, publicVersion, publicModel) ==
  /\ ProvenanceAgrees(d, p, context, publicVersion, publicModel)
  /\ LET carried == Carried(d, p, context) IN
       AlphaEquivalent(Normalized(d, carried), Normalized(p, carried))

----------------------------------------------------------------------------
(* The packages. *)

Files(package) == <<DOMAIN package.bundles, DOMAIN package.manifests, DOMAIN package.other, package.lock = <<>>>>

\* What differs after the package metadata and the integration's provenance
\* are normalised: a manifest differs when its bundle does.
ChangedBundles(dev, public) ==
  {pair \in BundlePairs(dev) : dev.bundles[pair] # public.bundles[pair]}
ChangedManifests(dev, public) ==
  {pair \in BundlePairs(dev) : dev.manifests[pair] # public.manifests[pair]}

\* Mutant: only the first pair is proved.
ComparesMain(dev, public, context) ==
  /\ VerifyBundle(dev) /\ VerifyBundle(public)
  /\ MetadataAgrees(dev, context.devName, context.devVersion, "nexus")
  /\ MetadataAgrees(public, context.publicName, context.publicVersion, None)
  /\ Files(dev) = Files(public)
  /\ dev.other = public.other
  /\ dev.bundles[Main] # public.bundles[Main] =>
       /\ DeclaresModel(public)
       /\ BundlesAgree(dev.bundles[Main], public.bundles[Main], context, context.publicVersion, PublicModel(public))

\* compare_cee_packages: complete tarballs, the same file set, no other file
\* changed, a bundle and its manifest changed together (the integration's
\* manifest may change alone), a changelog changed by the one entry of the
\* release, and every changed bundle proved.
ComparesEqual(dev, public, context) ==
  /\ dev.complete /\ public.complete
  /\ VerifyBundle(dev) /\ VerifyBundle(public)
  /\ MetadataAgrees(dev, context.devName, context.devVersion, "nexus")
  /\ MetadataAgrees(public, context.publicName, context.publicVersion, None)
  /\ Files(dev) = Files(public)
  /\ IntegrationAgrees(dev, public, context.loader)
  /\ dev.other = public.other
  /\ \A pair \in BundlePairs(dev) \ {"integration"} :
       pair \in ChangedBundles(dev, public) <=> pair \in ChangedManifests(dev, public)
  /\ LET changed == ChangedBundles(dev, public) \cup ChangedManifests(dev, public) IN
       /\ dev.changelog # public.changelog => DeclaresModel(public) /\ dev.changelog.rest = public.changelog.rest
                                              /\ dev.changelog.entries = 0
       /\ changed # {} =>
            /\ DeclaresModel(public)
            /\ \A pair \in changed :
                 BundlesAgree(dev.bundles[pair], public.bundles[pair], context,
                              context.publicVersion, PublicModel(public))

\* Mutant: no pin is behind the train.
NoPinIsStale(pins, revisions) == {}

\* _cee_pins_behind_train: the pins of CEE that were not built from the commits
\* the train captures.
StalePins(pins, revisions) ==
  {package \in DOMAIN pins : package \in DOMAIN revisions /\ pins[package] # revisions[package]}

\* check_cee_promotion_rehearsal: the same proof against the package that CEE's
\* CI built of the commit, "warn" when the pins may be to blame.
Rehearsal(built, public, context, pins, revisions) ==
  CASE public = Missing -> "warn"
    [] built = Missing -> "fail"
    [] OTHER ->
         LET stale == StalePins(pins, revisions) # {}
             proved == ComparesEqual(built, public, context)
         IN CASE ~proved /\ ~stale -> "fail"
              [] stale -> "warn"
              [] OTHER -> "pass"

----------------------------------------------------------------------------
(* Two builds of one source, as CEE's build makes them (external).  Both are *)
(* given by the context that they are compared in: the version a package is *)
(* published under, the version and the pin that its bundles were built with. *)

\* A build stamps its own string where the other one stamped its own.
Restamped(mark, from, to) ==
  IF from # to /\ mark.count > 0 /\ mark.value = from THEN [count |-> mark.count, value |-> to] ELSE mark
Renamed(identity, from, to) ==
  IF identity = <<from.devName, from.devVersion>> THEN <<to.devName, to.devVersion>> ELSE identity

\* The minifier may choose other names, and the load trace is the minute of the build.
SameCode(b, d, from, to) ==
  /\ d.code = b.code
  /\ \A mark \in {"version", "tokens"} : d.marks[mark] = Restamped(b.marks[mark], from[mark], to[mark])
  /\ \A mark \in {"model", "scripts"} : d.marks[mark] = b.marks[mark]
  /\ Count(d, "trace") = Count(b, "trace")

\* The packages differ in their version strings alone, and each manifest
\* describes the bundle of its own build.
SameSource(built, dev, from, to) ==
  /\ dev.identity = Renamed(built.identity, from, to)
  /\ dev.lock = IF built.lock = <<>> THEN <<>> ELSE Renamed(built.lock, from, to)
  /\ dev.complete = built.complete /\ dev.publishConfig = built.publishConfig
  /\ dev.changelog = built.changelog /\ dev.other = built.other
  /\ DOMAIN dev.bundles = DOMAIN built.bundles /\ DOMAIN dev.manifests = DOMAIN built.manifests
  /\ \A pair \in DOMAIN dev.bundles : SameCode(built.bundles[pair], dev.bundles[pair], from, to)
  /\ \A pair \in DOMAIN dev.bundles \cap DOMAIN dev.manifests :
       built.manifests[pair].of = built.bundles[pair] => dev.manifests[pair].of = dev.bundles[pair]
  /\ "integration" \in DOMAIN dev.manifests =>
       /\ dev.manifests["integration"].model = built.manifests["integration"].model
       /\ dev.manifests["integration"].runtimes = built.manifests["integration"].runtimes

\* Two packages were not built in one minute.
BuiltApart(one, other) ==
  \A pair \in DOMAIN one.bundles \cap DOMAIN other.bundles :
    one.bundles[pair].marks["trace"] # other.bundles[pair].marks["trace"]

\* What a promotion must be, whatever the comparison does: the same executable
\* code under another channel's metadata.
IsPromotion(dev, public) ==
  /\ DOMAIN dev.bundles = DOMAIN public.bundles
  /\ \A pair \in DOMAIN dev.bundles : dev.bundles[pair].code = public.bundles[pair].code
  /\ dev.other = public.other
  /\ \A pair \in DOMAIN public.manifests : public.manifests[pair].of = public.bundles[pair]
  /\ "integration" \in DOMAIN dev.manifests =>
       dev.manifests["integration"].model.bytes.runtime = public.manifests["integration"].model.bytes.runtime
================================================================================
