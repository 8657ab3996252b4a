---------------------------- MODULE FrontendReactor ----------------------------
(***************************************************************************)
(* A frontend build: the tasks of BuildScheduler are the isolated builds   *)
(* of taskexecutor/ShellTaskExecutor.py, which hand packages to each other *)
(* through the reactor of reactor.py.  What a build hands over early is    *)
(* provisional: refs/ may name it only when its whole chain was checked.   *)
(***************************************************************************)
EXTENDS BuildScheduler

VARIABLES
  surface,    \* what each repository publishes and resolves; never changes
  build,      \* the _Build object, shared by the threads under its lock
  refs,       \* refs/<name>.json on disk: the advertised digest, 0 for none
  copy,       \* the digests each isolated copy resolved, 0 for none
  step,       \* where each task's executor is
  selection   \* the answer of runtime_selection and the digests it selected

reactorVars == <<surface, build, refs, copy, step, selection>>
allVars == <<vars, reactorVars>>

\* Digests of a package: the bytes that were packed first, and other bytes.
Digests == {1, 2}
Repacked(i) == IF i \in plan.early THEN Digests ELSE {1}
NoDigests == [i \in Nodes |-> 0]

Published == surface.published
Producers(i) == surface.resolves[i]

----------------------------------------------------------------------------

\* The inventory is producer-first; a designer's checks also need packages it
\* does not resolve.  Only a publisher has a package phase.
ReactorInit ==
  /\ Init
  /\ plan.isolated = Nodes
  /\ \A i \in Nodes : plan.edges[i] \subseteq 1..(i - 1)
  /\ \E published \in SUBSET Nodes, tests \in SUBSET Nodes, designer \in Nodes :
       /\ plan.early \subseteq published
       /\ \A i \in Nodes : plan.edges[i] \subseteq published
       /\ tests \subseteq plan.edges[designer]
       /\ surface = [published |-> published,
                     resolves |-> [plan.edges EXCEPT ![designer] = @ \ tests]]
  /\ build = [available |-> NoDigests, pending |-> Published, unverified |-> NoDigests,
              advertised |-> {}, deferred |-> {}]
  /\ refs = NoDigests
  /\ copy = [i \in Nodes |-> NoDigests]
  /\ step = [i \in Nodes |-> "begin"]
  /\ selection = [answer |-> "none", digests |-> NoDigests]

----------------------------------------------------------------------------
(* The task's executor, one thread each. *)

At(i, place) == thread[i] \in {"working", "packaged"} /\ step[i] = place
Move(i, place) == step' = [step EXCEPT ![i] = place]

\* resolve and prepare_checks read what they need, or raise.
Resolvable(i) == \A p \in plan.edges[i] : p \notin build.pending /\ build.available[p] # 0

Resolve(i) ==
  /\ At(i, "begin")
  /\ IF Resolvable(i)
     THEN /\ copy' = [copy EXCEPT ![i] = [p \in Nodes |-> IF p \in Producers(i)
                                                          THEN build.available[p] ELSE 0]]
          /\ Move(i, "resolved")
     ELSE /\ Move(i, "broken")
          /\ copy' = copy
  /\ UNCHANGED <<vars, surface, build, refs, selection>>

\* No usable result: the whole source is copied and resolved a second time.
Materialize(i) ==
  /\ At(i, "resolved")
  /\ IF Resolvable(i)
     THEN /\ copy' = [copy EXCEPT ![i] = [p \in Nodes |-> IF p \in Producers(i)
                                                          THEN build.available[p] ELSE 0]]
          /\ Move(i, "building")
     ELSE /\ Move(i, "broken")
          /\ copy' = copy
  /\ UNCHANGED <<vars, surface, build, refs, selection>>

\* Mutant: every waiting package is advertised.
SettledAll(b) == b.deferred

\* The waiting packages whose producers are advertised, or about to be.
Settled(b) ==
  UNION {A \in SUBSET b.deferred :
           \A i \in A : Producers(i) \intersect Published \subseteq b.advertised \union A}

\* A verified package joins the build, and whatever it settles is advertised.
Join(i, digest) ==
  LET joined == [build EXCEPT !.available[i] = digest,
                              !.pending = @ \ {i},
                              !.unverified[i] = 0,
                              !.deferred = @ \union {i}]
  IN  /\ build' = [joined EXCEPT !.advertised = @ \union Settled(joined),
                                 !.deferred = @ \ Settled(joined)]
      /\ refs' = [n \in Nodes |-> IF n \in Settled(joined) THEN joined.available[n] ELSE refs[n]]

\* A result that passed for exactly these inputs stands for running them.
Reuse(i) ==
  /\ At(i, "resolved")
  /\ IF i \in Published THEN Join(i, 1) ELSE UNCHANGED <<build, refs>>
  /\ Move(i, "kept")
  /\ UNCHANGED <<vars, surface, copy, selection>>

\* The package phase passed: store the package for this build's consumers.
Offer(i) ==
  /\ At(i, "building")
  /\ i \in plan.early
  /\ build' = [build EXCEPT !.available[i] = 1, !.pending = @ \ {i}, !.unverified[i] = 1]
  /\ Move(i, "offered")
  /\ UNCHANGED <<vars, surface, refs, copy, selection>>

\* Mutant: the scheduler hears of the package before it is stored.
AnnounceFirst(i) ==
  /\ At(i, "building")
  /\ Package(i)
  /\ UNCHANGED reactorVars

\* ... and tell the scheduler.
Announce(i) ==
  /\ At(i, "offered")
  /\ Package(i)
  /\ Move(i, "checking")
  /\ UNCHANGED <<surface, build, refs, copy, selection>>

\* The remaining commands passed.
Check(i) ==
  /\ At(i, IF i \in plan.early THEN "checking" ELSE "building")
  /\ Move(i, "checked")
  /\ UNCHANGED <<vars, surface, build, refs, copy, selection>>

\* Pack the verified output; a package offered before must be the same bytes.
Keep(i) ==
  /\ At(i, "checked")
  /\ \E digest \in Repacked(i) :
       IF i \in Published /\ build.unverified[i] \notin {0, digest}
       THEN Move(i, "broken") /\ UNCHANGED <<build, refs>>
       ELSE /\ IF i \in Published THEN Join(i, digest) ELSE UNCHANGED <<build, refs>>
            /\ Move(i, "kept")
  /\ UNCHANGED <<vars, surface, copy, selection>>

\* A command fails, or an edit of the checkout is noticed.
Break(i) ==
  /\ \E place \in {"begin", "resolved", "building", "checking", "checked"} : At(i, place)
  /\ Move(i, "broken")
  /\ UNCHANGED <<vars, surface, build, refs, copy, selection>>

\* Mutant: a task that fails ends without an event.
LeaveUnheard(i) ==
  /\ Going(i)
  /\ step[i] \in {"kept", "broken"}
  /\ thread' = [thread EXCEPT ![i] = IF step[i] = "kept" THEN "passed" ELSE "failed"]
  /\ events' = IF step[i] = "kept" THEN Append(events, [kind |-> "done", task |-> i]) ELSE events
  /\ UNCHANGED <<plan, remaining, running, results, packaged, outcome, reactorVars>>

\* The executor returns its exit code, or an exception leaves it.
Leave(i) ==
  /\ End(i)
  /\ \/ thread'[i] = "passed" /\ step[i] = "kept"
     \/ thread'[i] = "failed" /\ step[i] = "broken"
     \/ thread'[i] = "raised"
  /\ UNCHANGED reactorVars

\* runtime_selection, once the plan was executed without a failure.
Select ==
  /\ outcome = "returned"
  /\ selection.answer = "none"
  /\ \A i \in Nodes : results[i] = "passed"
  /\ selection' = IF build.pending # {} \/ build.unverified # NoDigests \/ build.deferred # {}
                  THEN [selection EXCEPT !.answer = "refused"]
                  ELSE [answer |-> "selected", digests |-> build.available]
  /\ UNCHANGED <<vars, surface, build, refs, copy, step>>

Executor(i) ==
  \/ Resolve(i) \/ Materialize(i) \/ Reuse(i) \/ Offer(i) \/ Announce(i)
  \/ Check(i) \/ Keep(i) \/ Break(i) \/ Leave(i)

ReactorNext ==
  \/ (Coordinator \/ Interrupt) /\ UNCHANGED reactorVars
  \/ \E i \in Nodes : Executor(i)
  \/ Select

ReactorSpec == ReactorInit /\ [][ReactorNext]_allVars

----------------------------------------------------------------------------
(* Properties. *)

\* "refs/ keeps holding only packages whose whole chain of checks passed"
\* (reactor.py:28): an advertised package passed its own checks, and was built
\* on exactly the bytes that are advertised for each of its producers.
RefsAreVerified ==
  \A i \in Nodes : refs[i] # 0 =>
    /\ step[i] = "kept"
    /\ \A p \in Producers(i) : copy[i][p] = refs[p] /\ refs[p] # 0

\* A task the scheduler starts never finds a producer missing, and a build whose
\* tasks all passed has nothing unfinished: both refusals are guards that the
\* scheduler makes unreachable, and what is selected is what is advertised.
NeverRefused ==
  /\ \A i \in Nodes : thread[i] # "waiting" => Resolvable(i)
  /\ selection.answer # "refused"
  /\ selection.answer = "selected" => selection.digests = refs

\* The executors behave as the scheduler assumes of its threads.
ImplementsScheduler == Spec
=============================================================================
