---------------------------- MODULE BuildScheduler ----------------------------
(***************************************************************************)
(* The build scheduler of build_scheduler.py: a coordinator that launches  *)
(* tasks on worker threads and hears of them only through one queue, so    *)
(* that what it knows of a task may be older than what the task has done.  *)
(***************************************************************************)
EXTENDS Integers, FiniteSets, Sequences

CONSTANTS
  N,            \* shell tasks of the plan, numbered in plan order
  MaxJobs       \* bound on --jobs

ASSUME SizeAssumption == N \in Nat /\ MaxJobs \in Nat

Nodes == 1..N

VARIABLES
  plan,         \* the tasks and the options of this build; never changes
  remaining,    \* tasks neither launched nor blocked
  running,      \* launched tasks whose end has not been heard
  results,      \* what the coordinator recorded of each task
  packaged,     \* tasks whose early package was announced
  events,       \* the queue from the worker threads
  thread,       \* what each task has really done
  outcome       \* where the coordinator is

vars == <<plan, remaining, running, results, packaged, events, thread, outcome>>

----------------------------------------------------------------------------
(* The plan. *)

\* Mutant: a barrier waits for what precedes it, and nothing waits for it.
DependenciesOneSided(isolated, manifest) ==
  [i \in Nodes |-> IF i \in isolated THEN manifest[i] \ {i} ELSE 1..(i - 1)]

\* An isolated task waits for the producers its manifests name; any other task
\* is a barrier: it waits for all before it, and all after it wait for it.
Dependencies(isolated, manifest) ==
  [i \in Nodes |->
     IF i \in isolated
     THEN (manifest[i] \ {i}) \union {j \in 1..(i - 1) : j \notin isolated}
     ELSE 1..(i - 1)]

\* No cycle: of every set of tasks, one needs none of the others.
Acyclic(edges) ==
  \A S \in SUBSET Nodes : S # {} => \E i \in S : edges[i] \intersect S = {}

\* Barriers (Java) come first in every plan that has both kinds of task.  An
\* early task has a package phase.  A release's build graph is a plan whose
\* tasks are all isolated and none early.
Plans ==
  [edges : [Nodes -> SUBSET Nodes], isolated : SUBSET Nodes, early : SUBSET Nodes,
   failFast : BOOLEAN, jobs : 1..MaxJobs]

Init ==
  /\ \E isolated \in {first..N : first \in 1..(N + 1)} :
     \E manifest \in [isolated -> SUBSET isolated], early \in SUBSET isolated :
     \E failFast \in BOOLEAN, jobs \in 1..MaxJobs :
       /\ Acyclic(Dependencies(isolated, manifest))
       /\ plan = [edges |-> Dependencies(isolated, manifest), isolated |-> isolated,
                  early |-> early, failFast |-> failFast, jobs |-> jobs]
  /\ remaining = Nodes
  /\ running = {}
  /\ results = [i \in Nodes |-> "none"]
  /\ packaged = {}
  /\ events = <<>>
  /\ thread = [i \in Nodes |-> "waiting"]
  /\ outcome = "running"

----------------------------------------------------------------------------
(* The coordinator.  One turn of its loop blocks, then launches, then waits *)
(* for one event; what the threads do meanwhile waits in the queue.         *)

Coordinating == outcome = "running"

Unsuccessful(i) == results[i] \in {"failed", "blocked"}
Failing == \E i \in Nodes : Unsuccessful(i)

\* Mutant: only a failed producer blocks its consumers, not a blocked one.
BlockableDirect == {i \in remaining : \E p \in plan.edges[i] : results[p] = "failed"}

Blockable == {i \in remaining : \E p \in plan.edges[i] : Unsuccessful(p)}

\* Mutant: launching a producer is enough.
SatisfiedLaunched(p) == p \notin remaining

\* A producer passed, or packaged and has not been heard to end.
Satisfied(p) == results[p] = "passed" \/ (p \in packaged /\ results[p] = "none")

Ready == {i \in remaining : \A p \in plan.edges[i] : Satisfied(p)}

\* Mutant: the bound is checked after the launch.
RoomAfter == Cardinality(running) <= plan.jobs

Room == Cardinality(running) < plan.jobs

Open == ~(Failing /\ plan.failFast) /\ Room

\* Nothing is left to block or to launch in this turn.
Scanned == Blockable = {} /\ ~(Open /\ Ready # {})

Block(i) ==
  /\ Coordinating
  /\ i \in Blockable
  /\ remaining' = remaining \ {i}
  /\ results' = [results EXCEPT ![i] = "blocked"]
  /\ UNCHANGED <<plan, running, packaged, events, thread, outcome>>

Launch(i) ==
  /\ Coordinating
  /\ Blockable = {}
  /\ Open
  /\ i \in Ready
  /\ \A j \in Ready : i <= j
  /\ remaining' = remaining \ {i}
  /\ running' = running \union {i}
  /\ thread' = [thread EXCEPT ![i] = "working"]
  /\ UNCHANGED <<plan, results, packaged, events, outcome>>

Hearing(kind, i) ==
  /\ Coordinating
  /\ Scanned
  /\ running # {}
  /\ events # <<>>
  /\ Head(events) = [kind |-> kind, task |-> i]
  /\ events' = Tail(events)

HearPackaged(i) ==
  /\ Hearing("packaged", i)
  /\ packaged' = packaged \union {i}
  /\ UNCHANGED <<plan, remaining, running, results, thread, outcome>>

\* Mutant: a task that packaged counts as passed.
HearDonePackaged(i) ==
  /\ Hearing("done", i)
  /\ running' = running \ {i}
  /\ results' = [results EXCEPT ![i] =
                   IF thread[i] = "passed" \/ i \in packaged THEN "passed" ELSE "failed"]
  /\ UNCHANGED <<plan, remaining, packaged, thread, outcome>>

\* Mutant: a task that ended is still counted as running.
HearDoneKept(i) ==
  /\ Hearing("done", i)
  /\ results' = [results EXCEPT ![i] = IF thread[i] = "passed" THEN "passed" ELSE "failed"]
  /\ UNCHANGED <<plan, remaining, running, packaged, thread, outcome>>

\* An exception of the task comes out of its future here.
HearDone(i) ==
  /\ Hearing("done", i)
  /\ running' = running \ {i}
  /\ IF thread[i] = "raised"
     THEN outcome' = "raising" /\ results' = results
     ELSE /\ results' = [results EXCEPT ![i] = IF thread[i] = "passed" THEN "passed" ELSE "failed"]
          /\ outcome' = outcome
  /\ UNCHANGED <<plan, remaining, packaged, thread>>

\* Nothing runs and nothing may start: the build is over, or it was stopped by
\* a failure, or there is no runnable task.
Finish ==
  /\ Coordinating
  /\ Scanned
  /\ running = {}
  /\ IF remaining = {} \/ (Failing /\ plan.failFast)
     THEN outcome' = "returned"
     ELSE outcome' = "stalled"
  /\ results' = [i \in Nodes |-> IF i \in remaining /\ outcome' = "returned"
                                 THEN "blocked" ELSE results[i]]
  /\ remaining' = IF outcome' = "returned" THEN {} ELSE remaining
  /\ UNCHANGED <<plan, running, packaged, events, thread>>

\* Ctrl-C while the coordinator waits: it cancels the build and waits for the
\* threads.  A second one ends that wait.
Interrupt ==
  /\ outcome \in {"running", "raising"}
  /\ outcome' = IF outcome = "running" THEN "raising" ELSE "abandoned"
  /\ UNCHANGED <<plan, remaining, running, results, packaged, events, thread>>

Going(i) == thread[i] \in {"working", "packaged"}

\* The pool is left once every thread has ended.
Raise ==
  /\ outcome = "raising"
  /\ \A i \in Nodes : ~Going(i)
  /\ outcome' = "raised"
  /\ UNCHANGED <<plan, remaining, running, results, packaged, events, thread>>

----------------------------------------------------------------------------
(* The worker threads. *)

Package(i) ==
  /\ thread[i] = "working"
  /\ i \in plan.early
  /\ thread' = [thread EXCEPT ![i] = "packaged"]
  /\ events' = Append(events, [kind |-> "packaged", task |-> i])
  /\ UNCHANGED <<plan, remaining, running, results, packaged, outcome>>

\* A task ends with an exit code, or with an exception.
End(i) ==
  /\ Going(i)
  /\ \E how \in {"passed", "failed", "raised"} : thread' = [thread EXCEPT ![i] = how]
  /\ events' = Append(events, [kind |-> "done", task |-> i])
  /\ UNCHANGED <<plan, remaining, running, results, packaged, outcome>>

----------------------------------------------------------------------------

Coordinator ==
  \/ \E i \in Nodes : Block(i) \/ Launch(i) \/ HearPackaged(i) \/ HearDone(i)
  \/ Finish \/ Raise

Next == Coordinator \/ Interrupt \/ \E i \in Nodes : Package(i) \/ End(i)

Spec == Init /\ [][Next]_vars

\* The coordinator goes on, and every task ends: no command of a build waits
\* for input, and a cancelled one is killed.
FairSpec == Spec /\ WF_vars(Coordinator) /\ \A i \in Nodes : WF_vars(End(i))

----------------------------------------------------------------------------
(* Properties. *)

Events == [kind : {"packaged", "done"}, task : Nodes]

TypeOK ==
  /\ plan \in Plans
  /\ remaining \subseteq Nodes
  /\ running \subseteq Nodes /\ Cardinality(running) <= plan.jobs
  /\ results \in [Nodes -> {"none", "passed", "failed", "blocked"}]
  /\ packaged \subseteq plan.early
  /\ events \in Seq(Events)
  /\ thread \in [Nodes -> {"waiting", "working", "packaged", "passed", "failed", "raised"}]
  /\ outcome \in {"running", "returned", "stalled", "raising", "raised", "abandoned"}

\* Whatever waits in the queue, a task that started had every producer's
\* package: the producer passed, or packaged early and is past that.
ProducersFirst ==
  \A i \in Nodes : thread[i] # "waiting" =>
    \A p \in plan.edges[i] :
      \/ thread[p] = "passed"
      \/ p \in packaged /\ thread[p] \notin {"waiting", "working"}

\* "Other commands remain exclusive barriers in plan order"
\* (build_scheduler.py:3): nothing else runs while a barrier does.
BarriersAreExclusive ==
  \A i, j \in Nodes : Going(i) /\ Going(j) /\ i \notin plan.isolated => i = j

\* A build that returns has a result for every task, and a true one: a task is
\* blocked exactly when it never ran, and without a failure none is.
ReportIsTrue ==
  outcome = "returned" =>
    /\ \A i \in Nodes : results[i] = (IF thread[i] = "waiting" THEN "blocked" ELSE thread[i])
    /\ \A i \in Nodes : results[i] = "blocked" =>
         IF plan.failFast THEN \E p \in Nodes : results[p] = "failed"
                          ELSE \E p \in plan.edges[i] : results[p] # "passed"

\* The guard at the end of the loop is never reached: an acyclic plan always
\* has a task to run, to wait for or to block.
NeverStalls == outcome # "stalled"

\* With fail_fast, no task starts once a failure was heard.
NothingStartsAfterFailure ==
  [][plan.failFast /\ Failing =>
       \A i \in Nodes : thread[i] = "waiting" => thread'[i] = "waiting"]_vars

\* Every build ends with no thread of its own left, unless the operator
\* interrupts the wait itself; then too every thread ends.
Ends == <>[](outcome \in {"returned", "raised", "abandoned"} /\ \A i \in Nodes : ~Going(i))
=============================================================================
