------------------------- MODULE BuildSchedulerProofs -------------------------
(***************************************************************************)
(* What TLAPS proves of the build scheduler, for plans of every size and   *)
(* every number of jobs.                                                   *)
(***************************************************************************)
EXTENDS BuildScheduler, TLAPS, FiniteSetTheorems

----------------------------------------------------------------------------
(* The inductive invariant. *)

Ended == {"passed", "failed", "raised"}

\* What dependencies and the planner's order give: no cycle, and a barrier that
\* waits for all before it and is waited for by all after it.
PlanInv ==
  /\ plan \in Plans
  /\ Acyclic(plan.edges)
  /\ plan.early \subseteq plan.isolated
  /\ \A i \in Nodes \ plan.isolated :
       /\ plan.edges[i] = 1..(i - 1)
       /\ \A j \in Nodes : j < i => j \notin plan.isolated
       /\ \A j \in Nodes : i < j => i \in plan.edges[j]

\* What the coordinator believes of a task, against what its thread did.
BookInv ==
  \A i \in Nodes :
    /\ i \in remaining => results[i] = "none" /\ thread[i] = "waiting"
    /\ i \in running => results[i] = "none" /\ thread[i] # "waiting"
    /\ results[i] \in {"passed", "failed"} => thread[i] = results[i]
    /\ results[i] = "blocked" => thread[i] = "waiting"
    /\ i \in packaged => thread[i] \notin {"waiting", "working"}
    /\ outcome \in {"running", "returned"} =>
         i \in remaining \/ i \in running \/ results[i] # "none"

\* A queued event tells what its thread has already done.
EventInv ==
  \A n \in 1..Len(events) :
    /\ thread[events[n].task] \notin {"waiting", "working"}
    /\ events[n].kind = "packaged" => events[n].task \in plan.early
    /\ events[n].kind = "done" => thread[events[n].task] \in Ended

\* A blocked task has an unsuccessful producer, and at the end of every such
\* chain a task failed.
BlockInv ==
  /\ Failing => \E p \in Nodes : results[p] = "failed"
  /\ outcome = "running" =>
       \A i \in Nodes : results[i] = "blocked" => \E p \in plan.edges[i] : Unsuccessful(p)
  /\ outcome = "returned" => remaining = {} /\ running = {}

IInv ==
  /\ TypeOK /\ PlanInv
  /\ BookInv /\ EventInv /\ BlockInv
  /\ ProducersFirst /\ ReportIsTrue /\ NeverStalls

----------------------------------------------------------------------------
(* Initial states. *)

LEMMA DependenciesShape ==
  ASSUME NEW isolated \in {first..N : first \in 1..(N + 1)},
         NEW manifest \in [isolated -> SUBSET isolated]
  PROVE  /\ Dependencies(isolated, manifest) \in [Nodes -> SUBSET Nodes]
         /\ \A i \in Nodes \ isolated :
              /\ Dependencies(isolated, manifest)[i] = 1..(i - 1)
              /\ \A j \in Nodes : j < i => j \notin isolated
              /\ \A j \in Nodes : i < j => i \in Dependencies(isolated, manifest)[j]
<1>1. isolated \subseteq Nodes
  BY SizeAssumption DEF Nodes
<1>2. ASSUME NEW i \in isolated PROVE manifest[i] \subseteq Nodes
  BY <1>1
<1>3. \A i \in Nodes : 1..(i - 1) \subseteq Nodes
  BY SizeAssumption DEF Nodes
<1>4. Dependencies(isolated, manifest) \in [Nodes -> SUBSET Nodes]
  BY <1>2, <1>3 DEF Dependencies
<1>5. PICK first \in 1..(N + 1) : isolated = first..N
  OBVIOUS
<1>6. ASSUME NEW i \in Nodes \ isolated
      PROVE  /\ Dependencies(isolated, manifest)[i] = 1..(i - 1)
             /\ \A j \in Nodes : j < i => j \notin isolated
             /\ \A j \in Nodes : i < j => i \in Dependencies(isolated, manifest)[j]
  BY <1>5, SizeAssumption DEF Dependencies, Nodes
<1> QED BY <1>4, <1>6

LEMMA InvInit == Init => IInv
<1> SUFFICES ASSUME Init PROVE IInv
  OBVIOUS
<1>1. PICK isolated \in {first..N : first \in 1..(N + 1)} :
      \E manifest \in [isolated -> SUBSET isolated], early \in SUBSET isolated :
      \E failFast \in BOOLEAN, jobs \in 1..MaxJobs :
        /\ Acyclic(Dependencies(isolated, manifest))
        /\ plan = [edges |-> Dependencies(isolated, manifest), isolated |-> isolated,
                   early |-> early, failFast |-> failFast, jobs |-> jobs]
  BY DEF Init
<1>2. PICK first \in 1..(N + 1) : isolated = first..N
  OBVIOUS
<1>3. PICK manifest \in [isolated -> SUBSET isolated], early \in SUBSET isolated,
           failFast \in BOOLEAN, jobs \in 1..MaxJobs :
        /\ Acyclic(Dependencies(isolated, manifest))
        /\ plan = [edges |-> Dependencies(isolated, manifest), isolated |-> isolated,
                   early |-> early, failFast |-> failFast, jobs |-> jobs]
  BY <1>1
<1> DEFINE edges == Dependencies(isolated, manifest)
<1>4. /\ edges \in [Nodes -> SUBSET Nodes]
      /\ \A i \in Nodes \ isolated :
           /\ edges[i] = 1..(i - 1)
           /\ \A j \in Nodes : j < i => j \notin isolated
           /\ \A j \in Nodes : i < j => i \in edges[j]
  BY DependenciesShape
<1>5. isolated \subseteq Nodes
  BY <1>2, SizeAssumption DEF Nodes
<1>6. plan = [edges |-> edges, isolated |-> isolated, early |-> early,
              failFast |-> failFast, jobs |-> jobs] /\ Acyclic(edges)
  BY <1>3
<1> HIDE DEF edges
<1>7. PlanInv
  BY <1>4, <1>5, <1>6 DEF PlanInv, Plans
<1>8. /\ remaining = Nodes /\ running = {} /\ results = [i \in Nodes |-> "none"]
      /\ packaged = {} /\ events = <<>> /\ thread = [i \in Nodes |-> "waiting"]
      /\ outcome = "running"
  BY DEF Init
<1>9. Cardinality(running) <= plan.jobs
  BY <1>6, <1>8, FS_EmptySet
<1>10. events \in Seq(Events) /\ Len(events) = 0
  BY <1>8
<1>11. TypeOK
  BY <1>7, <1>8, <1>9, <1>10 DEF TypeOK, PlanInv
<1>12. BookInv /\ EventInv /\ BlockInv /\ ProducersFirst /\ ReportIsTrue /\ NeverStalls
  BY <1>8, <1>10 DEF BookInv, EventInv, BlockInv, ProducersFirst, ReportIsTrue, NeverStalls,
     Failing, Unsuccessful
<1> QED BY <1>7, <1>11, <1>12 DEF IInv

----------------------------------------------------------------------------
(* One lemma per action. *)

LEMMA PlanStep == ASSUME PlanInv, plan' = plan PROVE PlanInv'
BY DEF PlanInv, Acyclic

LEMMA RunningFinite == ASSUME TypeOK PROVE IsFiniteSet(running) /\ Cardinality(running) \in Nat
<1>1. IsFiniteSet(Nodes)
  BY SizeAssumption, FS_Interval DEF Nodes
<1>2. IsFiniteSet(running)
  BY <1>1, FS_Subset DEF TypeOK
<1> QED BY <1>2, FS_CardinalityType

LEMMA BlockStep == ASSUME IInv, NEW i \in Nodes, Block(i) PROVE IInv'
<1>1. /\ outcome = "running" /\ i \in remaining
      /\ \E p \in plan.edges[i] : Unsuccessful(p)
      /\ remaining' = remaining \ {i}
      /\ results' = [results EXCEPT ![i] = "blocked"]
      /\ UNCHANGED <<plan, running, packaged, events, thread, outcome>>
  BY DEF Block, Coordinating, Blockable
<1>2. TypeOK'
  BY <1>1 DEF IInv, TypeOK
<1>3. PlanInv'
  BY <1>1, PlanStep DEF IInv
<1>4. BookInv' /\ EventInv'
  BY <1>1 DEF IInv, TypeOK, BookInv, EventInv
<1>5. /\ results[i] = "none" /\ results'[i] = "blocked"
      /\ \A j \in Nodes : j # i => results'[j] = results[j]
  BY <1>1 DEF IInv, TypeOK, BookInv
<1>6. plan.edges \in [Nodes -> SUBSET Nodes]
  BY DEF IInv, PlanInv, Plans
<1>7. Failing
  BY <1>1, <1>6 DEF Failing
<1>8. BlockInv'
  BY <1>1, <1>5, <1>6, <1>7 DEF IInv, BlockInv, Failing, Unsuccessful
<1>9. ProducersFirst' /\ ReportIsTrue' /\ NeverStalls'
  BY <1>1 DEF IInv, ProducersFirst, ReportIsTrue, NeverStalls
<1> QED BY <1>2, <1>3, <1>4, <1>8, <1>9 DEF IInv

LEMMA LaunchStep == ASSUME IInv, NEW i \in Nodes, Launch(i) PROVE IInv'
<1>1. /\ outcome = "running" /\ i \in remaining /\ Cardinality(running) < plan.jobs
      /\ \A p \in plan.edges[i] : Satisfied(p)
      /\ remaining' = remaining \ {i}
      /\ running' = running \union {i}
      /\ thread' = [thread EXCEPT ![i] = "working"]
      /\ UNCHANGED <<plan, results, packaged, events, outcome>>
  BY DEF Launch, Coordinating, Open, Room, Ready
<1>2. Cardinality(running') <= plan.jobs
  <2>1. IsFiniteSet(running) /\ Cardinality(running) \in Nat
    BY RunningFinite DEF IInv
  <2>2. Cardinality(running \union {i}) =
          IF i \in running THEN Cardinality(running) ELSE Cardinality(running) + 1
    BY <2>1, FS_AddElement
  <2>3. plan.jobs \in Nat
    BY SizeAssumption DEF IInv, PlanInv, Plans
  <2> QED BY <1>1, <2>1, <2>2, <2>3
<1>3. TypeOK'
  BY <1>1, <1>2 DEF IInv, TypeOK
<1>4. PlanInv'
  BY <1>1, PlanStep DEF IInv
<1>5. /\ results[i] = "none" /\ thread[i] = "waiting" /\ thread'[i] = "working"
      /\ \A j \in Nodes : j # i => thread'[j] = thread[j]
  BY <1>1 DEF IInv, TypeOK, BookInv
<1>6. BookInv'
  BY <1>1, <1>5 DEF IInv, BookInv
<1>7. EventInv'
  BY <1>1, <1>5 DEF IInv, EventInv, TypeOK, Events, Ended
<1>8. BlockInv' /\ ReportIsTrue' /\ NeverStalls'
  BY <1>1 DEF IInv, BlockInv, ReportIsTrue, NeverStalls, Failing, Unsuccessful
<1>9. ASSUME NEW p \in Nodes, Satisfied(p)
      PROVE  thread[p] = "passed" \/ (p \in packaged /\ thread[p] \notin {"waiting", "working"})
  BY <1>9 DEF IInv, BookInv, Satisfied
<1>10. plan.edges \in [Nodes -> SUBSET Nodes]
  BY DEF IInv, PlanInv, Plans
<1>11. ProducersFirst'
  BY <1>1, <1>5, <1>9, <1>10 DEF IInv, ProducersFirst
<1> QED BY <1>3, <1>4, <1>6, <1>7, <1>8, <1>11 DEF IInv

\* Hearing an event takes the head off the queue.
LEMMA HearingHead ==
  ASSUME IInv, NEW kind, NEW i \in Nodes, Hearing(kind, i)
  PROVE  /\ outcome = "running"
         /\ events' \in Seq(Events)
         /\ thread' = thread /\ plan' = plan => EventInv'
         /\ thread[i] \notin {"waiting", "working"}
         /\ kind = "packaged" => i \in plan.early
         /\ kind = "done" => thread[i] \in Ended
<1>1. outcome = "running" /\ events # <<>> /\ Head(events) = [kind |-> kind, task |-> i]
      /\ events' = Tail(events) /\ events \in Seq(Events)
  BY DEF Hearing, Coordinating, IInv, TypeOK
<1>2. /\ events' \in Seq(Events) /\ Len(events') = Len(events) - 1 /\ Len(events) \in Nat \ {0}
      /\ \A n \in 1..Len(events') : n + 1 \in 1..Len(events) /\ events'[n] = events[n + 1]
      /\ events[1] = [kind |-> kind, task |-> i] /\ 1 \in 1..Len(events)
  BY <1>1
<1>3. thread' = thread /\ plan' = plan => EventInv'
  BY <1>2 DEF IInv, EventInv
<1>4. /\ thread[i] \notin {"waiting", "working"}
      /\ kind = "packaged" => i \in plan.early
      /\ kind = "done" => thread[i] \in Ended
  BY <1>2 DEF IInv, EventInv
<1> QED BY <1>1, <1>2, <1>3, <1>4

LEMMA HearPackagedStep == ASSUME IInv, NEW i \in Nodes, HearPackaged(i) PROVE IInv'
<1>1. /\ packaged' = packaged \union {i}
      /\ UNCHANGED <<plan, remaining, running, results, thread, outcome>>
      /\ Hearing("packaged", i)
  BY DEF HearPackaged
<1>2. /\ events' \in Seq(Events) /\ EventInv'
      /\ thread[i] \notin {"waiting", "working"} /\ i \in plan.early
  BY <1>1, HearingHead
<1>3. TypeOK'
  BY <1>1, <1>2 DEF IInv, TypeOK
<1>4. PlanInv'
  BY <1>1, PlanStep DEF IInv
<1>5. BookInv' /\ BlockInv'
  BY <1>1, <1>2 DEF IInv, BookInv, BlockInv, Failing, Unsuccessful
<1>6. ProducersFirst' /\ ReportIsTrue' /\ NeverStalls'
  BY <1>1 DEF IInv, ProducersFirst, ReportIsTrue, NeverStalls
<1> QED BY <1>2, <1>3, <1>4, <1>5, <1>6 DEF IInv

LEMMA HearDoneStep == ASSUME IInv, NEW i \in Nodes, HearDone(i) PROVE IInv'
<1>1. /\ running' = running \ {i}
      /\ UNCHANGED <<plan, remaining, packaged, thread>>
      /\ Hearing("done", i)
  BY DEF HearDone
<1>2. /\ events' \in Seq(Events) /\ EventInv' /\ outcome = "running"
      /\ thread[i] \in Ended
  BY <1>1, HearingHead
<1>3. i \in remaining \/ results[i] = "none" \/ results[i] = thread[i]
  BY <1>2 DEF IInv, TypeOK, BookInv, Ended
<1>4. i \notin remaining /\ results[i] # "blocked"
  BY <1>2 DEF IInv, BookInv, Ended
<1>5. Cardinality(running') <= plan.jobs
  <2>1. IsFiniteSet(running) /\ Cardinality(running) \in Nat
    BY RunningFinite DEF IInv
  <2>2. Cardinality(running \ {i}) =
          IF i \in running THEN Cardinality(running) - 1 ELSE Cardinality(running)
    BY <2>1, FS_RemoveElement
  <2>3. plan.jobs \in Nat /\ Cardinality(running) <= plan.jobs
    BY SizeAssumption DEF IInv, TypeOK, Plans
  <2> QED BY <1>1, <2>1, <2>2, <2>3
<1>6. CASE thread[i] = "raised"
  <2>1. outcome' = "raising" /\ results' = results
    BY <1>6 DEF HearDone
  <2>2. TypeOK'
    BY <1>1, <1>2, <1>5, <2>1 DEF IInv, TypeOK
  <2>3. BookInv' /\ BlockInv' /\ ReportIsTrue' /\ NeverStalls'
    BY <1>1, <2>1 DEF IInv, BookInv, BlockInv, Failing, Unsuccessful, ReportIsTrue, NeverStalls
  <2>4. PlanInv' /\ ProducersFirst'
    BY <1>1, PlanStep DEF IInv, ProducersFirst
  <2> QED BY <1>2, <2>2, <2>3, <2>4 DEF IInv
<1>7. CASE thread[i] # "raised"
  <2>1. outcome' = outcome /\ thread[i] \in {"passed", "failed"}
    BY <1>2, <1>7 DEF HearDone, Ended
  <2>2. results' = [results EXCEPT ![i] = thread[i]]
    BY <1>7, <2>1 DEF HearDone
  <2>3. /\ results'[i] = thread[i] /\ \A j \in Nodes : j # i => results'[j] = results[j]
        /\ results[i] \in {"none", thread[i]}
    BY <1>3, <1>4, <2>2 DEF IInv, TypeOK
  <2>4. TypeOK'
    BY <1>1, <1>2, <1>5, <2>1, <2>2 DEF IInv, TypeOK
  <2>5. BookInv'
    BY <1>1, <1>4, <2>1, <2>3 DEF IInv, BookInv
  <2>6. plan.edges \in [Nodes -> SUBSET Nodes]
    BY DEF IInv, PlanInv, Plans
  <2>7. \A p \in Nodes : Unsuccessful(p) => Unsuccessful(p)'
    BY <2>1, <2>3 DEF Unsuccessful
  <2>8. BlockInv'
    <3>1. ASSUME Failing' PROVE \E p \in Nodes : results'[p] = "failed"
      <4>1. PICK p \in Nodes : results'[p] \in {"failed", "blocked"}
        BY <3>1 DEF Failing, Unsuccessful
      <4>2. CASE results'[p] = "failed"
        BY <4>2
      <4>3. CASE results'[p] = "blocked"
        <5>1. results[p] = "blocked"
          BY <4>3, <2>1, <2>3
        <5>2. PICK q \in Nodes : results[q] = "failed"
          BY <5>1 DEF IInv, BlockInv, Failing, Unsuccessful
        <5> QED BY <5>2, <2>3
      <4> QED BY <4>1, <4>2, <4>3
    <3>2. ASSUME NEW j \in Nodes, results'[j] = "blocked"
          PROVE  \E p \in plan'.edges[j] : Unsuccessful(p)'
      <4>1. results[j] = "blocked"
        BY <3>2, <2>1, <2>3
      <4>2. PICK p \in plan.edges[j] : Unsuccessful(p)
        BY <4>1, <1>2 DEF IInv, BlockInv
      <4> QED BY <4>2, <2>6, <2>7, <1>1
    <3> QED BY <3>1, <3>2, <1>2, <2>1 DEF BlockInv
  <2>9. PlanInv' /\ ProducersFirst' /\ ReportIsTrue' /\ NeverStalls'
    BY <1>1, <1>2, <2>1, PlanStep DEF IInv, ProducersFirst, ReportIsTrue, NeverStalls
  <2> QED BY <1>2, <2>4, <2>5, <2>8, <2>9 DEF IInv
<1> QED BY <1>6, <1>7

\* With nothing running and nothing failing, an acyclic plan has a ready task.
LEMMA SomethingIsReady ==
  ASSUME IInv, outcome = "running", running = {}, remaining # {}, Blockable = {}
  PROVE  Ready # {}
<1>1. remaining \in SUBSET Nodes /\ plan.edges \in [Nodes -> SUBSET Nodes]
  BY DEF IInv, TypeOK, Plans
<1>2. PICK i \in remaining : plan.edges[i] \intersect remaining = {}
  BY <1>1 DEF IInv, PlanInv, Acyclic
<1>3. ASSUME NEW p \in plan.edges[i] PROVE results[p] = "passed"
  <2>1. p \in Nodes /\ p \notin remaining /\ ~Unsuccessful(p)
    BY <1>1, <1>2 DEF Blockable
  <2>2. results[p] # "none"
    BY <2>1 DEF IInv, BookInv
  <2> QED BY <2>1, <2>2 DEF IInv, TypeOK, Unsuccessful
<1> QED BY <1>2, <1>3 DEF Ready, Satisfied

LEMMA FinishStep == ASSUME IInv, Finish PROVE IInv'
<1>1. /\ outcome = "running" /\ Scanned /\ running = {}
      /\ UNCHANGED <<plan, running, packaged, events, thread>>
      /\ results' = [i \in Nodes |-> IF i \in remaining /\ outcome' = "returned"
                                     THEN "blocked" ELSE results[i]]
  BY DEF Finish, Coordinating
<1>2. remaining = {} \/ (Failing /\ plan.failFast)
  <2> SUFFICES ASSUME remaining # {}, ~(Failing /\ plan.failFast) PROVE FALSE
    OBVIOUS
  <2>1. Cardinality(running) = 0 /\ plan.jobs \in 1..MaxJobs
    BY <1>1, FS_EmptySet DEF IInv, TypeOK, Plans
  <2>2. Open
    BY <2>1, SizeAssumption DEF Open, Room
  <2>3. Ready # {}
    BY <1>1, SomethingIsReady DEF Scanned
  <2> QED BY <1>1, <2>2, <2>3 DEF Scanned
<1>3. outcome' = "returned" /\ remaining' = {}
  BY <1>2 DEF Finish
<1>4. \A i \in Nodes :
        /\ i \in remaining => results'[i] = "blocked" /\ thread[i] = "waiting"
        /\ i \notin remaining => results'[i] = results[i] /\ results[i] # "none"
  BY <1>1, <1>3 DEF IInv, BookInv
<1>5. TypeOK'
  BY <1>1, <1>3 DEF IInv, TypeOK
<1>6. BookInv'
  BY <1>1, <1>3, <1>4 DEF IInv, BookInv
<1>7. Failing => \E p \in Nodes : results'[p] = "failed"
  BY <1>4 DEF IInv, BlockInv, BookInv
<1>8. Failing' => Failing
  BY <1>2, <1>4 DEF Failing, Unsuccessful
<1>9. BlockInv'
  BY <1>1, <1>3, <1>7, <1>8 DEF BlockInv
<1>10. ReportIsTrue'
  <2>1. \A i \in Nodes : results'[i] = (IF thread'[i] = "waiting" THEN "blocked" ELSE thread'[i])
    BY <1>1, <1>4 DEF IInv, BookInv, TypeOK
  <2>2. ASSUME NEW i \in Nodes, results'[i] = "blocked"
        PROVE  IF plan'.failFast THEN \E p \in Nodes : results'[p] = "failed"
                                 ELSE \E p \in plan'.edges[i] : results'[p] # "passed"
    <3>1. CASE plan.failFast
      <4>1. Failing
        BY <1>2, <1>4, <2>2 DEF Failing, Unsuccessful
      <4> QED BY <1>1, <1>7, <3>1, <4>1
    <3>2. CASE ~plan.failFast
      <4>1. results' = results /\ results[i] = "blocked"
        BY <1>2, <1>4, <2>2, <3>2, <1>5 DEF IInv, TypeOK
      <4>2. PICK p \in plan.edges[i] : Unsuccessful(p)
        BY <1>1, <4>1 DEF IInv, BlockInv
      <4> QED BY <1>1, <3>2, <4>1, <4>2 DEF Unsuccessful
    <3> QED BY <3>1, <3>2
  <2> QED BY <2>1, <2>2 DEF ReportIsTrue
<1>11. PlanInv' /\ EventInv' /\ ProducersFirst' /\ NeverStalls'
  BY <1>1, <1>3, PlanStep DEF IInv, EventInv, ProducersFirst, NeverStalls
<1> QED BY <1>5, <1>6, <1>9, <1>10, <1>11 DEF IInv

\* Interrupt, Raise and stuttering change where the coordinator is, or nothing.
LEMMA OutcomeStep ==
  ASSUME IInv, UNCHANGED <<plan, remaining, running, results, packaged, events, thread>>,
         outcome' = outcome \/ outcome' \in {"raising", "raised", "abandoned"}
  PROVE  IInv'
<1>1. TypeOK' /\ PlanInv'
  BY PlanStep DEF IInv, TypeOK
<1>2. BookInv' /\ EventInv'
  BY DEF IInv, BookInv, EventInv
<1>3. BlockInv' /\ ReportIsTrue'
  BY DEF IInv, BlockInv, Failing, Unsuccessful, ReportIsTrue
<1>4. ProducersFirst' /\ NeverStalls'
  BY DEF IInv, ProducersFirst, NeverStalls
<1> QED BY <1>1, <1>2, <1>3, <1>4 DEF IInv

\* A thread that goes on has a result only the coordinator has not heard.
LEMMA ThreadStep ==
  ASSUME IInv, NEW i \in Nodes, Going(i), NEW kind \in {"packaged", "done"},
         NEW how \in {"packaged"} \union Ended,
         kind = "packaged" => i \in plan.early,
         kind = "done" => how \in Ended,
         thread' = [thread EXCEPT ![i] = how],
         events' = Append(events, [kind |-> kind, task |-> i]),
         UNCHANGED <<plan, remaining, running, results, packaged, outcome>>
  PROVE  IInv'
<1>1. /\ thread'[i] = how /\ thread'[i] \notin {"waiting", "working"}
      /\ \A j \in Nodes : j # i => thread'[j] = thread[j]
  BY DEF IInv, TypeOK, Ended
<1>2. results[i] = "none" /\ i \notin remaining
  BY DEF IInv, TypeOK, BookInv, Going
<1>3. events \in Seq(Events) /\ [kind |-> kind, task |-> i] \in Events
  BY DEF IInv, TypeOK, Events
<1>4. /\ events' \in Seq(Events) /\ Len(events') = Len(events) + 1 /\ Len(events) \in Nat
      /\ events'[Len(events')] = [kind |-> kind, task |-> i]
      /\ \A n \in 1..Len(events) : events'[n] = events[n]
  BY <1>3
<1>5. thread' \in [Nodes -> {"waiting", "working", "packaged", "passed", "failed", "raised"}]
  BY DEF IInv, TypeOK, Ended
<1>6. TypeOK' /\ PlanInv'
  BY <1>4, <1>5, PlanStep DEF IInv, TypeOK
<1>7. BookInv'
  BY <1>1, <1>2 DEF IInv, BookInv
<1>8. EventInv'
  <2>1. ASSUME NEW n \in 1..Len(events')
        PROVE  /\ thread'[events'[n].task] \notin {"waiting", "working"}
               /\ events'[n].kind = "packaged" => events'[n].task \in plan'.early
               /\ events'[n].kind = "done" => thread'[events'[n].task] \in Ended
    <3>1. CASE n = Len(events')
      BY <1>1, <1>4, <3>1
    <3>2. CASE n \in 1..Len(events)
      <4>1. events'[n] = events[n]
        BY <1>4, <3>2
      <4>2. /\ thread[events[n].task] \notin {"waiting", "working"}
            /\ events[n].kind = "packaged" => events[n].task \in plan.early
            /\ events[n].kind = "done" => thread[events[n].task] \in Ended
        BY <3>2 DEF IInv, EventInv
      <4>3. CASE events[n].task = i
        BY <1>1, <4>1, <4>2, <4>3 DEF Going, Ended
      <4>4. CASE events[n].task # i
        <5>1. events[n] \in Events
          BY <1>3, <3>2
        <5>2. events[n].task \in Nodes
          BY <5>1 DEF Events
        <5> QED BY <1>1, <4>1, <4>2, <4>4, <5>2
      <4> QED BY <4>3, <4>4
    <3> QED BY <1>4, <3>1, <3>2
  <2> QED BY <2>1 DEF EventInv
<1>9. BlockInv' /\ NeverStalls'
  BY DEF IInv, BlockInv, Failing, Unsuccessful, NeverStalls
<1>10. ProducersFirst'
  <2>1. ASSUME NEW j \in Nodes, thread'[j] # "waiting", NEW p \in plan.edges[j]
        PROVE  thread'[p] = "passed" \/ (p \in packaged /\ thread'[p] \notin {"waiting", "working"})
    <3>1. p \in Nodes
      BY DEF IInv, TypeOK, Plans
    <3>2. thread[j] # "waiting"
      BY <1>1, <2>1 DEF Going
    <3>3. thread[p] = "passed" \/ (p \in packaged /\ thread[p] \notin {"waiting", "working"})
      BY <2>1, <3>2 DEF IInv, ProducersFirst
    <3> QED BY <1>1, <3>1, <3>3 DEF Going
  <2> QED BY <2>1 DEF ProducersFirst
<1>11. ReportIsTrue'
  <2>1. outcome # "returned"
    BY <1>2 DEF IInv, ReportIsTrue, Going
  <2> QED BY <2>1 DEF ReportIsTrue
<1> QED BY <1>6, <1>7, <1>8, <1>9, <1>10, <1>11 DEF IInv

LEMMA PackageStep == ASSUME IInv, NEW i \in Nodes, Package(i) PROVE IInv'
BY ThreadStep DEF Package, Going

LEMMA EndStep == ASSUME IInv, NEW i \in Nodes, End(i) PROVE IInv'
<1>1. PICK how \in Ended : thread' = [thread EXCEPT ![i] = how]
  BY DEF End, Ended
<1> QED BY <1>1, ThreadStep DEF End

----------------------------------------------------------------------------
(* The theorems. *)

LEMMA InvStep == ASSUME IInv, [Next]_vars PROVE IInv'
<1>1. ASSUME NEW i \in Nodes, Block(i) \/ Launch(i) \/ HearPackaged(i) \/ HearDone(i) PROVE IInv'
  BY <1>1, BlockStep, LaunchStep, HearPackagedStep, HearDoneStep
<1>2. ASSUME NEW i \in Nodes, Package(i) \/ End(i) PROVE IInv'
  BY <1>2, PackageStep, EndStep
<1>3. CASE Finish
  BY <1>3, FinishStep
<1>4. CASE Raise \/ Interrupt
  BY <1>4, OutcomeStep DEF Raise, Interrupt
<1>5. CASE UNCHANGED vars
  BY <1>5, OutcomeStep DEF vars
<1> QED BY <1>1, <1>2, <1>3, <1>4, <1>5 DEF Next, Coordinator

LEMMA Invariance == Spec => []IInv
BY InvInit, InvStep, PTL DEF Spec

\* Every variable keeps its type; in it, that never more tasks run than jobs.
THEOREM TypeCorrect == Spec => []TypeOK
<1>1. IInv => TypeOK
  BY DEF IInv
<1> QED BY <1>1, Invariance, PTL

\* No task starts before each of its producers has packaged.
THEOREM ProducersAreFirst == Spec => []ProducersFirst
<1>1. IInv => ProducersFirst
  BY DEF IInv
<1> QED BY <1>1, Invariance, PTL

\* While a barrier runs nothing else does: what precedes it passed, for only
\* an isolated task packages early, and what follows waits for it.
THEOREM BarriersExclude == Spec => []BarriersAreExclusive
<1>1. ASSUME IInv PROVE BarriersAreExclusive
  <2> SUFFICES ASSUME NEW i \in Nodes, NEW j \in Nodes, Going(i), Going(j),
                      i \notin plan.isolated, i # j
               PROVE  FALSE
    BY DEF BarriersAreExclusive
  <2>1. packaged \subseteq plan.isolated
    BY <1>1 DEF IInv, TypeOK, PlanInv
  <2>2. ASSUME NEW p \in Nodes, NEW q \in Nodes, p \in plan.edges[q], Going(p), Going(q)
        PROVE  p \in plan.isolated
    BY <1>1, <2>1, <2>2 DEF IInv, ProducersFirst, Going
  <2>3. CASE j < i
    <3>1. j \in plan.edges[i] /\ j \notin plan.isolated
      BY <1>1, <2>3 DEF IInv, PlanInv, Nodes
    <3> QED BY <2>2, <3>1
  <2>4. CASE i < j
    <3>1. i \in plan.edges[j]
      BY <1>1, <2>4 DEF IInv, PlanInv
    <3> QED BY <2>2, <3>1
  <2> QED BY <2>3, <2>4 DEF Nodes
<1> QED BY <1>1, Invariance, PTL

\* A build that returns reports every task, and reports it truly.
THEOREM ReportsAreTrue == Spec => []ReportIsTrue
<1>1. IInv => ReportIsTrue
  BY DEF IInv
<1> QED BY <1>1, Invariance, PTL

\* The guard against a plan without a runnable task is unreachable.
THEOREM NoStall == Spec => []NeverStalls
<1>1. IInv => NeverStalls
  BY DEF IInv
<1> QED BY <1>1, Invariance, PTL

\* Under fail-fast no task starts once a failure was heard.
THEOREM FailFastStops == Spec => NothingStartsAfterFailure
<1> DEFINE Stops == plan.failFast /\ Failing =>
                      \A i \in Nodes : thread[i] = "waiting" => thread'[i] = "waiting"
<1>1. ASSUME IInv, [Next]_vars PROVE Stops
  <2> SUFFICES ASSUME plan.failFast, Failing, NEW i \in Nodes, thread[i] = "waiting"
               PROVE  thread'[i] = "waiting"
    OBVIOUS
  <2>1. ASSUME NEW j \in Nodes, Launch(j) PROVE FALSE
    BY <2>1 DEF Launch, Open
  <2>2. ASSUME NEW j \in Nodes, Package(j) \/ End(j) PROVE thread'[i] = "waiting"
    <3>1. j # i /\ thread \in [Nodes -> {"waiting", "working", "packaged", "passed", "failed", "raised"}]
      BY <1>1, <2>2 DEF Package, End, Going, IInv, TypeOK
    <3> QED BY <2>2, <3>1 DEF Package, End
  <2>3. CASE thread' = thread
    BY <2>3
  <2> QED BY <1>1, <2>1, <2>2, <2>3 DEF Next, Coordinator, Block, HearPackaged, HearDone,
         Finish, Raise, Interrupt, vars
<1> QED BY <1>1, Invariance, PTL DEF Spec, NothingStartsAfterFailure
----------------------------------------------------------------------------
(* Why every build ends.  Liveness itself stays with TLC; these are the two *)
(* facts it rests on: the coordinator waits only for what still comes, and  *)
(* no execution has more steps than the plan allows.                        *)

\* The end of every task that counts as running is queued, or still to come.
EndsAreHeard ==
  \A i \in running :
    Going(i) \/ \E n \in 1..Len(events) : events[n] = [kind |-> "done", task |-> i]

LEMMA HearingKeeps ==
  ASSUME IInv, EndsAreHeard, NEW kind, NEW i \in Nodes, Hearing(kind, i),
         running' \subseteq running, kind = "done" => i \notin running', thread' = thread
  PROVE  EndsAreHeard'
<1>1. events # <<>> /\ Head(events) = [kind |-> kind, task |-> i]
      /\ events' = Tail(events) /\ events \in Seq(Events)
  BY DEF Hearing, IInv, TypeOK
<1>2. /\ Len(events) \in Nat \ {0} /\ Len(events') = Len(events) - 1
      /\ \A n \in 1..Len(events') : events'[n] = events[n + 1]
      /\ events[1] = [kind |-> kind, task |-> i]
  BY <1>1
<1>3. ASSUME NEW j \in running', NEW n \in 1..Len(events), events[n] = [kind |-> "done", task |-> j]
      PROVE  \E m \in 1..Len(events') : events'[m] = [kind |-> "done", task |-> j]
  <2>1. n # 1
    BY <1>2, <1>3
  <2>2. n - 1 \in 1..Len(events') /\ events'[n - 1] = events[n]
    BY <1>2, <2>1
  <2> QED BY <1>3, <2>2
<1> QED BY <1>3 DEF EndsAreHeard, Going

LEMMA TellingKeeps ==
  ASSUME IInv, EndsAreHeard, NEW i \in Nodes, Package(i) \/ End(i)
  PROVE  EndsAreHeard'
<1>1. /\ running' = running /\ events \in Seq(Events) /\ running \subseteq Nodes
      /\ thread \in [Nodes -> {"waiting", "working", "packaged", "passed", "failed", "raised"}]
  BY DEF Package, End, IInv, TypeOK
<1>2. PICK kind \in {"packaged", "done"} : /\ events' = Append(events, [kind |-> kind, task |-> i])
                                           /\ kind = "packaged" => thread' = [thread EXCEPT ![i] = "packaged"]
                                           /\ \E how : thread' = [thread EXCEPT ![i] = how]
  BY DEF Package, End
<1>3. /\ Len(events) \in Nat /\ Len(events') = Len(events) + 1
      /\ events'[Len(events')] = [kind |-> kind, task |-> i]
      /\ \A n \in 1..Len(events) : n \in 1..Len(events') /\ events'[n] = events[n]
  <2> DEFINE e == [kind |-> kind, task |-> i]
  <2>1. e \in Events
    BY DEF Events
  <2> HIDE DEF e
  <2> QED BY <1>1, <1>2, <2>1 DEF e
<1>4. ASSUME NEW j \in running
      PROVE  Going(j)' \/ \E n \in 1..Len(events') : events'[n] = [kind |-> "done", task |-> j]
  <2>1. CASE j = i /\ kind = "packaged"
    BY <1>1, <1>2, <2>1 DEF Going
  <2>2. CASE j = i /\ kind = "done"
    BY <1>3, <2>2
  <2>3. CASE j # i /\ Going(j)
    BY <1>1, <1>2, <2>3 DEF Going
  <2>4. CASE \E n \in 1..Len(events) : events[n] = [kind |-> "done", task |-> j]
    BY <1>3, <2>4
  <2> QED BY <1>2, <2>1, <2>2, <2>3, <2>4 DEF EndsAreHeard
<1> QED BY <1>1, <1>4 DEF EndsAreHeard

LEMMA LaunchHeard ==
  ASSUME IInv, EndsAreHeard, NEW i \in Nodes, Launch(i)
  PROVE  EndsAreHeard'
<1>1. /\ running' = running \union {i} /\ thread' = [thread EXCEPT ![i] = "working"] /\ events' = events
      /\ thread \in [Nodes -> {"waiting", "working", "packaged", "passed", "failed", "raised"}]
      /\ running \subseteq Nodes
  BY DEF Launch, IInv, TypeOK
<1>2. Going(i)'
  BY <1>1 DEF Going
<1>3. \A j \in running : j # i => (Going(j)' <=> Going(j))
  BY <1>1 DEF Going
<1> QED BY <1>1, <1>2, <1>3 DEF EndsAreHeard

\* A coordinator that waits on its queue never waits in vain (the queue of
\* run_graph): each task it counts as running has its end in the queue, or a
\* thread that will still put it there.
THEOREM NobodyWaitsInVain == Spec => []EndsAreHeard
<1>1. Init => EndsAreHeard
  BY DEF Init, EndsAreHeard
<1>2. ASSUME IInv, EndsAreHeard, [Next]_vars PROVE EndsAreHeard'
  <2>1. ASSUME NEW i \in Nodes, Launch(i) PROVE EndsAreHeard'
    BY <1>2, <2>1, LaunchHeard
  <2>2. ASSUME NEW i \in Nodes, HearPackaged(i) PROVE EndsAreHeard'
    BY <1>2, <2>2, HearingKeeps DEF HearPackaged
  <2>3. ASSUME NEW i \in Nodes, HearDone(i) PROVE EndsAreHeard'
    BY <1>2, <2>3, HearingKeeps DEF HearDone
  <2>4. ASSUME NEW i \in Nodes, Package(i) \/ End(i) PROVE EndsAreHeard'
    BY <1>2, <2>4, TellingKeeps
  <2>5. CASE UNCHANGED <<running, events, thread>>
    BY <1>2, <2>5 DEF EndsAreHeard, Going
  <2> QED BY <1>2, <2>1, <2>2, <2>3, <2>4, <2>5
          DEF Next, Coordinator, Block, Finish, Raise, Interrupt, vars
<1> QED BY <1>1, <1>2, Invariance, PTL DEF Spec

\* What a build may still do: tasks to launch or block, events to hear, phases
\* of its threads (each worth more than the event that tells of it), and the
\* coordinator's own way out.
Unpackaged == {i \in Nodes : thread[i] \in {"waiting", "working"}}
Unended == {i \in Nodes : thread[i] \notin Ended}
WayOut == CASE outcome = "running" -> 2 [] outcome = "raising" -> 1 [] OTHER -> 0
Effort == Cardinality(remaining) + Len(events)
          + 2 * Cardinality(Unpackaged) + 2 * Cardinality(Unended) + WayOut

LEMMA Shrunk ==
  ASSUME NEW S \in SUBSET Nodes, NEW R \in SUBSET S
  PROVE  /\ Cardinality(S) \in Nat /\ Cardinality(R) \in Nat /\ Cardinality(R) <= Cardinality(S)
         /\ R # S => Cardinality(R) < Cardinality(S)
<1>1. IsFiniteSet(Nodes)
  BY SizeAssumption, FS_Interval DEF Nodes
<1>2. IsFiniteSet(S)
  BY <1>1, FS_Subset
<1> QED BY <1>2, FS_Subset, FS_CardinalityType

LEMMA EffortType == ASSUME IInv PROVE Effort \in Nat
<1>1. remaining \in SUBSET Nodes /\ Unpackaged \in SUBSET Nodes /\ Unended \in SUBSET Nodes
      /\ events \in Seq(Events)
  BY DEF IInv, TypeOK, Unpackaged, Unended
<1>2. Cardinality(remaining) \in Nat /\ Cardinality(Unpackaged) \in Nat /\ Cardinality(Unended) \in Nat
  BY <1>1, Shrunk
<1>3. Len(events) \in Nat /\ WayOut \in Nat
  BY <1>1 DEF WayOut
<1> QED BY <1>2, <1>3 DEF Effort

LEMMA SumLowered ==
  ASSUME NEW a \in Nat, NEW b \in Nat, NEW c \in Nat, NEW e \in Nat, NEW w \in Nat,
         NEW a1 \in Nat, NEW b1 \in Nat, NEW c1 \in Nat, NEW e1 \in Nat, NEW w1 \in Nat,
         a1 <= a, b1 <= b, c1 <= c, w1 <= w,
         \/ e1 <= e /\ (a1 < a \/ w1 < w \/ e1 < e)
         \/ e1 = e + 1 /\ (b1 < b \/ c1 < c)
  PROVE  a1 + e1 + 2 * b1 + 2 * c1 + w1 < a + e + 2 * b + 2 * c + w
OBVIOUS

\* A step that enlarges none of what is left, and lowers one part of it.
LEMMA Lowered ==
  ASSUME IInv, IInv', remaining' \subseteq remaining, Unpackaged' \subseteq Unpackaged, Unended' \subseteq Unended,
         WayOut' <= WayOut,
         \/ /\ Len(events') <= Len(events)
            /\ remaining' # remaining \/ WayOut' < WayOut \/ Len(events') < Len(events)
         \/ /\ Len(events') = Len(events) + 1
            /\ Unpackaged' # Unpackaged \/ Unended' # Unended
  PROVE  Effort' < Effort
<1>1. remaining \in SUBSET Nodes /\ Unpackaged \in SUBSET Nodes /\ Unended \in SUBSET Nodes
      /\ events \in Seq(Events) /\ events' \in Seq(Events)
  BY DEF IInv, TypeOK, Unpackaged, Unended
<1>2. LET a == Cardinality(remaining) IN
      a \in Nat /\ a' \in Nat /\ a' <= a /\ (remaining' # remaining => a' < a)
  BY <1>1, Shrunk
<1>3. LET b == Cardinality(Unpackaged) IN
      b \in Nat /\ b' \in Nat /\ b' <= b /\ (Unpackaged' # Unpackaged => b' < b)
  BY <1>1, Shrunk
<1>4. LET c == Cardinality(Unended) IN
      c \in Nat /\ c' \in Nat /\ c' <= c /\ (Unended' # Unended => c' < c)
  BY <1>1, Shrunk
<1>5. Len(events) \in Nat /\ Len(events') \in Nat /\ WayOut \in Nat /\ WayOut' \in Nat
  BY <1>1 DEF WayOut
<1> QED BY <1>2, <1>3, <1>4, <1>5, SumLowered DEF Effort

\* Every step of a build lowers a natural number that starts at 5N + 2: the
\* scheduler's loop does not go round without having launched, blocked or heard
\* something, and no task is launched, packaged or ended twice.
Shortens == Effort \in Nat /\ Effort' < Effort

THEOREM BuildsAreShort == Spec => (Effort = 5 * N + 2) /\ [][Shortens]_vars
<1>1. ASSUME Init PROVE Effort = 5 * N + 2
  <2>1. Unpackaged = Nodes /\ Unended = Nodes /\ remaining = Nodes /\ Len(events) = 0 /\ WayOut = 2
    BY <1>1 DEF Init, Unpackaged, Unended, Ended, WayOut
  <2>2. Cardinality(Nodes) = N
    BY SizeAssumption, FS_Interval DEF Nodes
  <2> QED BY <2>1, <2>2, SizeAssumption DEF Effort
<1>2. ASSUME IInv, IInv', Next PROVE Effort' < Effort
  <2>0. /\ events \in Seq(Events) /\ remaining \subseteq Nodes
        /\ thread \in [Nodes -> {"waiting", "working", "packaged", "passed", "failed", "raised"}]
        /\ outcome \in {"running", "returned", "stalled", "raising", "raised", "abandoned"}
    BY <1>2 DEF IInv, TypeOK
  <2>1. CASE thread' = thread /\ events' = events /\ outcome' = outcome
             /\ remaining' \subseteq remaining /\ remaining' # remaining
    BY <1>2, <2>0, <2>1, Lowered DEF Unpackaged, Unended, WayOut
  <2>2. ASSUME NEW i \in Nodes, Block(i) PROVE Effort' < Effort
    BY <2>1, <2>2 DEF Block, Blockable
  <2>3. ASSUME NEW i \in Nodes, Launch(i) PROVE Effort' < Effort
    <3>1. /\ i \in remaining /\ remaining' = remaining \ {i} /\ thread' = [thread EXCEPT ![i] = "working"]
          /\ thread[i] = "waiting" /\ UNCHANGED <<events, outcome>>
      BY <1>2, <2>3 DEF Launch, Ready, IInv, BookInv
    <3>2. Unpackaged' = Unpackaged /\ Unended' = Unended
      BY <2>0, <3>1 DEF Unpackaged, Unended, Ended
    <3> QED BY <1>2, <2>0, <3>1, <3>2, Lowered DEF WayOut
  <2>4. ASSUME NEW i \in Nodes, HearPackaged(i) \/ HearDone(i) PROVE Effort' < Effort
    <3>1. /\ UNCHANGED <<thread, remaining>> /\ events # <<>> /\ events' = Tail(events) /\ outcome = "running"
          /\ outcome' \in {"running", "raising"}
      BY <2>4 DEF HearPackaged, HearDone, Hearing, Coordinating
    <3>2. Len(events') < Len(events)
      BY <2>0, <3>1
    <3>3. WayOut' <= WayOut
      BY <3>1 DEF WayOut
    <3> QED BY <1>2, <2>0, <3>1, <3>2, <3>3, Lowered DEF Unpackaged, Unended
  <2>5. CASE Finish \/ Raise \/ Interrupt
    <3>1. /\ UNCHANGED <<thread, events>> /\ remaining' \subseteq remaining
          /\ \/ outcome = "running" /\ outcome' \in {"returned", "stalled", "raising"}
             \/ outcome = "raising" /\ outcome' \in {"raised", "abandoned"}
      BY <2>5 DEF Finish, Raise, Interrupt, Coordinating
    <3>2. WayOut' < WayOut /\ WayOut' <= WayOut
      BY <3>1 DEF WayOut
    <3> QED BY <1>2, <2>0, <3>1, <3>2, Lowered DEF Unpackaged, Unended
  <2>6. ASSUME NEW i \in Nodes, Package(i) \/ End(i) PROVE Effort' < Effort
    <3>1. /\ UNCHANGED <<remaining, outcome>>
          /\ \E kind \in {"packaged", "done"} : events' = Append(events, [kind |-> kind, task |-> i])
      BY <2>6 DEF Package, End
    <3>2. Len(events') = Len(events) + 1
      BY <2>0, <3>1
    <3>3. Unpackaged' \subseteq Unpackaged /\ Unended' \subseteq Unended
          /\ (Unpackaged' # Unpackaged \/ Unended' # Unended)
      <4>1. CASE Package(i)
        BY <2>0, <4>1 DEF Package, Unpackaged, Unended, Ended
      <4>2. CASE End(i)
        <5>1. PICK how \in Ended : thread' = [thread EXCEPT ![i] = how]
          BY <4>2 DEF End, Ended
        <5>2. i \in Unended /\ i \notin Unended'
          BY <2>0, <4>2, <5>1 DEF End, Going, Unended, Ended
        <5>3. Unpackaged' \subseteq Unpackaged /\ Unended' \subseteq Unended
          BY <2>0, <5>1 DEF Unpackaged, Unended, Ended
        <5> QED BY <5>2, <5>3
      <4> QED BY <2>6, <4>1, <4>2
    <3> QED BY <1>2, <2>0, <3>1, <3>2, <3>3, Lowered DEF WayOut
  <2> QED BY <1>2, <2>2, <2>3, <2>4, <2>5, <2>6 DEF Next, Coordinator
<1>3. ASSUME IInv, [Next]_vars PROVE [Shortens]_vars
  BY <1>2, <1>3, InvStep, EffortType DEF Shortens
<1> QED BY <1>1, <1>3, Invariance, PTL DEF Spec
=============================================================================
