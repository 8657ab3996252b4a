------------------------- MODULE FrontendReactorProofs -------------------------
(***************************************************************************)
(* What TLAPS proves of the frontend reactor, for plans of every size and  *)
(* every number of jobs: it implements the build scheduler, and refs/      *)
(* names only packages whose whole chain of checks passed.                 *)
(***************************************************************************)
EXTENDS FrontendReactor, BuildSchedulerProofs

----------------------------------------------------------------------------
(* The inductive invariant, beside the scheduler's IInv. *)

Places == {"begin", "resolved", "building", "offered", "checking", "checked", "kept", "broken"}
DigestMaps == [Nodes -> {0} \union Digests]

\* The type of every variable of the reactor.
ReactorTypes ==
  /\ surface \in [published : SUBSET Nodes, resolves : [Nodes -> SUBSET Nodes]]
  /\ build \in [available : DigestMaps, pending : SUBSET Nodes, unverified : DigestMaps,
                advertised : SUBSET Nodes, deferred : SUBSET Nodes]
  /\ refs \in DigestMaps
  /\ copy \in [Nodes -> DigestMaps]
  /\ step \in [Nodes -> Places]
  /\ selection \in [answer : {"none", "refused", "selected"}, digests : DigestMaps]

\* Only publishers are resolved or package early, and every producer that is
\* resolved is an edge of the plan.
SurfaceInv ==
  /\ plan.early \subseteq Published
  /\ \A i \in Nodes : plan.edges[i] \subseteq Published /\ Producers(i) \subseteq plan.edges[i]

\* Where an executor is, against what the scheduler's thread has done.
ThreadInv ==
  \A i \in Nodes :
    /\ thread[i] = "waiting" => step[i] = "begin"
    /\ thread[i] = "working" => step[i] # "checking"
    /\ thread[i] = "passed" => step[i] = "kept"
    /\ thread[i] = "packaged" => step[i] \in {"checking", "checked", "kept", "broken"}

\* The package of a repository is available as soon as it was announced or
\* kept, and is then no longer pending; what is unverified is available with
\* the very bytes that were offered.
PackageOf(i) ==
  /\ i \notin Published => build.available[i] = 0
  /\ i \in Published /\ step[i] \in {"offered", "checking", "kept"} => build.available[i] # 0
  /\ i \in plan.early /\ step[i] = "checked" => build.available[i] # 0
  /\ thread[i] = "packaged" \/ i \in packaged => build.available[i] # 0
  /\ step[i] \in {"begin", "resolved", "building"} => build.available[i] = 0
  /\ i \notin plan.early /\ step[i] # "kept" => build.available[i] = 0
  /\ step[i] \notin {"kept", "broken"} => build.unverified[i] = build.available[i]
  /\ step[i] = "kept" => build.unverified[i] = 0

PackageInv ==
  /\ build.pending = {i \in Published : build.available[i] = 0}
  /\ \A i \in Nodes : PackageOf(i)
  /\ \A n \in 1..Len(events) : events[n].kind = "packaged" => build.available[events[n].task] # 0

\* What a copy was built on is what the build still offers.
CopyInv ==
  \A i \in Nodes : step[i] \notin {"begin", "broken"} =>
    \A p \in Producers(i) : copy[i][p] = build.available[p] /\ build.available[p] # 0

\* What is kept is advertised, or waits for a producer that is not; refs/ is
\* the advertised part of what is available.
AdvertisedInv ==
  /\ build.advertised \union build.deferred = {i \in Published : step[i] = "kept"}
  /\ Settled(build) = {}
  /\ \A i \in build.advertised : Producers(i) \subseteq build.advertised
  /\ refs = [i \in Nodes |-> IF i \in build.advertised THEN build.available[i] ELSE 0]

\* A selection is made of a build whose threads all passed.
SelectionInv ==
  /\ selection.answer # "refused"
  /\ selection.answer = "selected" =>
       selection.digests = refs /\ \A i \in Nodes : thread[i] = "passed"

RInv ==
  /\ IInv
  /\ ReactorTypes /\ SurfaceInv
  /\ ThreadInv /\ PackageInv /\ CopyInv /\ AdvertisedInv /\ SelectionInv

\* The parts of the invariant, and the type of the plan's edges.
LEMMA RInvParts ==
  ASSUME RInv
  PROVE  /\ TypeOK /\ IInv /\ ReactorTypes /\ SurfaceInv
         /\ ThreadInv /\ PackageInv /\ CopyInv /\ AdvertisedInv /\ SelectionInv
         /\ plan.edges \in [Nodes -> SUBSET Nodes]
BY DEF RInv, IInv, TypeOK, Plans

----------------------------------------------------------------------------
(* Initial states. *)

LEMMA RInvInit == ReactorInit => RInv
<1> SUFFICES ASSUME ReactorInit PROVE RInv
  OBVIOUS
<1>1. IInv
  BY InvInit DEF ReactorInit
<1>2. PICK published \in SUBSET Nodes, tests \in SUBSET Nodes, designer \in Nodes :
        /\ plan.early \subseteq published
        /\ \A i \in Nodes : plan.edges[i] \subseteq published
        /\ tests \subseteq plan.edges[designer]
        /\ surface = [published |-> published,
                      resolves |-> [plan.edges EXCEPT ![designer] = @ \ tests]]
  BY DEF ReactorInit
<1>3. plan.edges \in [Nodes -> SUBSET Nodes]
  BY <1>1 DEF IInv, TypeOK, Plans
<1>4. SurfaceInv /\ surface \in [published : SUBSET Nodes, resolves : [Nodes -> SUBSET Nodes]]
  BY <1>2, <1>3 DEF SurfaceInv, Published, Producers
<1>5. /\ build = [available |-> NoDigests, pending |-> Published, unverified |-> NoDigests,
                  advertised |-> {}, deferred |-> {}]
      /\ refs = NoDigests /\ copy = [i \in Nodes |-> NoDigests]
      /\ step = [i \in Nodes |-> "begin"]
      /\ selection = [answer |-> "none", digests |-> NoDigests]
      /\ thread = [i \in Nodes |-> "waiting"] /\ packaged = {} /\ events = <<>>
  BY DEF ReactorInit, Init
<1>6. NoDigests \in DigestMaps /\ \A i \in Nodes : NoDigests[i] = 0
  BY DEF NoDigests, DigestMaps
<1>7. ReactorTypes
  BY <1>4, <1>5, <1>6 DEF ReactorTypes, Places, Published
<1>8. ThreadInv /\ CopyInv /\ SelectionInv
  BY <1>5 DEF ThreadInv, CopyInv, SelectionInv
<1>9. PackageInv
  BY <1>4, <1>5, <1>6 DEF PackageInv, PackageOf, Published
<1>10. AdvertisedInv
  <2>1. Settled(build) = {}
    BY <1>5 DEF Settled
  <2>2. {i \in Published : step[i] = "kept"} = {}
    BY <1>4, <1>5 DEF Published
  <2> QED BY <1>5, <1>6, <2>1, <2>2 DEF AdvertisedInv, NoDigests
<1> QED BY <1>1, <1>4, <1>7, <1>8, <1>9, <1>10 DEF RInv

----------------------------------------------------------------------------
(* The coordinator: it hears, and changes nothing of the reactor. *)

\* What the coordinator does to what the reactor's invariant reads of it.
LEMMA CoordinatorEffect ==
  ASSUME IInv, Coordinator \/ Interrupt \/ UNCHANGED vars
  PROVE  /\ plan' = plan
         /\ \A i \in Nodes : thread'[i] = thread[i] \/ (thread[i] = "waiting" /\ thread'[i] = "working")
         /\ \/ events' = events /\ packaged' = packaged
            \/ /\ events # <<>> /\ events' = Tail(events)
               /\ \/ packaged' = packaged
                  \/ \E i \in Nodes : Head(events) = [kind |-> "packaged", task |-> i]
                                      /\ packaged' = packaged \union {i}
<1>1. ASSUME NEW i \in Nodes, Launch(i)
      PROVE  \A j \in Nodes : thread'[j] = thread[j] \/ (thread[j] = "waiting" /\ thread'[j] = "working")
  <2>1. thread[i] = "waiting" /\ thread' = [thread EXCEPT ![i] = "working"]
    BY <1>1 DEF Launch, Ready, IInv, BookInv
  <2> QED BY <2>1 DEF IInv, TypeOK
<1>2. CASE \E i \in Nodes : Block(i)
  BY <1>2 DEF Block
<1>3. CASE \E i \in Nodes : Launch(i)
  BY <1>1, <1>3 DEF Launch
<1>4. CASE \E i \in Nodes : HearPackaged(i)
  BY <1>4 DEF HearPackaged, Hearing
<1>5. CASE \E i \in Nodes : HearDone(i)
  BY <1>5 DEF HearDone, Hearing
<1>6. CASE Finish \/ Raise \/ Interrupt \/ UNCHANGED vars
  BY <1>6 DEF Finish, Raise, Interrupt, vars
<1> QED BY <1>2, <1>3, <1>4, <1>5, <1>6 DEF Coordinator

LEMMA CoordinatorStep ==
  ASSUME RInv, Coordinator \/ Interrupt \/ UNCHANGED vars, UNCHANGED reactorVars
  PROVE  RInv'
<1> USE RInvParts
<1>1. IInv'
  BY InvStep DEF Next
<1>2. /\ UNCHANGED <<surface, build, refs, copy, step, selection>> /\ plan' = plan
      /\ \A i \in Nodes : thread'[i] = thread[i] \/ (thread[i] = "waiting" /\ thread'[i] = "working")
  BY CoordinatorEffect DEF reactorVars
<1>3. ReactorTypes' /\ SurfaceInv' /\ CopyInv'
  BY <1>2 DEF ReactorTypes, SurfaceInv, CopyInv, Published, Producers
<1>4. AdvertisedInv'
  BY <1>2 DEF AdvertisedInv, Settled, Published, Producers
<1>5. ThreadInv' /\ SelectionInv'
  BY <1>2 DEF ThreadInv, SelectionInv
<1>6. \A n \in 1..Len(events') : events'[n].kind = "packaged" => build.available[events'[n].task] # 0
  <2>1. CASE events' = events
    BY <2>1 DEF PackageInv
  <2>2. CASE events # <<>> /\ events' = Tail(events)
    <3>1. events \in Seq(Events)
      BY DEF TypeOK
    <3>2. Len(events') = Len(events) - 1 /\ Len(events) \in Nat
          /\ \A n \in 1..Len(events') : n + 1 \in 1..Len(events) /\ events'[n] = events[n + 1]
      BY <2>2, <3>1
    <3> QED BY <3>2 DEF PackageInv
  <2> QED BY <2>1, <2>2, CoordinatorEffect
<1>7. \A i \in packaged' : i \in packaged \/ (i \in Nodes /\ build.available[i] # 0)
  <2>1. CASE packaged' = packaged
    BY <2>1
  <2>2. ASSUME NEW i \in Nodes, events # <<>>, Head(events) = [kind |-> "packaged", task |-> i],
               packaged' = packaged \union {i}
        PROVE  build.available[i] # 0
    <3>1. events \in Seq(Events)
      BY DEF TypeOK
    <3>2. 1 \in 1..Len(events) /\ events[1] = [kind |-> "packaged", task |-> i]
      BY <2>2, <3>1
    <3> QED BY <3>2 DEF PackageInv
  <2> QED BY <2>1, <2>2, CoordinatorEffect
<1>8. PackageInv'
  BY <1>2, <1>6, <1>7 DEF PackageInv, PackageOf, Published
<1> QED BY <1>1, <1>3, <1>4, <1>5, <1>8 DEF RInv

----------------------------------------------------------------------------
(* The executors. *)

\* A step of an executor that moves it and leaves thread and build alone.
LEMMA MoveStep ==
  ASSUME RInv, NEW i \in Nodes, NEW place \in {"resolved", "building", "checked", "broken"},
         thread[i] \in {"working", "packaged"},
         Move(i, place), UNCHANGED <<vars, surface, build, refs, selection>>,
         step[i] # "kept",
         thread[i] = "packaged" => place \in {"checked", "broken"},
         place = "resolved" => step[i] = "begin",
         place = "building" => step[i] = "resolved",
         place = "checked" => step[i] = (IF i \in plan.early THEN "checking" ELSE "building"),
         copy' \in [Nodes -> DigestMaps],
         \A j \in Nodes \ {i} : copy'[j] = copy[j],
         place # "broken" => \A p \in Producers(i) :
                               copy'[i][p] = build.available[p] /\ build.available[p] # 0
  PROVE  RInv'
<1> USE RInvParts
<1>1. step' = [step EXCEPT ![i] = place] /\ place \in Places
  BY DEF Move, Places
<1>2. step'[i] = place /\ (\A j \in Nodes : j # i => step'[j] = step[j]) /\ step' \in [Nodes -> Places]
  BY <1>1 DEF ReactorTypes
<1>3. IInv' /\ UNCHANGED <<plan, thread, packaged, events>>
  <2>1. IInv'
    BY InvStep
  <2> QED BY <2>1 DEF vars
<1>4. ReactorTypes' /\ SurfaceInv'
  BY <1>2, <1>3 DEF ReactorTypes, SurfaceInv, Published, Producers
<1>5. ThreadInv' /\ SelectionInv'
  BY <1>2, <1>3 DEF ThreadInv, SelectionInv
<1>6. PackageInv'
  <2>1. Published' = Published /\ build' = build
    BY DEF Published
  <2>2. ASSUME NEW j \in Nodes
        PROVE  PackageOf(j)'
    <3>1. CASE j = i
      <4>1. j \in plan.early => j \in Published
        BY DEF SurfaceInv
      <4> QED BY <1>2, <1>3, <2>1, <3>1, <4>1 DEF PackageInv, PackageOf
    <3>2. CASE j # i
      BY <1>2, <1>3, <2>1, <3>2 DEF PackageInv, PackageOf
    <3> QED BY <3>1, <3>2
  <2> QED BY <1>3, <2>1, <2>2 DEF PackageInv
<1>7. CopyInv'
  BY <1>2, <1>3 DEF CopyInv, Producers
<1>8. AdvertisedInv'
  <2>1. {j \in Published : step'[j] = "kept"} = {j \in Published : step[j] = "kept"}
    BY <1>2 DEF ReactorTypes, Published
  <2> QED BY <1>3, <2>1 DEF AdvertisedInv, Settled, Published, Producers
<1> QED BY <1>3, <1>4, <1>5, <1>6, <1>7, <1>8 DEF RInv

LEMMA ResolveStep ==
  ASSUME RInv, NEW i \in Nodes, Resolve(i) \/ Materialize(i)
  PROVE  RInv'
<1> USE RInvParts
<1>1. /\ thread[i] \in {"working", "packaged"} /\ step[i] \in {"begin", "resolved"}
      /\ UNCHANGED <<vars, surface, build, refs, selection>>
  BY DEF Resolve, Materialize, At
<1>2. thread[i] = "working"
  BY <1>1 DEF ThreadInv
<1>3. CASE Resolvable(i)
  <2> DEFINE place == IF step[i] = "begin" THEN "resolved" ELSE "building"
  <2>1. /\ Move(i, place)
        /\ copy' = [copy EXCEPT ![i] = [p \in Nodes |-> IF p \in Producers(i)
                                                         THEN build.available[p] ELSE 0]]
    BY <1>1, <1>3 DEF Resolve, Materialize, At
  <2>2. \A p \in Producers(i) : p \in Nodes /\ build.available[p] # 0
    BY <1>3 DEF Resolvable, SurfaceInv
  <2>3. [p \in Nodes |-> IF p \in Producers(i) THEN build.available[p] ELSE 0] \in DigestMaps
    BY DEF ReactorTypes, DigestMaps
  <2>4. /\ copy' \in [Nodes -> DigestMaps] /\ \A j \in Nodes \ {i} : copy'[j] = copy[j]
        /\ \A p \in Producers(i) : copy'[i][p] = build.available[p] /\ build.available[p] # 0
    BY <2>1, <2>2, <2>3 DEF ReactorTypes
  <2> QED BY <1>1, <1>2, <2>1, <2>4, MoveStep
<1>4. CASE ~Resolvable(i)
  <2>1. Move(i, "broken") /\ copy' = copy
    BY <1>1, <1>4 DEF Resolve, Materialize
  <2> QED BY <1>1, <1>2, <2>1, MoveStep DEF ReactorTypes
<1> QED BY <1>3, <1>4

LEMMA CheckStep == ASSUME RInv, NEW i \in Nodes, Check(i) PROVE RInv'
<1> USE RInvParts
<1>1. /\ thread[i] \in {"working", "packaged"} /\ Move(i, "checked")
      /\ step[i] = (IF i \in plan.early THEN "checking" ELSE "building")
      /\ UNCHANGED <<vars, surface, build, refs, copy, selection>>
  BY DEF Check, At
<1>2. \A p \in Producers(i) : copy[i][p] = build.available[p] /\ build.available[p] # 0
  BY <1>1 DEF CopyInv
<1> QED BY <1>1, <1>2, MoveStep DEF ReactorTypes

LEMMA BreakStep == ASSUME RInv, NEW i \in Nodes, Break(i) PROVE RInv'
<1> USE RInvParts
<1>1. /\ thread[i] \in {"working", "packaged"} /\ Move(i, "broken") /\ step[i] # "kept"
      /\ UNCHANGED <<vars, surface, build, refs, copy, selection>>
  BY DEF Break, At
<1> QED BY <1>1, MoveStep DEF ReactorTypes

LEMMA OfferStep == ASSUME RInv, NEW i \in Nodes, Offer(i) PROVE RInv'
<1> USE RInvParts
<1>1. /\ thread[i] \in {"working", "packaged"} /\ step[i] = "building" /\ i \in plan.early
      /\ build' = [build EXCEPT !.available[i] = 1, !.pending = @ \ {i}, !.unverified[i] = 1]
      /\ step' = [step EXCEPT ![i] = "offered"]
      /\ UNCHANGED <<vars, surface, refs, copy, selection>>
  BY DEF Offer, At, Move
<1>2. thread[i] = "working" /\ i \in Published /\ build.available[i] = 0
  BY <1>1 DEF ThreadInv, SurfaceInv, PackageInv, PackageOf
<1>3. IInv' /\ UNCHANGED <<plan, thread, packaged, events>>
  <2>1. IInv'
    BY <1>1, InvStep
  <2> QED BY <1>1, <2>1 DEF vars
<1>4. step'[i] = "offered" /\ (\A j \in Nodes : j # i => step'[j] = step[j]) /\ step' \in [Nodes -> Places]
  BY <1>1 DEF ReactorTypes, Places
<1>5. /\ build'.available = [build.available EXCEPT ![i] = 1]
      /\ build'.unverified = [build.unverified EXCEPT ![i] = 1]
      /\ build'.pending = build.pending \ {i}
      /\ build'.advertised = build.advertised /\ build'.deferred = build.deferred
      /\ build' \in [available : DigestMaps, pending : SUBSET Nodes, unverified : DigestMaps,
                     advertised : SUBSET Nodes, deferred : SUBSET Nodes]
  BY <1>1 DEF ReactorTypes, DigestMaps, Digests
<1>6. /\ build'.available[i] = 1 /\ build'.unverified[i] = 1
      /\ \A j \in Nodes : j # i => /\ build'.available[j] = build.available[j]
                                   /\ build'.unverified[j] = build.unverified[j]
  BY <1>5 DEF ReactorTypes, DigestMaps
<1>7. ReactorTypes' /\ SurfaceInv'
  BY <1>1, <1>3, <1>4, <1>5 DEF ReactorTypes, SurfaceInv, Published, Producers
<1>8. ThreadInv' /\ SelectionInv'
  BY <1>1, <1>2, <1>3, <1>4 DEF ThreadInv, SelectionInv
<1>9. PackageInv'
  <2>1. Published' = Published /\ Published \subseteq Nodes
    BY <1>1 DEF Published, ReactorTypes
  <2>2. build'.pending = {j \in Published : build'.available[j] = 0}
    BY <1>5, <1>6, <2>1 DEF PackageInv
  <2>3. \A n \in 1..Len(events') : events'[n].kind = "packaged" => build'.available[events'[n].task] # 0
    <3>1. ASSUME NEW n \in 1..Len(events), events[n].kind = "packaged"
          PROVE  build'.available[events[n].task] # 0
      <4>1. events[n] \in Events
        BY DEF TypeOK
      <4>2. events[n].task \in Nodes
        BY <4>1 DEF Events
      <4> QED BY <1>6, <3>1, <4>2 DEF PackageInv
    <3> QED BY <1>3, <3>1
  <2>4. ASSUME NEW j \in Nodes
        PROVE  PackageOf(j)'
    <3>1. CASE j = i
      BY <1>1, <1>2, <1>4, <1>6, <3>1, <1>3, <2>1 DEF PackageOf
    <3>2. CASE j # i
      BY <1>4, <1>6, <3>2, <1>3, <2>1 DEF PackageInv, PackageOf
    <3> QED BY <3>1, <3>2
  <2> QED BY <1>3, <2>1, <2>2, <2>3, <2>4 DEF PackageInv
<1>10. CopyInv'
  <2>1. \A j \in Nodes : Producers(j)' = Producers(j) /\ Producers(j) \subseteq Nodes
    BY <1>1 DEF Producers, SurfaceInv
  <2> QED BY <1>1, <1>2, <1>4, <1>6, <2>1 DEF CopyInv
<1>11. AdvertisedInv'
  <2>1. i \notin build.advertised
    BY <1>1 DEF AdvertisedInv
  <2>2. Settled(build)' = Settled(build)
    BY <1>1, <1>5 DEF Settled, Published, Producers
  <2>3. {j \in Published' : step'[j] = "kept"} = {j \in Published : step[j] = "kept"}
    BY <1>1, <1>4 DEF ReactorTypes, Published
  <2>4. [j \in Nodes |-> IF j \in build'.advertised THEN build'.available[j] ELSE 0]
        = [j \in Nodes |-> IF j \in build.advertised THEN build.available[j] ELSE 0]
    BY <1>5, <1>6, <2>1
  <2> QED BY <1>1, <1>5, <2>2, <2>3, <2>4 DEF AdvertisedInv, Producers
<1> QED BY <1>3, <1>7, <1>8, <1>9, <1>10, <1>11 DEF RInv

LEMMA AnnounceStep == ASSUME RInv, NEW i \in Nodes, Announce(i) PROVE RInv'
<1> USE RInvParts
<1>1. /\ Package(i) /\ step[i] = "offered" /\ step' = [step EXCEPT ![i] = "checking"]
      /\ UNCHANGED <<surface, build, refs, copy, selection>>
  BY DEF Announce, At, Move
<1>2. /\ thread[i] = "working" /\ i \in plan.early /\ thread' = [thread EXCEPT ![i] = "packaged"]
      /\ events' = Append(events, [kind |-> "packaged", task |-> i])
      /\ UNCHANGED <<plan, packaged>>
  BY <1>1 DEF Package
<1>3. IInv'
  BY <1>1, InvStep DEF Next
<1>4. /\ step'[i] = "checking" /\ thread'[i] = "packaged"
      /\ \A j \in Nodes : j # i => step'[j] = step[j] /\ thread'[j] = thread[j]
      /\ step' \in [Nodes -> Places]
  BY <1>1, <1>2 DEF ReactorTypes, Places, TypeOK
<1>5. i \in Published /\ build.available[i] # 0
  BY <1>1, <1>2 DEF SurfaceInv, PackageInv, PackageOf
<1>6. ReactorTypes' /\ SurfaceInv'
  BY <1>1, <1>2, <1>4 DEF ReactorTypes, SurfaceInv, Published, Producers
<1>7. ThreadInv'
  BY <1>4 DEF ThreadInv
<1>8. SelectionInv'
  BY <1>1, <1>2 DEF SelectionInv
<1>9. PackageInv'
  <2>1. Published' = Published
    BY <1>1 DEF Published
  <2>2. ASSUME NEW j \in Nodes PROVE PackageOf(j)'
    <3>1. PackageOf(j)
      BY DEF PackageInv
    <3>2. CASE j = i
      BY <1>1, <1>2, <1>4, <1>5, <2>1, <3>1, <3>2 DEF PackageOf
    <3>3. CASE j # i
      BY <1>1, <1>2, <1>4, <2>1, <3>1, <3>3 DEF PackageOf
    <3> QED BY <3>2, <3>3
  <2>3. \A n \in 1..Len(events') : events'[n].kind = "packaged" => build'.available[events'[n].task] # 0
    <3>1. events \in Seq(Events)
      BY DEF TypeOK
    <3>2. /\ Len(events') = Len(events) + 1 /\ Len(events) \in Nat
          /\ events'[Len(events')].task = i
          /\ \A n \in 1..Len(events) : events'[n] = events[n]
      BY <1>2, <3>1
    <3>3. \A n \in 1..Len(events') : n = Len(events') \/ n \in 1..Len(events)
      BY <3>2
    <3> QED BY <1>1, <1>5, <3>2, <3>3 DEF PackageInv
  <2> QED BY <1>1, <2>1, <2>2, <2>3 DEF PackageInv
<1>10. CopyInv'
  BY <1>1, <1>4 DEF CopyInv, Producers
<1>11. AdvertisedInv'
  <2>1. {j \in Published' : step'[j] = "kept"} = {j \in Published : step[j] = "kept"}
    BY <1>1, <1>4 DEF ReactorTypes, Published
  <2> QED BY <1>1, <2>1 DEF AdvertisedInv, Settled, Published, Producers
<1> QED BY <1>3, <1>6, <1>7, <1>8, <1>9, <1>10, <1>11 DEF RInv

LEMMA LeaveStep == ASSUME RInv, NEW i \in Nodes, Leave(i) PROVE RInv'
<1> USE RInvParts
<1>1. /\ End(i) /\ UNCHANGED <<surface, build, refs, copy, step, selection>>
      /\ \/ thread'[i] = "passed" /\ step[i] = "kept"
         \/ thread'[i] = "failed" /\ step[i] = "broken"
         \/ thread'[i] = "raised"
  BY DEF Leave, reactorVars
<1>2. /\ thread[i] \in {"working", "packaged"}
      /\ events' = Append(events, [kind |-> "done", task |-> i])
      /\ UNCHANGED <<plan, packaged>>
      /\ \A j \in Nodes : j # i => thread'[j] = thread[j]
  BY <1>1 DEF End, Going, TypeOK
<1>3. IInv'
  BY <1>1, InvStep DEF Next
<1>4. ReactorTypes' /\ SurfaceInv' /\ CopyInv'
  BY <1>1, <1>2 DEF ReactorTypes, SurfaceInv, CopyInv, Published, Producers
<1>5. AdvertisedInv'
  BY <1>1 DEF AdvertisedInv, Settled, Published, Producers
<1>6. ThreadInv'
  BY <1>1, <1>2 DEF ThreadInv
<1>7. SelectionInv'
  BY <1>1, <1>2 DEF SelectionInv
<1>8. PackageInv'
  <2>1. Published' = Published
    BY <1>1 DEF Published
  <2>2. ASSUME NEW j \in Nodes PROVE PackageOf(j)'
    <3>1. PackageOf(j)
      BY DEF PackageInv
    <3> QED BY <1>1, <1>2, <2>1, <3>1 DEF PackageOf
  <2>3. \A n \in 1..Len(events') : events'[n].kind = "packaged" => build'.available[events'[n].task] # 0
    <3>1. events \in Seq(Events)
      BY DEF TypeOK
    <3>2. /\ Len(events') = Len(events) + 1 /\ Len(events) \in Nat
          /\ events'[Len(events')].kind = "done"
          /\ \A n \in 1..Len(events) : events'[n] = events[n]
      BY <1>2, <3>1
    <3>3. \A n \in 1..Len(events') : n = Len(events') \/ n \in 1..Len(events)
      BY <3>2
    <3> QED BY <1>1, <3>2, <3>3 DEF PackageInv
  <2> QED BY <1>1, <2>1, <2>2, <2>3 DEF PackageInv
<1> QED BY <1>3, <1>4, <1>5, <1>6, <1>7, <1>8 DEF RInv

----------------------------------------------------------------------------
(* A package that passed joins the build.                                   *)

Closed(b, A) == \A i \in A : Producers(i) \intersect Published \subseteq b.advertised \union A

\* What is settled is the largest closed set of waiting packages.
LEMMA SettledIsLargest ==
  ASSUME NEW b
  PROVE  /\ Settled(b) \subseteq b.deferred /\ Closed(b, Settled(b))
         /\ \A A \in SUBSET b.deferred : Closed(b, A) => A \subseteq Settled(b)
<1>1. \A A \in SUBSET b.deferred : Closed(b, A) => A \subseteq Settled(b)
  BY DEF Settled, Closed
<1>2. ASSUME NEW i \in Settled(b)
      PROVE  i \in b.deferred /\ Producers(i) \intersect Published \subseteq b.advertised \union Settled(b)
  <2>1. PICK A \in SUBSET b.deferred : Closed(b, A) /\ i \in A
    BY DEF Settled, Closed
  <2>2. A \subseteq Settled(b)
    BY <1>1, <2>1
  <2> QED BY <2>1, <2>2 DEF Closed
<1> QED BY <1>1, <1>2 DEF Closed

\* Nothing is left to settle once what was settled is advertised.
LEMMA NothingIsLeft ==
  ASSUME NEW b, NEW c, c.advertised = b.advertised \union Settled(b),
         c.deferred = b.deferred \ Settled(b)
  PROVE  Settled(c) = {}
<1>1. Settled(c) \subseteq c.deferred /\ Closed(c, Settled(c))
  BY SettledIsLargest
<1>2. Settled(b) \subseteq b.deferred /\ Closed(b, Settled(b))
  BY SettledIsLargest
<1>3. Closed(b, Settled(b) \union Settled(c))
  BY <1>1, <1>2 DEF Closed
<1>4. Settled(b) \union Settled(c) \in SUBSET b.deferred
  BY <1>1, <1>2
<1>5. Settled(c) \subseteq Settled(b)
  BY <1>3, <1>4, SettledIsLargest
<1> QED BY <1>1, <1>5

LEMMA JoinStep ==
  ASSUME RInv, NEW i \in Published, NEW digest \in Digests,
         thread[i] \in {"working", "packaged"}, step[i] \in {"resolved", "checked"},
         build.unverified[i] \in {0, digest},
         Join(i, digest), Move(i, "kept"), UNCHANGED <<vars, surface, copy, selection>>
  PROVE  RInv'
<1> USE RInvParts
<1> DEFINE joined == [build EXCEPT !.available[i] = digest,
                                   !.pending = @ \ {i},
                                   !.unverified[i] = 0,
                                   !.deferred = @ \union {i}]
           settled == Settled(joined)
<1>1. /\ build' = [joined EXCEPT !.advertised = @ \union settled, !.deferred = @ \ settled]
      /\ refs' = [n \in Nodes |-> IF n \in settled THEN joined.available[n] ELSE refs[n]]
      /\ step' = [step EXCEPT ![i] = "kept"]
      /\ UNCHANGED <<vars, surface, copy, selection>>
  BY DEF Join, Move
<1>2. /\ joined.advertised = build.advertised /\ joined.deferred = build.deferred \union {i}
      /\ joined.available = [build.available EXCEPT ![i] = digest]
      /\ joined.unverified = [build.unverified EXCEPT ![i] = 0]
      /\ joined.pending = build.pending \ {i}
      /\ DOMAIN joined = {"available", "pending", "unverified", "advertised", "deferred"}
      /\ joined \in [available : DigestMaps, pending : SUBSET Nodes, unverified : DigestMaps,
                     advertised : SUBSET Nodes, deferred : SUBSET Nodes]
  <2> HIDE DEF settled
  <2>1. /\ build \in [available : DigestMaps, pending : SUBSET Nodes, unverified : DigestMaps,
                       advertised : SUBSET Nodes, deferred : SUBSET Nodes]
        /\ i \in Nodes /\ digest \in {0} \union Digests
    BY DEF ReactorTypes, Published
  <2>2. /\ joined.advertised = build.advertised /\ joined.deferred = build.deferred \union {i}
        /\ joined.available = [build.available EXCEPT ![i] = digest]
        /\ joined.unverified = [build.unverified EXCEPT ![i] = 0]
        /\ joined.pending = build.pending \ {i}
    BY <2>1
  <2>3. DOMAIN joined = {"available", "pending", "unverified", "advertised", "deferred"}
    BY <2>1
  <2>4. joined \in [available : DigestMaps, pending : SUBSET Nodes, unverified : DigestMaps,
                    advertised : SUBSET Nodes, deferred : SUBSET Nodes]
    BY <2>1 DEF DigestMaps
  <2> HIDE DEF joined
  <2> QED BY <2>2, <2>3, <2>4
<1>3. settled \subseteq joined.deferred /\ Closed(joined, settled)
  BY SettledIsLargest
<1> HIDE DEF joined, settled
<1>4. /\ i \in Nodes /\ Published' = Published /\ Published \subseteq Nodes
      /\ UNCHANGED <<plan, thread, packaged, events>>
  BY <1>1 DEF ReactorTypes, Published, vars
<1>5. IInv'
  BY <1>1, InvStep
<1>6. /\ build'.advertised = build.advertised \union settled
      /\ build'.deferred = (build.deferred \union {i}) \ settled
      /\ build'.available = [build.available EXCEPT ![i] = digest]
      /\ build'.unverified = [build.unverified EXCEPT ![i] = 0]
      /\ build'.pending = build.pending \ {i}
      /\ build' \in [available : DigestMaps, pending : SUBSET Nodes, unverified : DigestMaps,
                     advertised : SUBSET Nodes, deferred : SUBSET Nodes]
  BY <1>1, <1>2, <1>3
<1>7. /\ build'.available[i] = digest /\ digest # 0 /\ build'.unverified[i] = 0
      /\ \A j \in Nodes : j # i => /\ build'.available[j] = build.available[j]
                                   /\ build'.unverified[j] = build.unverified[j]
  BY <1>6 DEF ReactorTypes, DigestMaps, Digests
<1>8. /\ step'[i] = "kept" /\ step' \in [Nodes -> Places]
      /\ \A j \in Nodes : j # i => step'[j] = step[j]
  BY <1>1, <1>4 DEF ReactorTypes, Places
<1>9. build.available[i] \in {0, digest}
  <2>1. PackageOf(i)
    BY <1>4 DEF PackageInv
  <2> QED BY <2>1 DEF PackageOf
<1>10. ReactorTypes'
  <2>1. refs' \in DigestMaps
    BY <1>1, <1>2 DEF ReactorTypes, DigestMaps
  <2> QED BY <1>1, <1>6, <1>8, <2>1 DEF ReactorTypes
<1>11. SurfaceInv'
  BY <1>1, <1>4 DEF SurfaceInv, Producers
<1>12. ThreadInv'
  BY <1>4, <1>8 DEF ThreadInv
<1>13. SelectionInv'
  <2>1. selection.answer # "selected"
    BY <1>4 DEF SelectionInv
  <2> QED BY <1>1, <2>1 DEF SelectionInv
<1>14. PackageInv'
  <2>1. build'.pending = {j \in Published : build'.available[j] = 0}
    BY <1>4, <1>6, <1>7 DEF PackageInv
  <2>2. ASSUME NEW j \in Nodes PROVE PackageOf(j)'
    <3>1. PackageOf(j)
      BY DEF PackageInv
    <3>2. CASE j = i
      BY <1>4, <1>7, <1>8, <3>2 DEF PackageOf
    <3>3. CASE j # i
      BY <1>4, <1>7, <1>8, <3>1, <3>3 DEF PackageOf
    <3> QED BY <3>2, <3>3
  <2>3. ASSUME NEW n \in 1..Len(events), events[n].kind = "packaged"
        PROVE  build'.available[events[n].task] # 0
    <3>1. events[n] \in Events
      BY DEF TypeOK
    <3>2. events[n].task \in Nodes
      BY <3>1 DEF Events
    <3> QED BY <1>7, <2>3, <3>2 DEF PackageInv
  <2> QED BY <1>4, <2>1, <2>2, <2>3 DEF PackageInv
<1>15. CopyInv'
  <2>1. \A j \in Nodes : step'[j] \notin {"begin", "broken"} => step[j] \notin {"begin", "broken"}
    BY <1>8
  <2>2. \A j \in Nodes : Producers(j)' = Producers(j) /\ Producers(j) \subseteq Nodes
    BY <1>1 DEF Producers, SurfaceInv
  <2> QED BY <1>1, <1>7, <1>9, <2>1, <2>2 DEF CopyInv
<1>16. AdvertisedInv'
  <2>1. build'.advertised \union build'.deferred = {j \in Published : step'[j] = "kept"}
    <3>1. build'.advertised \union build'.deferred = build.advertised \union build.deferred \union {i}
      BY <1>2, <1>3, <1>6
    <3> QED BY <1>4, <1>8, <3>1 DEF AdvertisedInv
  <2>2. Settled(build') = {}
    BY <1>2, <1>6, NothingIsLeft DEF settled
  <2>3. Settled(build)' = Settled(build')
    BY <1>1, <1>4 DEF Settled, Producers
  <2>4. \A j \in build'.advertised : Producers(j) \subseteq build'.advertised
    <3>1. \A j \in Nodes : Producers(j) \subseteq Published
      BY DEF SurfaceInv
    <3>2. build'.advertised \subseteq Nodes
      BY <1>6
    <3> QED BY <1>2, <1>3, <1>6, <3>1, <3>2 DEF AdvertisedInv, Closed
  <2>5. i \notin build.advertised
    BY <1>4 DEF AdvertisedInv
  <2>6. refs' = [j \in Nodes |-> IF j \in build'.advertised THEN build'.available[j] ELSE 0]
    <3>1. /\ joined.available = build'.available /\ settled \subseteq Nodes
          /\ refs = [j \in Nodes |-> IF j \in build.advertised THEN build.available[j] ELSE 0]
      BY <1>2, <1>3, <1>6 DEF AdvertisedInv
    <3>2. ASSUME NEW j \in Nodes
          PROVE  refs'[j] = IF j \in build'.advertised THEN build'.available[j] ELSE 0
      BY <1>1, <1>6, <1>7, <2>5, <3>1
    <3> QED BY <1>1, <3>2
  <2> QED BY <1>1, <1>4, <2>1, <2>2, <2>3, <2>4, <2>6 DEF AdvertisedInv, Producers
<1> QED BY <1>5, <1>10, <1>11, <1>12, <1>13, <1>14, <1>15, <1>16 DEF RInv

\* A repository that publishes nothing is kept as it is.
LEMMA KeepNothingStep ==
  ASSUME RInv, NEW i \in Nodes \ Published,
         thread[i] \in {"working", "packaged"}, step[i] \in {"resolved", "checked"},
         Move(i, "kept"), UNCHANGED <<vars, surface, build, refs, copy, selection>>
  PROVE  RInv'
<1> USE RInvParts
<1>1. /\ step'[i] = "kept" /\ step' \in [Nodes -> Places]
      /\ \A j \in Nodes : j # i => step'[j] = step[j]
  BY DEF Move, ReactorTypes, Places
<1>2. IInv' /\ UNCHANGED <<plan, thread, packaged, events>>
  <2>1. IInv'
    BY InvStep
  <2> QED BY <2>1 DEF vars
<1>3. Published' = Published /\ \A j \in Nodes : Producers(j)' = Producers(j)
  BY DEF Published, Producers
<1>4. ReactorTypes' /\ SurfaceInv' /\ SelectionInv' /\ ThreadInv'
  BY <1>1, <1>2, <1>3 DEF ReactorTypes, SurfaceInv, SelectionInv, ThreadInv
<1>5. PackageInv'
  <2>1. ASSUME NEW j \in Nodes PROVE PackageOf(j)'
    <3>1. PackageOf(j)
      BY DEF PackageInv
    <3>2. CASE j = i
      BY <1>1, <1>2, <1>3, <3>1, <3>2 DEF PackageOf, SurfaceInv
    <3>3. CASE j # i
      BY <1>1, <1>2, <1>3, <3>1, <3>3 DEF PackageOf
    <3> QED BY <3>2, <3>3
  <2> QED BY <1>2, <1>3, <2>1 DEF PackageInv
<1>6. CopyInv'
  BY <1>1, <1>3 DEF CopyInv
<1>7. AdvertisedInv'
  <2>1. {j \in Published : step'[j] = "kept"} = {j \in Published : step[j] = "kept"}
    BY <1>1 DEF ReactorTypes, Published
  <2> QED BY <1>3, <2>1 DEF AdvertisedInv, Settled, Published, Producers
<1> QED BY <1>2, <1>4, <1>5, <1>6, <1>7 DEF RInv

LEMMA ReuseStep == ASSUME RInv, NEW i \in Nodes, Reuse(i) PROVE RInv'
<1>1. /\ thread[i] \in {"working", "packaged"} /\ step[i] = "resolved" /\ Move(i, "kept")
      /\ UNCHANGED <<vars, surface, copy, selection>>
      /\ IF i \in Published THEN Join(i, 1) ELSE UNCHANGED <<build, refs>>
  BY DEF Reuse, At
<1>2. build.available[i] = 0 /\ build.unverified[i] = 0
  BY <1>1, RInvParts DEF PackageInv, PackageOf
<1> QED BY <1>1, <1>2, JoinStep, KeepNothingStep DEF Digests

LEMMA KeepStep == ASSUME RInv, NEW i \in Nodes, Keep(i) PROVE RInv'
<1>1. /\ thread[i] \in {"working", "packaged"} /\ step[i] = "checked"
      /\ UNCHANGED <<vars, surface, copy, selection>>
  BY DEF Keep, At
<1>2. PICK digest \in Repacked(i) :
        IF i \in Published /\ build.unverified[i] \notin {0, digest}
        THEN Move(i, "broken") /\ UNCHANGED <<build, refs>>
        ELSE /\ IF i \in Published THEN Join(i, digest) ELSE UNCHANGED <<build, refs>>
             /\ Move(i, "kept")
  BY DEF Keep
<1>3. digest \in Digests
  BY DEF Repacked, Digests
<1>4. CASE i \in Published /\ build.unverified[i] \notin {0, digest}
  BY <1>1, <1>2, <1>4, MoveStep, RInvParts DEF ReactorTypes
<1>5. CASE i \in Published /\ build.unverified[i] \in {0, digest}
  BY <1>1, <1>2, <1>3, <1>5, JoinStep
<1>6. CASE i \notin Published
  BY <1>1, <1>2, <1>6, KeepNothingStep
<1> QED BY <1>4, <1>5, <1>6

\* When every task passed, nothing is pending, unverified or deferred.
LEMMA AllIsAdvertised ==
  ASSUME RInv, \A i \in Nodes : thread[i] = "passed"
  PROVE  /\ build.pending = {} /\ build.unverified = NoDigests /\ build.deferred = {}
         /\ build.available = refs
<1> USE RInvParts
<1>1. \A i \in Nodes : step[i] = "kept" /\ PackageOf(i)
  BY DEF ThreadInv, PackageInv
<1>2. Published \subseteq Nodes
  BY DEF ReactorTypes, Published
<1>3. build.pending = {}
  BY <1>1, <1>2 DEF PackageInv, PackageOf
<1>4. build.unverified = NoDigests
  BY <1>1 DEF PackageOf, ReactorTypes, DigestMaps, NoDigests
<1>5. build.advertised \union build.deferred = Published
  BY <1>1, <1>2 DEF AdvertisedInv
<1>6. build.deferred = {}
  <2>1. Closed(build, build.deferred)
    BY <1>5 DEF Closed
  <2>2. build.deferred \subseteq Settled(build)
    BY <2>1, SettledIsLargest
  <2> QED BY <2>2 DEF AdvertisedInv
<1>7. \A i \in Nodes : refs[i] = build.available[i]
  BY <1>1, <1>5, <1>6 DEF AdvertisedInv, PackageOf
<1> QED BY <1>3, <1>4, <1>6, <1>7 DEF ReactorTypes, DigestMaps

LEMMA SelectStep == ASSUME RInv, Select PROVE RInv'
<1> USE RInvParts
<1>1. /\ \A i \in Nodes : results[i] = "passed"
      /\ UNCHANGED <<vars, surface, build, refs, copy, step>>
      /\ selection' = IF build.pending # {} \/ build.unverified # NoDigests \/ build.deferred # {}
                      THEN [selection EXCEPT !.answer = "refused"]
                      ELSE [answer |-> "selected", digests |-> build.available]
  BY DEF Select
<1>2. \A i \in Nodes : thread[i] = "passed"
  BY <1>1 DEF IInv, BookInv
<1>3. selection' = [answer |-> "selected", digests |-> refs]
  BY <1>1, <1>2, AllIsAdvertised
<1>4. IInv' /\ UNCHANGED <<plan, thread, packaged, events>>
  <2>1. IInv'
    BY <1>1, InvStep
  <2> QED BY <1>1, <2>1 DEF vars
<1>5. ReactorTypes' /\ SurfaceInv' /\ SelectionInv' /\ ThreadInv'
  BY <1>1, <1>2, <1>3, <1>4 DEF ReactorTypes, SurfaceInv, SelectionInv, ThreadInv, Published, Producers
<1>6. PackageInv' /\ CopyInv'
  BY <1>1, <1>4 DEF PackageInv, PackageOf, CopyInv, Published, Producers
<1>7. AdvertisedInv'
  BY <1>1 DEF AdvertisedInv, Settled, Published, Producers
<1> QED BY <1>4, <1>5, <1>6, <1>7 DEF RInv

----------------------------------------------------------------------------
(* The theorems. *)

LEMMA RInvStep == ASSUME RInv, [ReactorNext]_allVars PROVE RInv'
<1>1. CASE (Coordinator \/ Interrupt) /\ UNCHANGED reactorVars
  BY <1>1, CoordinatorStep
<1>2. ASSUME NEW i \in Nodes, Executor(i) PROVE RInv'
  BY <1>2, ResolveStep, ReuseStep, OfferStep, AnnounceStep, CheckStep, KeepStep, BreakStep, LeaveStep
     DEF Executor
<1>3. CASE Select
  BY <1>3, SelectStep
<1>4. CASE UNCHANGED allVars
  BY <1>4, CoordinatorStep DEF allVars
<1> QED BY <1>1, <1>2, <1>3, <1>4 DEF ReactorNext

LEMMA ReactorInvariance == ReactorSpec => []RInv
BY RInvInit, RInvStep, PTL DEF ReactorSpec

\* refs/ names only packages that passed their own checks and were built on
\* exactly the bytes it names for each of their producers, whatever threads do
\* meanwhile and whichever packs are not reproducible.
THEOREM RefsVerified == ReactorSpec => []RefsAreVerified
<1>1. ASSUME RInv PROVE RefsAreVerified
  <2> USE <1>1, RInvParts
  <2> SUFFICES ASSUME NEW i \in Nodes, refs[i] # 0
               PROVE  /\ step[i] = "kept"
                      /\ \A p \in Producers(i) : copy[i][p] = refs[p] /\ refs[p] # 0
    BY DEF RefsAreVerified
  <2>1. i \in build.advertised
    BY DEF AdvertisedInv
  <2>2. step[i] = "kept" /\ Producers(i) \subseteq build.advertised
    BY <2>1 DEF AdvertisedInv
  <2>3. \A p \in Producers(i) : copy[i][p] = build.available[p] /\ build.available[p] # 0
    BY <2>2 DEF CopyInv
  <2>4. \A p \in build.advertised : refs[p] = build.available[p]
    BY DEF AdvertisedInv, ReactorTypes
  <2> QED BY <2>2, <2>3, <2>4
<1> QED BY <1>1, ReactorInvariance, PTL

\* The refusals of the reactor are unreachable: the scheduler starts a task only
\* when its producers are there, and a build that passed is complete.
THEOREM RefusalsUnreachable == ReactorSpec => []NeverRefused
<1>1. ASSUME RInv PROVE NeverRefused
  <2> USE <1>1, RInvParts
  <2>1. ASSUME NEW i \in Nodes, thread[i] # "waiting", NEW p \in plan.edges[i]
        PROVE  p \notin build.pending /\ build.available[p] # 0
    <3>1. p \in Nodes /\ p \in Published
      BY DEF SurfaceInv
    <3>2. thread[p] = "passed" \/ p \in packaged
      BY <2>1 DEF IInv, ProducersFirst
    <3>3. PackageOf(p) /\ (thread[p] = "passed" => step[p] = "kept")
      BY <3>1 DEF PackageInv, ThreadInv
    <3> QED BY <3>1, <3>2, <3>3 DEF PackageInv, PackageOf
  <2> QED BY <2>1 DEF NeverRefused, Resolvable, SelectionInv
<1> QED BY <1>1, ReactorInvariance, PTL

\* Every step of the reactor is a step of the scheduler or leaves it alone, so
\* what is proved of the scheduler's threads is true of these executors.
THEOREM ReactorImplementsScheduler == ReactorSpec => ImplementsScheduler
<1>1. ReactorInit => Init
  BY DEF ReactorInit
<1>2. ASSUME [ReactorNext]_allVars PROVE [Next]_vars
  <2>1. ASSUME NEW i \in Nodes, Executor(i) PROVE Package(i) \/ End(i) \/ UNCHANGED vars
    BY <2>1 DEF Executor, Resolve, Materialize, Reuse, Offer, Announce, Check, Keep, Break, Leave
  <2> QED BY <1>2, <2>1 DEF ReactorNext, Select, allVars, Next
<1> QED BY <1>1, <1>2, PTL DEF ReactorSpec, ImplementsScheduler, Spec
=============================================================================
