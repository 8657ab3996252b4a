-------------------------- MODULE TrainGateProofs --------------------------
(***************************************************************************)
(* What is proved of a host, its commands and the trains it dispatches, for *)
(* any hosts to start from, any number of operators, repositories, commands,*)
(* faults, moves, smokes and trains.                                        *)
(*                                                                          *)
(* Three arguments that hardly meet.  That no tier is served twice is a     *)
(* matter of what an admitted command still has to do: its calls are        *)
(* harmless when it is admitted and stay so, since nobody else is at work.  *)
(* That the next remedy is admitted is one of what the modes keep apart:    *)
(* the calls of a command go with the mode until the last of them writes it.*)
(* That a train is covered is a matter of what was compared with what: a    *)
(* smoke and a dispatch remember a comparison as long as they are steady.   *)
(***************************************************************************)
EXTENDS TrainGate, TLAPS

----------------------------------------------------------------------------
(* The host and the commands at work on it. *)

DockerVerbs == {"prepare", "up", "down", "record", "forget", "remove", "setup"}
NativeVerbs == {"start infra", "stop infra", "start apps", "stop apps", "restart apps"}
ModeVerbs == {"select", "adopt", "forget", "unlink"}

Targets ==
    Stacks \union DOMAIN Services \union Modes \union Groups
        \union {"all", "containers", "images", "network", "volumes", "certificates"}
        \union {"full", "stopped", "cleared", "mode"}

\* The calls a command on a surface makes.
CallsOn(surface) ==
    {call \in Verbs \X Targets :
        /\ surface = "docker" => call[1] \in DockerVerbs
        /\ surface = "native" => call[1] \in NativeVerbs
        /\ surface = "mode" => call[1] \in ModeVerbs
        /\ call[1] = "record" => call[2] \in {"full", "hybrid"}
        /\ call[1] = "setup" => call[2] \in {"network", "certificates"}
        /\ call[1] \in {"start apps", "restart apps"} => call[2] \in {"all"} \union Groups
        /\ call[1] \in {"select", "adopt"} => call[2] \in Modes}

JobOK(j) ==
    /\ j = [x \in {"cmd", "todo", "tag", "failed"} |-> j[x]]
    /\ j.cmd.surface \in {"docker", "native", "mode"}
    /\ j.tag \in Tags
    /\ j.todo \in Seq(CallsOn(j.cmd.surface)) /\ j.todo # <<>>

\* Every command at work is one, and its calls are those of its surface.
JobType ==
    /\ job = [o \in Operators |-> job[o]]
    /\ \A o \in Operators : job[o] # Idle => JobOK(job[o])

\* The type of what the host is and of what the commands count.
HostType ==
    /\ mode = Missing \/ mode \in [name : Modes, profile : BOOLEAN]
    /\ record = Missing \/ record \in [mode : {"full", "hybrid"}, train : Tags]
    /\ docker \in [Stacks -> Tags \union {"down", "part"}]
    /\ native \in [infra : {"down", "part", "up"}, apps : SUBSET Groups]
    /\ images \in [Tags -> {"absent", "right", "wrong"}]
    /\ provisioned \subseteq {"network", "certificates"}
    /\ \A c \in menu : WellFormed(c)
    /\ daemon \in BOOLEAN /\ raced \in BOOLEAN /\ recovering \in BOOLEAN
    /\ blind \subseteq {"command", "reactor"}
    /\ typed \in 0 .. MaxCommands /\ faults \in 0 .. MaxFaults

\* A call that brings up no tier which the other side serves.
Harmless(call) ==
    /\ call[1] = "up" /\ StackOf(call[2]) # "admin" => ~NativeTier(StackOf(call[2]))
    /\ call[1] = "start infra" => docker["infrastructure"] = "down"
    /\ call[1] \in {"start apps", "restart apps"} =>
          \A group \in Selected(call[2]) : docker[group] = "down"

\* One command at a time, as long as no other was admitted meanwhile.
Alone == ~raced => \A o, p \in Operators : job[o] # Idle /\ job[p] # Idle => o = p

\* What an admitted command still has to do is as harmless as when it was asked.
HarmlessToGo ==
    ~raced /\ blind = {} => \A o \in Operators :
        job[o] # Idle => \A i \in DOMAIN job[o].todo : Harmless(job[o].todo[i])

HostInv == HostType /\ JobType /\ Alone /\ HarmlessToGo /\ TierServedOnce

\* A call that goes with the mode it was admitted under.
Fits(call) ==
    /\ call[1] = "start infra" => mode # Missing /\ mode.name = "native"
    /\ call[1] \in {"start apps", "restart apps"} =>
          /\ mode # Missing /\ mode.name \in {"native", "hybrid"}
          /\ mode.name = "hybrid" => call[2] = "frontends"
    /\ call[1] = "up" =>
          /\ mode # Missing /\ mode.name \in {"hybrid", "docker"}
          /\ StackOf(call[2]) = "frontends" =>
                mode.name = "docker" /\ (record # Missing => record.mode = "full")
    /\ call[1] = "record" => mode # Missing /\ call[2] = Topology(mode.name)
    /\ call[1] = "select" => mode = Missing /\ DockerStartCompatible(call[2])
    /\ call[1] = "adopt" => mode # Missing /\ mode.name = call[2]
    /\ call[1] = "unlink" => mode # Missing /\ SelectedServicesStopped

\* Commands were given in turn, and no reactor deployed frontends unasked.
InTurn == ~raced /\ "reactor" \notin blind

FitsToGo ==
    InTurn => \A o \in Operators : job[o] # Idle => \A i \in DOMAIN job[o].todo : Fits(job[o].todo[i])

\* The mode is written last, only a start records, and a hybrid deployment is
\* recorded after the Docker frontends were stopped.
LastCalls(todo) == \A i \in DOMAIN todo : todo[i][1] \in {"select", "adopt", "unlink"} => i = Len(todo)
DownFirst(todo, frontends) ==
    \A i \in DOMAIN todo : todo[i] = <<"record", "hybrid">> =>
        frontends = "down" \/ \E k \in 1 .. i - 1 : todo[k] = <<"down", "frontends">>

ShapeInv ==
    \A o \in Operators : job[o] # Idle =>
        /\ LastCalls(job[o].todo)
        /\ \A i \in DOMAIN job[o].todo : job[o].todo[i][1] = "record" => job[o].cmd.verb = "start"
        /\ InTurn => DownFirst(job[o].todo, docker["frontends"])

\* What the modes keep apart stays apart.
ModeInv == FitsToGo /\ ShapeInv /\ (InTurn => Kept(mode, record, docker, native))

----------------------------------------------------------------------------
(* Lemmas about the commands. *)

LEMMA Concatenation ==
    ASSUME NEW S, NEW s \in Seq(S), NEW t \in Seq(S)
    PROVE  /\ s \o t \in Seq(S)
           /\ s # <<>> \/ t # <<>> => s \o t # <<>>
OBVIOUS

LEMMA One == \A S : <<>> \in Seq(S) /\ \A a \in S : <<a>> \in Seq(S) /\ <<a>> # <<>>
OBVIOUS

LEMMA Two == \A S : \A a, b \in S : <<a, b>> \in Seq(S) /\ <<a, b>> # <<>>
OBVIOUS

LEMMA Three == \A S : \A a, b, c \in S : <<a, b, c>> \in Seq(S) /\ <<a, b, c>> # <<>>
OBVIOUS

LEMMA Four == \A S : \A a, b, c, d \in S : <<a, b, c, d>> \in Seq(S) /\ <<a, b, c, d>> # <<>>
OBVIOUS

LEMMA KnownTargets ==
    /\ "all" \in Targets /\ "infrastructure" \in Targets /\ "microservices" \in Targets /\ "frontends" \in Targets /\ "keycloak" \in Targets
    /\ "full" \in Targets /\ "hybrid" \in Targets /\ "containers" \in Targets /\ "images" \in Targets /\ "network" \in Targets
    /\ "volumes" \in Targets /\ "certificates" \in Targets /\ "stopped" \in Targets /\ "cleared" \in Targets /\ "mode" \in Targets
    /\ Groups \subseteq Targets
<1>1. DOMAIN Services = {"keycloak", "microservice", "frontend"}
  BY DEF Services
<1>2. "keycloak" \in Targets
  BY <1>1 DEF Targets
<1>3. Stacks \subseteq Targets /\ Groups \subseteq Targets
  BY DEF Targets
<1>4. /\ "all" \in Targets /\ "containers" \in Targets /\ "images" \in Targets /\ "network" \in Targets
      /\ "volumes" \in Targets /\ "certificates" \in Targets
  BY DEF Targets
<1>5. "full" \in Targets /\ "stopped" \in Targets /\ "cleared" \in Targets /\ "mode" \in Targets
  BY DEF Targets
<1>6. "hybrid" \in Targets
  BY DEF Targets, Modes
<1> QED BY <1>2, <1>3, <1>4, <1>5, <1>6 DEF Stacks

LEMMA EachIsCall ==
    ASSUME NEW S, NEW C, NEW v, NEW s \in Seq(S), \A n \in S : <<v, n>> \in C
    PROVE  Each(v, s) \in Seq(C)
<1>1. DOMAIN s = 1 .. Len(s) /\ Len(s) \in Nat /\ \A i \in 1 .. Len(s) : s[i] \in S
  OBVIOUS
<1>2. Each(v, s) = [i \in 1 .. Len(s) |-> <<v, s[i]>>]
  BY <1>1 DEF Each
<1> QED BY <1>1, <1>2

LEMMA CallsOfDocker ==
    ASSUME NEW t \in Targets
    PROVE  /\ \A v \in {"prepare", "up", "down", "forget", "remove"} : <<v, t>> \in CallsOn("docker")
           /\ t \in {"full", "hybrid"} => <<"record", t>> \in CallsOn("docker")
           /\ t \in {"network", "certificates"} => <<"setup", t>> \in CallsOn("docker")
<1>1. ASSUME NEW v \in DockerVerbs
      PROVE  <<v, t>> \in Verbs \X Targets /\ <<v, t>>[1] = v /\ <<v, t>>[2] = t
  BY <1>1 DEF Verbs, DockerVerbs
<1> QED BY <1>1 DEF CallsOn, DockerVerbs

LEMMA CallsOfNative ==
    ASSUME NEW t \in Targets
    PROVE  /\ \A v \in {"start infra", "stop infra", "stop apps"} : <<v, t>> \in CallsOn("native")
           /\ t \in {"all"} \union Groups =>
                 \A v \in {"start apps", "restart apps"} : <<v, t>> \in CallsOn("native")
<1>1. ASSUME NEW v \in NativeVerbs
      PROVE  <<v, t>> \in Verbs \X Targets /\ <<v, t>>[1] = v /\ <<v, t>>[2] = t
  BY <1>1 DEF Verbs, NativeVerbs
<1> QED BY <1>1 DEF CallsOn, NativeVerbs

LEMMA CallsOfMode ==
    ASSUME NEW t \in Targets
    PROVE  /\ \A v \in {"forget", "unlink"} : <<v, t>> \in CallsOn("mode")
           /\ t \in Modes => \A v \in {"select", "adopt"} : <<v, t>> \in CallsOn("mode")
<1>1. ASSUME NEW v \in ModeVerbs
      PROVE  <<v, t>> \in Verbs \X Targets /\ <<v, t>>[1] = v /\ <<v, t>>[2] = t
  BY <1>1 DEF Verbs, ModeVerbs
<1> QED BY <1>1 DEF CallsOn, ModeVerbs

LEMMA OthersAreHarmless ==
    ASSUME NEW v, NEW t, v \notin {"up", "start infra", "start apps", "restart apps"}
    PROVE  Harmless(<<v, t>>)
BY DEF Harmless

LEMMA OthersFit ==
    ASSUME NEW v, NEW t, v \notin {"up", "start infra", "start apps", "restart apps", "record",
                                  "select", "adopt", "unlink"}
    PROVE  Fits(<<v, t>>) /\ <<v, t>>[1] # "record"
BY DEF Fits

\* A stack that an admitted docker start brings up has no native tier.
LEMMA DockerStartsAreHarmless ==
    ASSUME HostType, NEW c, WellFormed(c), DockerStart(c)
    PROVE  /\ mode.name \in {"hybrid", "docker"}
           /\ \A stack \in {"infrastructure", "microservices"} :
                 Harmless(<<"up", stack>>) /\ Fits(<<"up", stack>>)
           /\ mode.name = "docker" => Harmless(<<"up", "frontends">>) /\ Fits(<<"up", "frontends">>)
           /\ c.target # "all" => Harmless(<<"up", c.target>>) /\ Fits(<<"up", c.target>>)
<1>1. mode # Missing /\ mode.name \in {"hybrid", "docker"}
  BY DEF DockerStart, Bootstrap, RequireSurface, Surfaces, HostType, Modes
<1>2. /\ mode.name = "docker" => native.apps = {}
      /\ mode.name = "hybrid" => native.apps \subseteq {"frontends"}
      /\ native.infra = "down"
  BY <1>1 DEF DockerStart, DockerStartCompatible, RunningNativeServices, HostInfrastructureListens
<1>3. ASSUME c.target # "all", mode.name = "hybrid" PROVE StackOf(c.target) # "frontends"
  BY <1>3 DEF DockerStart, DockerFrontendsAllowed
<1>4. ASSUME NEW t, mode.name = "docker" \/ StackOf(t) # "frontends" PROVE Harmless(<<"up", t>>)
  BY <1>1, <1>2, <1>4 DEF Harmless, NativeTier, Serves
<1>5. StackOf("infrastructure") = "infrastructure" /\ StackOf("microservices") = "microservices"
  BY DEF StackOf, Services
<1>6. mode.name = "docker" => (record # Missing => record.mode = "full")
  BY <1>1 DEF DockerStart, Bootstrap, RequireSurface, RuntimeCompatible, Topology
<1>7. ASSUME NEW t, mode.name = "docker" \/ StackOf(t) # "frontends" PROVE Fits(<<"up", t>>)
  BY <1>1, <1>6, <1>7 DEF Fits
<1> QED BY <1>1, <1>3, <1>4, <1>5, <1>7

\* A tier that an admitted native start brings up has no containers, if the
\* daemon was there to be asked.
LEMMA NativeStartsAreHarmless ==
    ASSUME HostType, NEW c, WellFormed(c), daemon, NEW verb, verb # "stop",
           Bootstrap("native", verb), NativeTargetAllowed(c.target)
    PROVE  /\ mode.name \in {"native", "hybrid"}
           /\ mode.name = "native" =>
                 /\ \A t : Harmless(<<"start infra", t>>)
                 /\ \A t \in {"all"} \union Groups, v \in {"start apps", "restart apps"} : Harmless(<<v, t>>)
           /\ mode.name = "hybrid" => c.target = "frontends" /\ \A v \in {"start apps", "restart apps"} : Harmless(<<v, "frontends">>)
<1>1. mode # Missing /\ mode.name \in {"native", "hybrid"} /\ RuntimeCompatible(mode.name)
  BY DEF Bootstrap, RequireSurface, Surfaces, HostType, Modes
<1>2. CASE mode.name = "native"
  <2>1. \A stack \in Stacks : docker[stack] = "down"
    BY <1>1, <1>2 DEF RuntimeCompatible, RunningProjects
  <2>2. \A t : Harmless(<<"start infra", t>>)
    BY <2>1 DEF Harmless, Stacks
  <2>3. ASSUME NEW t \in {"all"} \union Groups, NEW v \in {"start apps", "restart apps"}
        PROVE  Harmless(<<v, t>>)
    <3>1. Selected(t) \subseteq Stacks
      BY DEF Selected, Groups, Stacks
    <3> QED BY <2>1, <3>1 DEF Harmless
  <2> QED BY <1>2, <2>2, <2>3
<1>3. CASE mode.name = "hybrid"
  <2>1. docker["frontends"] = "down"
    BY <1>1, <1>3 DEF RuntimeCompatible, RunningProjects, Stacks
  <2>2. \A v \in {"start apps", "restart apps"} : Harmless(<<v, "frontends">>)
    BY <2>1 DEF Harmless, Selected
  <2> QED BY <1>3, <2>2 DEF NativeTargetAllowed
<1> QED BY <1>1, <1>2, <1>3

\* The calls of its surface that go with the mode and are harmless, unless the
\* command starts native services with nobody to ask.
CallsOf(c) ==
    {call \in CallsOn(c.surface) :
        /\ Fits(call)
        /\ call[1] = "record" => c.verb = "start" /\ c.target = "all"
        /\ (StartsNatives(c) => daemon) => Harmless(call)}

Commanded(c) ==
    \E todo \in Seq(CallsOf(c)), tag \in Tags : todo # <<>> /\ JobOf(c) = Start(c, todo, tag)

LEMMA TargetOfCommand ==
    ASSUME NEW c, WellFormed(c)
    PROVE  /\ c.surface = "docker" => c.target \in Targets
           /\ c.surface = "native" /\ c.target \in {"all"} \union Groups => c.target \in Targets
           /\ c.surface = "mode" /\ c.verb = "select" => c.target \in Targets
BY DEF WellFormed, Targets, Groups

LEMMA DockerStartIsCommand ==
    ASSUME HostType, NEW c, WellFormed(c), Admitted(c), c.surface = "docker", c.verb = "start"
    PROVE  Commanded(c)
<1> DEFINE Calls == CallsOf(c)
<1>1. JobOf(c) = DockerStartJob(c) /\ mode # Missing /\ mode.name \in {"hybrid", "docker"}
  BY DEF JobOf, Admitted, DockerStart, Bootstrap, RequireSurface, Surfaces, HostType, Modes
<1>2. Topology(mode.name) \in {"full", "hybrid"} /\ (Topology(mode.name) = "full" => mode.name = "docker")
  BY <1>1 DEF Topology
<1>10. DockerStart(c)
  BY DEF Admitted, DockerStart
<1>3. /\ \A t \in Targets : <<"prepare", t>> \in Calls /\ <<"down", t>> \in Calls
      /\ \A t \in {"full", "hybrid"} : t = Topology(mode.name) /\ c.target = "all" => <<"record", t>> \in Calls
      /\ \A t \in Targets : Harmless(<<"up", t>>) /\ Fits(<<"up", t>>) => <<"up", t>> \in Calls
  <2>1. \A t \in Targets : <<"prepare", t>> \in Calls /\ <<"down", t>> \in Calls
    BY CallsOfDocker, KnownTargets, OthersAreHarmless, OthersFit DEF CallsOf
  <2>2. ASSUME NEW t \in {"full", "hybrid"}, t = Topology(mode.name), c.target = "all"
        PROVE  <<"record", t>> \in Calls
    <3>1. <<"record", t>> \in CallsOn("docker") /\ Harmless(<<"record", t>>)
      BY CallsOfDocker, KnownTargets, OthersAreHarmless
    <3>2. Fits(<<"record", t>>)
      BY <1>1, <2>2 DEF Fits
    <3> QED BY <2>2, <3>1, <3>2 DEF CallsOf
  <2>3. ASSUME NEW t \in Targets, Harmless(<<"up", t>>), Fits(<<"up", t>>)
        PROVE  <<"up", t>> \in Calls
    BY <2>3, CallsOfDocker DEF CallsOf
  <2> QED BY <2>1, <2>2, <2>3
<1> HIDE DEF Calls
<1>4. ASSUME NEW t \in {"full", "hybrid"}, t = Topology(mode.name), c.target = "all"
      PROVE  DockerStartAll(t) \in Seq(Calls) /\ DockerStartAll(t) # <<>>
  <2> DEFINE Up == Each("up", StackNames(t))
             Before == IF t = "hybrid" THEN <<<<"down", "frontends">>>> ELSE <<>>
             Stack == {"infrastructure", "microservices"} \union (IF t = "full" THEN {"frontends"} ELSE {})
  <2>1. StackNames(t) \in Seq(Stack)
    <3>1. <<"infrastructure", "microservices">> \in Seq(Stack)
      BY Two
    <3>2. (IF t = "full" THEN <<"frontends">> ELSE <<>>) \in Seq(Stack)
      BY One
    <3> QED BY <3>1, <3>2, Concatenation DEF StackNames
  <2>2. Up \in Seq(Calls)
    <3>1. \A n \in Stack : <<"up", n>> \in Calls
      BY <1>10, <1>2, <1>3, <1>4, KnownTargets, DockerStartsAreHarmless
    <3> HIDE DEF Stack
    <3> QED BY <2>1, <3>1, EachIsCall
  <2>3. Before \in Seq(Calls)
    BY <1>3, One, KnownTargets
  <2>4. <<<<"prepare", "all">>>> \in Seq(Calls) /\ <<<<"record", t>>>> \in Seq(Calls) /\ <<<<"record", t>>>> # <<>>
    BY <1>3, <1>4, One, KnownTargets
  <2> HIDE DEF Up, Before
  <2>5. (<<<<"prepare", "all">>>> \o Before) \o Up \in Seq(Calls)
    BY <2>2, <2>3, <2>4, Concatenation
  <2>6. ((<<<<"prepare", "all">>>> \o Before) \o Up) \o <<<<"record", t>>>> \in Seq(Calls)
        /\ ((<<<<"prepare", "all">>>> \o Before) \o Up) \o <<<<"record", t>>>> # <<>>
    BY <2>4, <2>5, Concatenation
  <2>7. DockerStartAll(t) = ((<<<<"prepare", "all">>>> \o Before) \o Up) \o <<<<"record", t>>>>
    BY DEF DockerStartAll, Up, Before
  <2> QED BY <2>6, <2>7
<1>5. ASSUME c.target # "all"
      PROVE  LET s == <<<<"prepare", c.target>>, <<"up", c.target>>>> IN s \in Seq(Calls) /\ s # <<>>
  <2>1. <<"prepare", c.target>> \in Calls /\ <<"up", c.target>> \in Calls
    BY <1>10, <1>3, <1>5, TargetOfCommand, DockerStartsAreHarmless
  <2> QED BY <2>1, Two
<1>6. ASSUME NEW x \in BOOLEAN PROVE ResolveTrain(c.with, x) \in Tags
  BY DeploymentAssumption DEF ResolveTrain, Tags, HostType
<1>7. c.target = "all" =>
         DockerStartAll(Topology(mode.name)) \in Seq(Calls) /\ DockerStartAll(Topology(mode.name)) # <<>>
  BY <1>2, <1>4
<1>8. CASE c.target = "all"
  BY <1>1, <1>6, <1>7, <1>8 DEF DockerStartJob, Commanded, Calls
<1>9. CASE c.target # "all"
  BY <1>1, <1>5, <1>6, <1>9 DEF DockerStartJob, Commanded, Calls
<1> QED BY <1>8, <1>9

LEMMA DockerStopIsCommand ==
    ASSUME HostType, NEW c, WellFormed(c), Admitted(c), c.surface = "docker", c.verb = "stop"
    PROVE  Commanded(c)
<1> DEFINE Calls == CallsOf(c)
<1> DEFINE Down == Each("down", <<"frontends", "microservices", "infrastructure">>)
<1>1. \A t \in Targets : <<"down", t>> \in Calls /\ <<"forget", t>> \in Calls
  BY CallsOfDocker, OthersAreHarmless, OthersFit DEF CallsOf
<1> HIDE DEF Calls
<1>2. Down \in Seq(Calls) /\ Down # <<>>
  <2>1. Down = <<<<"down", "frontends">>, <<"down", "microservices">>, <<"down", "infrastructure">>>>
    BY DEF Each
  <2>2. /\ <<"down", "frontends">> \in Calls /\ <<"down", "microservices">> \in Calls
        /\ <<"down", "infrastructure">> \in Calls
    BY <1>1, KnownTargets
  <2> QED BY <2>1, <2>2, Three
<1>3. <<<<"forget", "stopped">>>> \in Seq(Calls) /\ <<<<"down", c.target>>>> \in Seq(Calls)
      /\ <<<<"down", c.target>>>> # <<>>
  BY TargetOfCommand, <1>1, One, KnownTargets
<1> HIDE DEF Down
<1>4. Down \o <<<<"forget", "stopped">>>> \in Seq(Calls) /\ Down \o <<<<"forget", "stopped">>>> # <<>>
  BY <1>2, <1>3, Concatenation
<1> QED BY <1>3, <1>4 DEF JobOf, DockerStopJob, Tags, Down, Commanded, Calls

LEMMA DockerHostIsCommand ==
    ASSUME HostType, NEW c, WellFormed(c), Admitted(c), c.surface = "docker", c.verb \in {"remove", "setup"}
    PROVE  Commanded(c)
<1> DEFINE Calls == CallsOf(c)
<1>1. /\ \A t \in Targets : <<"remove", t>> \in Calls
      /\ \A t \in {"network", "certificates"} : <<"setup", t>> \in Calls
  BY CallsOfDocker, KnownTargets, OthersAreHarmless, OthersFit DEF CallsOf
<1> HIDE DEF Calls
<1>2. LET s == <<<<"remove", "containers">>, <<"remove", "images">>, <<"remove", "volumes">>, <<"remove", "network">>>>
      IN  s \in Seq(Calls) /\ s # <<>>
  BY <1>1, Four, KnownTargets
<1>3. <<<<"remove", c.target>>>> \in Seq(Calls) /\ <<<<"remove", c.target>>>> # <<>>
  BY TargetOfCommand, <1>1, One, KnownTargets
<1>4. LET s == <<<<"setup", "network">>, <<"setup", "certificates">>>> IN s \in Seq(Calls) /\ s # <<>>
  BY <1>1, Two
<1> QED BY <1>2, <1>3, <1>4 DEF JobOf, DockerRemoveJob, DockerSetupJob, Tags, Commanded, Calls

LEMMA NativeStopIsCommand ==
    ASSUME HostType, NEW c, WellFormed(c), Admitted(c), c.surface = "native", c.verb = "stop"
    PROVE  Commanded(c)
<1> DEFINE Calls == CallsOf(c)
           StopInfra == <<<<"stop infra", "all">>>>
<1>1. \A t \in Targets : <<"stop infra", t>> \in Calls /\ <<"stop apps", t>> \in Calls
  BY CallsOfNative, OthersAreHarmless, OthersFit DEF CallsOf
<1> HIDE DEF Calls
<1>2. \A t \in Targets : /\ <<<<"stop infra", t>>>> \in Seq(Calls) /\ <<<<"stop infra", t>>>> # <<>>
                       /\ <<<<"stop apps", t>>>> \in Seq(Calls) /\ <<<<"stop apps", t>>>> # <<>>
  BY <1>1, One
<1>3. ASSUME NEW t \in {"all", "microservices"}
      PROVE  /\ <<<<"stop apps", t>>>> \o StopInfra \in Seq(Calls)
             /\ <<<<"stop apps", t>>>> \o StopInfra # <<>>
  <2>1. <<<<"stop apps", t>>>> \in Seq(Calls) /\ StopInfra \in Seq(Calls) /\ StopInfra # <<>>
    BY <1>2, KnownTargets
  <2> HIDE DEF StopInfra
  <2> QED BY <2>1, Concatenation
<1>4. JobOf(c) = NativeStopJob(c) /\ Local \in Tags
  BY DEF JobOf, Tags
<1>5. CASE c.target \in {"all", "backends"}
  BY <1>3, <1>4, <1>5 DEF NativeStopJob, Commanded, Calls
<1>6. CASE c.target \in {"infra", "keycloak"}
  BY <1>2, <1>4, <1>6, KnownTargets DEF NativeStopJob, Commanded, Calls
<1>7. CASE c.target \in Groups
  BY <1>2, <1>4, <1>7, KnownTargets DEF NativeStopJob, Groups, Commanded, Calls
<1> QED BY <1>5, <1>6, <1>7 DEF WellFormed

LEMMA NativeStartIsCommand ==
    ASSUME HostType, NEW c, WellFormed(c), Admitted(c), c.surface = "native", c.verb \in {"start", "restart"}
    PROVE  Commanded(c)
<1> DEFINE Calls == CallsOf(c)
           StartInfra == <<<<"start infra", "all">>>>
           Whole == mode.name = "native"
<1>1. /\ ~Whole => c.target = "frontends"
      /\ Whole => \A t \in Targets : <<"start infra", t>> \in Calls
      /\ \A t \in {"all"} \union Groups : Whole \/ t = c.target =>
            \A v \in {"start apps", "restart apps"} : <<v, t>> \in Calls
  <2>1. StartsNatives(c)
    BY DEF StartsNatives
  <2>2. Bootstrap("native", c.verb) /\ NativeTargetAllowed(c.target)
    BY DEF Admitted, NativeStart, NativeRestart
  <2>3. mode # Missing /\ mode.name \in {"native", "hybrid"} /\ (~Whole => c.target = "frontends")
    BY <2>2 DEF Bootstrap, RequireSurface, Surfaces, HostType, Modes, NativeTargetAllowed
  <2>4. /\ Whole => \A t : Fits(<<"start infra", t>>)
        /\ \A t, v : v \in {"start apps", "restart apps"} /\ (Whole \/ t = c.target) => Fits(<<v, t>>)
    BY <2>3 DEF Fits
  <2>5. CASE ~daemon
    BY <2>1, <2>3, <2>4, <2>5, CallsOfNative, KnownTargets DEF CallsOf
  <2>6. CASE daemon
    BY <2>2, <2>3, <2>4, <2>6, NativeStartsAreHarmless, CallsOfNative, KnownTargets DEF CallsOf
  <2> QED BY <2>5, <2>6 DEF HostType
<1> HIDE DEF Calls, Whole
<1>2. /\ Whole => \A t \in Targets : <<<<"start infra", t>>>> \in Seq(Calls) /\ <<<<"start infra", t>>>> # <<>>
      /\ \A t \in {"all"} \union Groups : Whole \/ t = c.target =>
            \A v \in {"start apps", "restart apps"} : <<<<v, t>>>> \in Seq(Calls) /\ <<<<v, t>>>> # <<>>
  BY <1>1, One
<1>3. ASSUME NEW t \in {"all", "microservices"}, Whole
      PROVE  /\ StartInfra \o <<<<"start apps", t>>>> \in Seq(Calls)
             /\ StartInfra \o <<<<"start apps", t>>>> # <<>>
  <2>1. <<<<"start apps", t>>>> \in Seq(Calls) /\ StartInfra \in Seq(Calls) /\ StartInfra # <<>>
    BY <1>2, <1>3, KnownTargets DEF Groups
  <2> HIDE DEF StartInfra
  <2> QED BY <2>1, Concatenation
<1>4. c.target \in {"all"} \union Groups \/ (Whole /\ c.verb = "start")
  BY <1>1 DEF WellFormed, Groups
<1>5. CASE c.verb = "start"
  <2>1. JobOf(c) = NativeStartJob(c) /\ Local \in Tags
    BY <1>5 DEF JobOf, Tags
  <2>2. CASE c.target \in {"all", "backends"}
    <3>1. Whole
      BY <1>1, <2>2
    <3> QED BY <1>3, <2>1, <2>2, <3>1 DEF NativeStartJob, Commanded, Calls
  <2>3. CASE c.target \in {"infra", "keycloak"}
    <3>1. Whole
      BY <1>1, <2>3
    <3> QED BY <1>2, <2>1, <2>3, <3>1, KnownTargets DEF NativeStartJob, Commanded, Calls
  <2>4. CASE c.target \in Groups
    BY <1>2, <2>1, <2>4 DEF NativeStartJob, Groups, Commanded, Calls
  <2> QED BY <1>5, <2>2, <2>3, <2>4 DEF WellFormed
<1>6. CASE c.verb = "restart"
  <2>1. JobOf(c) = NativeRestartJob(c) /\ Local \in Tags /\ c.target \in {"all"} \union Groups
    BY <1>6 DEF JobOf, Tags, WellFormed
  <2> QED BY <1>2, <2>1 DEF NativeRestartJob, Commanded, Calls
<1> QED BY <1>5, <1>6

LEMMA SelectIsCommand ==
    ASSUME HostType, NEW c, WellFormed(c), Admitted(c), c.surface = "mode", c.verb = "select"
    PROVE  Commanded(c)
<1> DEFINE Calls == CallsOf(c)
<1>1. LET v == IF Adopts(c) THEN "adopt" ELSE "select" IN <<v, c.target>> \in Calls
  <2>1. \A v \in {"select", "adopt"} : <<v, c.target>> \in CallsOn("mode") /\ Harmless(<<v, c.target>>)
    BY TargetOfCommand, CallsOfMode, OthersAreHarmless DEF WellFormed
  <2>2. Adopts(c) => Fits(<<"adopt", c.target>>)
    BY DEF Adopts, Fits
  <2>3. ~Adopts(c) => Fits(<<"select", c.target>>)
    BY DEF Admitted, Configure, Fits
  <2> QED BY <2>1, <2>2, <2>3 DEF CallsOf
<1> HIDE DEF Calls
<1>2. LET v == IF Adopts(c) THEN "adopt" ELSE "select"
      IN  <<<<v, c.target>>>> \in Seq(Calls) /\ <<<<v, c.target>>>> # <<>>
  BY <1>1, One, KnownTargets
<1> QED BY <1>2 DEF JobOf, ConfigureJob, Tags, Commanded, Calls

LEMMA ClearIsCommand ==
    ASSUME HostType, NEW c, WellFormed(c), Admitted(c), c.surface = "mode", c.verb = "clear"
    PROVE  Commanded(c)
<1> DEFINE Calls == CallsOf(c)
<1> DEFINE Forget == IF mode.name = "native" THEN <<>> ELSE <<<<"forget", "cleared">>>>
<1>1. \A t \in Targets : <<"forget", t>> \in Calls /\ <<"unlink", t>> \in Calls
  <2>1. \A t \in Targets : <<"forget", t>> \in Calls
    BY CallsOfMode, OthersAreHarmless, OthersFit DEF CallsOf
  <2>2. \A t : Fits(<<"unlink", t>>)
    BY DEF Admitted, Clear, Fits
  <2> QED BY <2>1, <2>2, CallsOfMode, OthersAreHarmless DEF CallsOf
<1> HIDE DEF Calls
<1>2. Forget \in Seq(Calls) /\ <<<<"unlink", "mode">>>> \in Seq(Calls) /\ <<<<"unlink", "mode">>>> # <<>>
  BY <1>1, One, KnownTargets
<1> HIDE DEF Forget
<1>3. Forget \o <<<<"unlink", "mode">>>> \in Seq(Calls) /\ Forget \o <<<<"unlink", "mode">>>> # <<>>
  BY <1>2, Concatenation
<1> QED BY <1>3 DEF JobOf, ClearJob, Tags, Forget, Commanded, Calls

\* The calls of an admitted command belong to its surface and are harmless.
LEMMA JobsAreCommands ==
    ASSUME HostType, NEW c, WellFormed(c), Admitted(c)
    PROVE  /\ JobOK(JobOf(c))
           /\ (StartsNatives(c) => daemon) => \A i \in DOMAIN JobOf(c).todo : Harmless(JobOf(c).todo[i])
           /\ JobOf(c).cmd = c
           /\ \A i \in DOMAIN JobOf(c).todo :
                 /\ Fits(JobOf(c).todo[i])
                 /\ JobOf(c).todo[i][1] = "record" => c.verb = "start" /\ c.target = "all"
<1>1. Commanded(c)
  BY DockerStartIsCommand, DockerStopIsCommand, DockerHostIsCommand, NativeStartIsCommand,
     NativeStopIsCommand, SelectIsCommand,
     ClearIsCommand DEF Admitted, WellFormed
<1>2. PICK todo \in Seq(CallsOf(c)), tag \in Tags : todo # <<>> /\ JobOf(c) = Start(c, todo, tag)
  BY <1>1 DEF Commanded
<1>3. c.surface \in {"docker", "native", "mode"}
  BY DEF Admitted
<1>4. todo \in Seq(CallsOn(c.surface))
  BY DEF CallsOf
<1>5. \A i \in DOMAIN todo : todo[i] \in CallsOf(c)
  OBVIOUS
<1> QED BY <1>2, <1>3, <1>4, <1>5 DEF JobOK, Start, CallsOf

----------------------------------------------------------------------------
(* What a call does to the command that makes it. *)

\* No command begins, and what is left of one was there before.
Shrinks ==
    \A o \in Operators : job'[o] # Idle =>
        /\ job[o] # Idle /\ job'[o].cmd = job[o].cmd
        /\ \A i \in DOMAIN job'[o].todo : \E k \in DOMAIN job[o].todo : job'[o].todo[i] = job[o].todo[k]

LEMMA Rests ==
    ASSUME NEW S, NEW s \in Seq(S), s # <<>>, Len(s) # 1
    PROVE  /\ Tail(s) \in Seq(S) /\ Tail(s) # <<>>
           /\ \A i \in DOMAIN Tail(s) : \E k \in DOMAIN s : Tail(s)[i] = s[k]
<1>1. Len(s) \in Nat /\ DOMAIN s = 1 .. Len(s) /\ Len(s) > 1
  <2>1. Len(s) \in Nat /\ DOMAIN s = 1 .. Len(s)
    OBVIOUS
  <2>2. Len(s) # 0
    OBVIOUS
  <2> QED BY <2>1, <2>2
<1>2. Tail(s) \in Seq(S) /\ Len(Tail(s)) = Len(s) - 1 /\ DOMAIN Tail(s) = 1 .. Len(s) - 1
      /\ \A i \in 1 .. Len(s) - 1 : Tail(s)[i] = s[i + 1]
  BY <1>1
<1>3. \A i \in DOMAIN Tail(s) : i + 1 \in DOMAIN s /\ Tail(s)[i] = s[i + 1]
  BY <1>1, <1>2
<1> QED BY <1>1, <1>2, <1>3

LEMMA JobsShrink ==
    ASSUME JobType, NEW o \in Operators, job[o] # Idle, Proceed(o) \/ GoOnFailed(o) \/ End(o)
    PROVE  JobType' /\ Shrinks
<1>1. JobOK(job[o])
  BY DEF JobType
<1> DEFINE S == CallsOn(job[o].cmd.surface)
<1>2. job[o].todo \in Seq(S) /\ job[o].todo # <<>>
  BY <1>1 DEF JobOK
<1> DEFINE s == job[o].todo
<1>3. ASSUME Len(s) # 1
      PROVE  /\ Tail(s) \in Seq(S) /\ Tail(s) # <<>>
             /\ \A i \in DOMAIN Tail(s) : \E k \in DOMAIN s : Tail(s)[i] = s[k]
  BY <1>2, <1>3, Rests
<1>4. CASE job' = [job EXCEPT ![o] = Idle]
  BY <1>4 DEF JobType, Shrinks, JobOK
<1>5. CASE Len(s) # 1 /\ \E failed : job' = [job EXCEPT ![o] = [x \in {"cmd", "todo", "tag", "failed"} |->
               IF x = "todo" THEN Tail(s) ELSE IF x = "failed" THEN failed ELSE job[o][x]]]
  <2>1. PICK failed : job' = [job EXCEPT ![o] = [x \in {"cmd", "todo", "tag", "failed"} |->
               IF x = "todo" THEN Tail(s) ELSE IF x = "failed" THEN failed ELSE job[o][x]]]
    BY <1>5
  <2> DEFINE j == [x \in {"cmd", "todo", "tag", "failed"} |->
               IF x = "todo" THEN Tail(s) ELSE IF x = "failed" THEN failed ELSE job[o][x]]
  <2>2. j.cmd = job[o].cmd /\ j.todo = Tail(s) /\ j.tag = job[o].tag
        /\ j = [x \in {"cmd", "todo", "tag", "failed"} |-> j[x]]
    OBVIOUS
  <2>3. JobOK(j)
    BY <1>1, <1>3, <1>5, <2>2 DEF JobOK
  <2> HIDE DEF j
  <2>4. job' = [job EXCEPT ![o] = j]
    BY <2>1 DEF j
  <2>5. job'[o] = j /\ \A p \in Operators : p # o => job'[p] = job[p]
    BY <2>4 DEF JobType
  <2>6. job' = [p \in Operators |-> job'[p]]
    BY <2>4 DEF JobType
  <2>7. JobType'
    BY <2>3, <2>5, <2>6 DEF JobType
  <2>8. ASSUME NEW p \in Operators, job'[p] # Idle
        PROVE  /\ job[p] # Idle /\ job'[p].cmd = job[p].cmd
               /\ \A i \in DOMAIN job'[p].todo : \E k \in DOMAIN job[p].todo : job'[p].todo[i] = job[p].todo[k]
    BY <1>3, <1>5, <2>2, <2>5, <2>8
  <2> QED BY <2>7, <2>8 DEF Shrinks
<1>6. ASSUME NEW failed
      PROVE  [job[o] EXCEPT !.todo = Tail(@), !.failed = failed] = [x \in {"cmd", "todo", "tag", "failed"} |->
               IF x = "todo" THEN Tail(s) ELSE IF x = "failed" THEN failed ELSE job[o][x]]
  BY <1>1 DEF JobOK
<1>7. [job[o] EXCEPT !.todo = Tail(@)] = [x \in {"cmd", "todo", "tag", "failed"} |->
               IF x = "todo" THEN Tail(s) ELSE IF x = "failed" THEN job[o].failed ELSE job[o][x]]
  BY <1>1 DEF JobOK
<1>8. CASE Proceed(o)
  BY <1>4, <1>5, <1>7, <1>8 DEF Proceed
<1>9. CASE GoOnFailed(o)
  <2>1. Len(s) \in Nat
    BY <1>2
  <2>2. CASE End(o)
    BY <1>4, <2>2 DEF End
  <2>3. CASE Len(s) > 1 /\ ~End(o)
    <3>1. Len(s) # 1
      <4>1. \A n \in Nat : n > 1 => n # 1
        OBVIOUS
      <4> QED BY <2>1, <2>3, <4>1
    <3>2. job' = [job EXCEPT ![o] = [job[o] EXCEPT !.todo = Tail(@), !.failed = TRUE]]
      BY <1>9, <2>3 DEF GoOnFailed
    <3>3. [job[o] EXCEPT !.todo = Tail(@), !.failed = TRUE] = [x \in {"cmd", "todo", "tag", "failed"} |->
               IF x = "todo" THEN Tail(s) ELSE IF x = "failed" THEN TRUE ELSE job[o][x]]
      BY <1>6
    <3>4. job' = [job EXCEPT ![o] = [x \in {"cmd", "todo", "tag", "failed"} |->
               IF x = "todo" THEN Tail(s) ELSE IF x = "failed" THEN TRUE ELSE job[o][x]]]
      BY <3>2, <3>3
    <3> QED BY <1>5, <3>1, <3>4
  <2> QED BY <1>9, <2>2, <2>3 DEF GoOnFailed
<1>10. CASE End(o)
  BY <1>4, <1>10 DEF End
<1> QED BY <1>8, <1>9, <1>10

LEMMA Calling ==
    ASSUME JobType, NEW o \in Operators, job[o] # Idle
    PROVE  /\ JobOK(job[o]) /\ DOMAIN job[o].todo = 1 .. Len(job[o].todo) /\ Len(job[o].todo) \in Nat
           /\ 1 \in DOMAIN job[o].todo /\ Head(job[o].todo) = job[o].todo[1]
           /\ \A i \in DOMAIN job[o].todo : job[o].todo[i] \in CallsOn(job[o].cmd.surface)
           /\ job[o].tag \in Tags
<1>1. JobOK(job[o])
  BY DEF JobType
<1> QED BY <1>1 DEF JobOK

\* Every call ends its command or leaves the rest of it to do.
LEMMA StepsShrink ==
    ASSUME JobType, NEW o \in Operators, Step(o)
    PROVE  JobType' /\ Shrinks /\ job[o] # Idle /\ UNCHANGED ledger
<1>1. job[o] # Idle
  BY DEF Step, Prepare, ComposeUp, ComposeDown, ComposeFails, RecordDeployment, ForgetDeployment, Remove, RemoveUnasked, Setup,
         StartInfrastructure, StopInfrastructure, StartApplications, StopApplications, SelectMode,
         AdoptProfile, UnlinkMode, Refuse, Working
<1>2. Proceed(o) \/ GoOnFailed(o) \/ End(o)
  BY DEF Step, Prepare, ComposeUp, ComposeDown, ComposeFails, RecordDeployment, ForgetDeployment, Remove, RemoveUnasked, Setup,
         StartInfrastructure, StopInfrastructure, StartApplications, StopApplications, SelectMode,
         AdoptProfile, UnlinkMode, Refuse
<1>3. UNCHANGED ledger
  BY DEF Step, Prepare, ComposeUp, ComposeDown, ComposeFails, RecordDeployment, ForgetDeployment, Remove, RemoveUnasked, Setup,
         StartInfrastructure, StopInfrastructure, StartApplications, StopApplications, SelectMode,
         AdoptProfile, UnlinkMode, Refuse
<1> QED BY <1>1, <1>2, <1>3, JobsShrink

LEMMA StepAlone ==
    ASSUME Alone, Shrinks, ~raced' => ~raced
    PROVE  Alone'
BY DEF Alone, Shrinks


----------------------------------------------------------------------------
(* What a call does to the host. *)

LEMMA PrepareHost ==
    ASSUME HostType, JobType, NEW o \in Operators, Prepare(o)
    PROVE  HostType' /\ UNCHANGED <<docker, native>>
<1>1. job[o] # Idle /\ job[o].tag \in Tags
  BY Calling DEF Prepare, Working
<1>2. images' \in [Tags -> {"absent", "right", "wrong"}]
  BY <1>1 DEF Prepare, HostType, PrepareTrainImages, Tag
<1> QED BY <1>2 DEF Prepare, HostType, ledger

LEMMA ComposeUpHost ==
    ASSUME HostType, JobType, NEW o \in Operators, ComposeUp(o)
    PROVE  /\ HostType' /\ UNCHANGED native
           /\ \A stack \in Stacks : docker'[stack] = docker[stack] \/ stack = StackOf(Target(o))
<1> DEFINE left == docker'[StackOf(Target(o))]
<1>1. job[o] # Idle /\ job[o].tag \in Tags
  BY Calling DEF ComposeUp, Working
<1>2. Raised(Target(o), Tag(o)) \in Tags \union {"down", "part"}
  BY <1>1 DEF Raised, Tag
<1>3. docker' \in [Stacks -> Tags \union {"down", "part"}]
      /\ \A stack \in Stacks : docker'[stack] = docker[stack] \/ stack = StackOf(Target(o))
  BY <1>2 DEF ComposeUp, HostType
<1> QED BY <1>3 DEF ComposeUp, HostType, ledger

\* A host on which no more is served than before.
Quieter ==
    /\ \A stack \in Stacks : docker[stack] = "down" => docker'[stack] = "down"
    /\ \A stack : NativeTier(stack)' => NativeTier(stack)

LEMMA ComposeDownHost ==
    ASSUME HostType, JobType, NEW o \in Operators, ComposeDown(o)
    PROVE  HostType' /\ Quieter
<1>1. /\ docker' \in [Stacks -> Tags \union {"down", "part"}]
      /\ \A stack \in Stacks : docker[stack] = "down" => docker'[stack] = "down"
  BY DEF ComposeDown, HostType, Lowered
<1> QED BY <1>1 DEF ComposeDown, HostType, ledger, Quieter, NativeTier, Serves

LEMMA RecordHost ==
    ASSUME HostType, JobType, NEW o \in Operators, RecordDeployment(o) \/ ForgetDeployment(o)
    PROVE  HostType' /\ UNCHANGED <<docker, native>>
<1>1. CASE RecordDeployment(o)
  <2>1. job[o] # Idle /\ Head(job[o].todo)[1] = "record"
    BY <1>1 DEF RecordDeployment, Working
  <2>2. Target(o) \in {"full", "hybrid"} /\ Tag(o) \in Tags
    BY <2>1, Calling DEF Target, Tag, CallsOn
  <2> QED BY <1>1, <2>2 DEF RecordDeployment, HostType, ledger
<1>2. CASE ForgetDeployment(o)
  BY <1>2 DEF ForgetDeployment, HostType, ledger
<1> QED BY <1>1, <1>2

LEMMA RemoveHost ==
    ASSUME HostType, JobType, NEW o \in Operators, Remove(o)
    PROVE  HostType' /\ Quieter
<1>1. /\ docker' \in [Stacks -> Tags \union {"down", "part"}]
      /\ \A stack \in Stacks : docker[stack] = "down" => docker'[stack] = "down"
  <2>1. CASE RemoveContainersFails
    <3>1. PICK kept \in SUBSET {stack \in Stacks : docker[stack] # "down"} : \E part \in SUBSET kept :
             docker' = [stack \in Stacks |->
                          IF stack \in part \/ (stack = "admin" /\ docker["admin"] # "down") THEN "part"
                          ELSE IF stack \in kept THEN docker[stack] ELSE "down"]
      BY <2>1 DEF RemoveContainersFails
    <3>2. PICK part \in SUBSET kept :
             docker' = [stack \in Stacks |->
                          IF stack \in part \/ (stack = "admin" /\ docker["admin"] # "down") THEN "part"
                          ELSE IF stack \in kept THEN docker[stack] ELSE "down"]
      BY <3>1
    <3>3. docker \in [Stacks -> Tags \union {"down", "part"}]
      BY DEF HostType
    <3> QED BY <3>2, <3>3
  <2>2. CASE ~RemoveContainersFails
    BY <2>2 DEF Remove, HostType, RemoveContainers, RemoveImages, RemoveNetwork, RemoveVolumes, Stacks
  <2> QED BY <2>1, <2>2
<1>2. /\ record' = record \/ record' = Missing
      /\ provisioned' \subseteq provisioned
      /\ images' \in [Tags -> {"absent", "right", "wrong"}]
  BY DEF Remove, HostType, RemoveContainers, RemoveContainersFails, RemoveImages, RemoveNetwork, RemoveVolumes
<1>3. UNCHANGED <<mode, native, daemon, ledger>>
  BY DEF Remove
<1> QED BY <1>1, <1>2, <1>3 DEF HostType, ledger, Quieter, NativeTier, Serves

LEMMA RemoveUnaskedHost ==
    ASSUME HostType, NEW o \in Operators, RemoveUnasked(o)
    PROVE  HostType' /\ UNCHANGED <<docker, native>>
BY DEF RemoveUnasked, HostType, ledger

LEMMA SetupHost ==
    ASSUME HostType, JobType, NEW o \in Operators, Setup(o)
    PROVE  HostType' /\ UNCHANGED <<docker, native>>
<1>1. job[o] # Idle /\ Head(job[o].todo)[1] = "setup"
  BY DEF Setup, Working
<1>2. Target(o) \in {"network", "certificates"}
  BY <1>1, Calling DEF Target, CallsOn
<1> QED BY <1>2 DEF Setup, HostType, ledger

LEMMA StartInfrastructureHost ==
    ASSUME HostType, JobType, NEW o \in Operators, StartInfrastructure(o)
    PROVE  HostType' /\ UNCHANGED docker /\ \A stack : NativeTier(stack)' => NativeTier(stack) \/ stack = "infrastructure"
<1>1. native' \in [infra : {"down", "part", "up"}, apps : SUBSET Groups] /\ native'.apps = native.apps
  BY DEF StartInfrastructure, HostType
<1> QED BY <1>1 DEF StartInfrastructure, HostType, ledger, NativeTier, Serves

LEMMA StopInfrastructureHost ==
    ASSUME HostType, JobType, NEW o \in Operators, StopInfrastructure(o)
    PROVE  HostType' /\ Quieter
<1>1. /\ native' \in [infra : {"down", "part", "up"}, apps : SUBSET Groups] /\ native'.apps = native.apps
      /\ native.infra = "down" => native'.infra = "down"
  BY DEF StopInfrastructure, HostType
<1> QED BY <1>1 DEF StopInfrastructure, HostType, ledger, NativeTier, Serves, Quieter

LEMMA StartApplicationsHost ==
    ASSUME HostType, JobType, NEW o \in Operators, StartApplications(o)
    PROVE  /\ HostType' /\ UNCHANGED docker /\ Selected(Target(o)) \subseteq Groups
           /\ \A stack : NativeTier(stack)' => NativeTier(stack) \/ stack \in Selected(Target(o))
<1>1. job[o] # Idle /\ Head(job[o].todo)[1] \in {"start apps", "restart apps"}
  BY DEF StartApplications, Working
<1>2. Target(o) \in {"all"} \union Groups
  BY <1>1, Calling DEF Target, CallsOn
<1>3. Selected(Target(o)) \subseteq Groups
  BY <1>2 DEF Selected
<1>4. /\ native' \in [infra : {"down", "part", "up"}, apps : SUBSET Groups] /\ native'.infra = native.infra
      /\ native'.apps \subseteq native.apps \union Selected(Target(o))
  <2>1. PICK came \in SUBSET Selected(Target(o)) : native' = [native EXCEPT !.apps =
             (IF Working(o, "restart apps") THEN @ \ Selected(Target(o)) ELSE @) \union came]
    BY DEF StartApplications
  <2> DEFINE apps == (IF Working(o, "restart apps") THEN native.apps \ Selected(Target(o)) ELSE native.apps) \union came
  <2>2. native' = [native EXCEPT !.apps = apps]
    BY <2>1 DEF HostType
  <2>3. apps \in SUBSET Groups /\ apps \subseteq native.apps \union Selected(Target(o))
    BY <1>3 DEF HostType
  <2> HIDE DEF apps
  <2> QED BY <2>2, <2>3 DEF HostType
<1> QED BY <1>3, <1>4 DEF StartApplications, HostType, ledger, NativeTier, Serves

LEMMA StopApplicationsHost ==
    ASSUME HostType, JobType, NEW o \in Operators, StopApplications(o)
    PROVE  HostType' /\ Quieter
<1>1. /\ native' \in [infra : {"down", "part", "up"}, apps : SUBSET Groups] /\ native'.infra = native.infra
      /\ native'.apps \subseteq native.apps
  <2>1. PICK went : native' = [native EXCEPT !.apps = @ \ went]
    BY DEF StopApplications
  <2> DEFINE apps == native.apps \ went
  <2>2. native' = [native EXCEPT !.apps = apps]
    BY <2>1 DEF HostType
  <2>3. apps \in SUBSET Groups /\ apps \subseteq native.apps
    BY DEF HostType
  <2> HIDE DEF apps
  <2> QED BY <2>2, <2>3 DEF HostType
<1> QED BY <1>1 DEF StopApplications, HostType, ledger, NativeTier, Serves, Quieter

LEMMA ModeHost ==
    ASSUME HostType, JobType, NEW o \in Operators, SelectMode(o) \/ AdoptProfile(o) \/ UnlinkMode(o)
    PROVE  HostType' /\ UNCHANGED <<docker, native>>
<1>1. CASE SelectMode(o) \/ AdoptProfile(o)
  <2>1. job[o] # Idle /\ Head(job[o].todo)[1] \in {"select", "adopt"}
    BY <1>1 DEF SelectMode, AdoptProfile, Working
  <2>2. Target(o) \in Modes
    BY <2>1, Calling DEF Target, CallsOn
  <2>3. mode' = Missing \/ mode' \in [name : Modes, profile : BOOLEAN]
    <3>1. \A profile \in BOOLEAN : [name |-> Target(o), profile |-> profile] \in [name : Modes, profile : BOOLEAN]
      BY <2>2
    <3>2. (job[o].cmd.with = "profile") \in BOOLEAN
      OBVIOUS
    <3>3. CASE SelectMode(o)
      BY <3>1, <3>2, <3>3 DEF SelectMode, HostType
    <3>4. CASE AdoptProfile(o)
      BY <3>1, <3>4 DEF AdoptProfile
    <3> QED BY <1>1, <3>3, <3>4
  <2> QED BY <1>1, <2>3 DEF SelectMode, AdoptProfile, HostType, ledger
<1>2. CASE UnlinkMode(o)
  BY <1>2 DEF UnlinkMode, HostType, ledger
<1> QED BY <1>1, <1>2

LEMMA FailureHost ==
    ASSUME HostType, NEW o \in Operators, Refuse(o) \/ ComposeFails(o)
    PROVE  HostType' /\ UNCHANGED <<docker, native>>
BY DEF Refuse, ComposeFails, HostType, hostVars, ledger


----------------------------------------------------------------------------
(* No tier is served twice. *)

\* A call that a command at work still has to make.
ToGo(call) ==
    \E o \in Operators : job[o] # Idle /\ \E i \in DOMAIN job[o].todo : call = job[o].todo[i]

LEMMA CallToGo ==
    ASSUME HostInv, ~raced, blind = {}, NEW call, ToGo(call), NEW o \in Operators, job[o] # Idle
    PROVE  /\ Harmless(call) /\ call \in CallsOn(job[o].cmd.surface)
           /\ call[1] \in {"start apps", "restart apps"} => Selected(call[2]) \subseteq Stacks
<1>1. PICK p \in Operators : job[p] # Idle /\ \E i \in DOMAIN job[p].todo : call = job[p].todo[i]
  BY DEF ToGo
<1>2. p = o
  BY <1>1 DEF HostInv, Alone
<1>3. Harmless(call) /\ call \in CallsOn(job[o].cmd.surface)
  BY <1>1, <1>2, Calling DEF HostInv, HarmlessToGo
<1> QED BY <1>3 DEF CallsOn, Selected, Groups, Stacks

LEMMA CallsStay ==
    ASSUME Shrinks, \A call : ToGo(call) => Harmless(call)'
    PROVE  HarmlessToGo'
<1>1. SUFFICES ASSUME NEW o \in Operators, job'[o] # Idle, NEW i \in DOMAIN job'[o].todo
               PROVE  \A call : call = job'[o].todo[i] => Harmless(call)'
  BY DEF HarmlessToGo, Harmless
<1>2. TAKE call
<1>3. HAVE call = job'[o].todo[i]
<1>4. ToGo(call)
  BY <1>1, <1>3 DEF Shrinks, ToGo
<1> QED BY <1>4

LEMMA QuieterIsSafe ==
    ASSUME HostInv, Shrinks, UNCHANGED <<raced, blind>>, Quieter
    PROVE  HarmlessToGo' /\ TierServedOnce'
<1>1. TierServedOnce'
  BY DEF HostInv, HostType, TierServedOnce, Quieter
<1>2. ASSUME ~raced, blind = {}, NEW call, ToGo(call)
      PROVE  Harmless(call)'
  <2>1. /\ Harmless(call)
        /\ call[1] \in {"start apps", "restart apps"} => Selected(call[2]) \subseteq Stacks
    BY <1>2, CallToGo DEF ToGo
  <2> QED BY <2>1 DEF Harmless, Quieter, Stacks
<1>3. ASSUME ~raced, blind = {} PROVE HarmlessToGo'
  BY <1>2, <1>3, CallsStay
<1>4. raced \/ blind # {} => HarmlessToGo'
  BY DEF HarmlessToGo
<1> QED BY <1>1, <1>3, <1>4

LEMMA SameIsQuieter == UNCHANGED <<docker, native>> => Quieter
BY DEF Quieter, NativeTier, Serves

LEMMA ComposeUpSafe ==
    ASSUME HostInv, NEW o \in Operators, ComposeUp(o)
    PROVE  HarmlessToGo' /\ TierServedOnce'
<1>1. HostType /\ JobType /\ job[o] # Idle /\ Head(job[o].todo)[1] = "up" /\ Shrinks /\ UNCHANGED <<raced, blind>>
  BY StepsShrink DEF HostInv, ComposeUp, Working, Step, ledger
<1>2. /\ UNCHANGED native
      /\ \A stack \in Stacks : docker'[stack] = docker[stack] \/ stack = StackOf(Target(o))
  BY <1>1, ComposeUpHost
<1>3. CASE ~raced /\ blind = {}
  <2>1. StackOf(Target(o)) # "admin" => ~NativeTier(StackOf(Target(o)))
    BY <1>1, <1>3, Calling DEF HostInv, HarmlessToGo, Harmless, Target
  <2>2. TierServedOnce'
    BY <1>2, <1>3, <2>1 DEF HostInv, TierServedOnce, NativeTier, Serves
  <2>3. job[o].cmd.surface = "docker"
    <3>1. JobOK(job[o]) /\ Head(job[o].todo) \in CallsOn(job[o].cmd.surface)
      BY <1>1, Calling
    <3> QED BY <1>1, <3>1 DEF JobOK, CallsOn, NativeVerbs, ModeVerbs
  <2>4. ASSUME NEW call, ToGo(call)
        PROVE  Harmless(call)'
    <3>1. call[1] \in DockerVerbs /\ Harmless(call)
      BY <1>1, <1>3, <2>3, <2>4, CallToGo DEF CallsOn
    <3> QED BY <1>2, <3>1 DEF Harmless, DockerVerbs, NativeTier, Serves
  <2> QED BY <1>1, <1>3, <2>2, <2>4, CallsStay
<1>4. CASE raced \/ blind # {}
  BY <1>1, <1>4 DEF HarmlessToGo, TierServedOnce
<1> QED BY <1>3, <1>4

LEMMA StartNativeSafe ==
    ASSUME HostInv, NEW o \in Operators, StartInfrastructure(o) \/ StartApplications(o)
    PROVE  HarmlessToGo' /\ TierServedOnce'
<1> DEFINE verb == Head(job[o].todo)[1]
           raised == IF verb = "start infra" THEN {"infrastructure"} ELSE Selected(Target(o))
<1>1. HostType /\ JobType /\ job[o] # Idle /\ Shrinks /\ UNCHANGED <<raced, blind>>
  BY StepsShrink DEF HostInv, StartInfrastructure, StartApplications, Working, Step, ledger
<1>2. verb \in {"start infra", "start apps", "restart apps"}
  BY DEF StartInfrastructure, StartApplications, Working
<1>3. UNCHANGED docker /\ \A stack : NativeTier(stack)' => NativeTier(stack) \/ stack \in raised
  <2>1. CASE StartInfrastructure(o)
    BY <1>1, <2>1, StartInfrastructureHost DEF StartInfrastructure, Working
  <2>2. CASE StartApplications(o)
    BY <1>1, <2>2, StartApplicationsHost DEF StartApplications, Working
  <2> QED BY <2>1, <2>2
<1>4. CASE ~raced /\ blind = {}
  <2>1. \A stack \in raised : docker[stack] = "down"
    BY <1>1, <1>2, <1>4, Calling DEF HostInv, HarmlessToGo, Harmless, Target
  <2>2. TierServedOnce'
    BY <1>3, <1>4, <2>1 DEF HostInv, TierServedOnce
  <2>3. job[o].cmd.surface = "native"
    <3>1. JobOK(job[o]) /\ Head(job[o].todo) \in CallsOn(job[o].cmd.surface)
      BY <1>1, Calling
    <3> QED BY <1>2, <3>1 DEF JobOK, CallsOn, DockerVerbs, ModeVerbs
  <2>4. ASSUME NEW call, ToGo(call)
        PROVE  Harmless(call)'
    <3>1. call[1] \in NativeVerbs /\ Harmless(call)
      BY <1>1, <1>4, <2>3, <2>4, CallToGo DEF CallsOn
    <3> QED BY <1>3, <3>1 DEF Harmless, NativeVerbs
  <2> QED BY <1>1, <1>4, <2>2, <2>4, CallsStay
<1>5. CASE raced \/ blind # {}
  BY <1>1, <1>5 DEF HarmlessToGo, TierServedOnce
<1> QED BY <1>4, <1>5

LEMMA StepHost ==
    ASSUME HostInv, NEW o \in Operators, Step(o)
    PROVE  HostInv'
<1>1. HostType /\ JobType
  BY DEF HostInv
<1>2. JobType' /\ Shrinks /\ UNCHANGED <<raced, blind>>
  BY <1>1, StepsShrink DEF ledger
<1>3. Alone'
  BY <1>2, StepAlone DEF HostInv
<1>4. CASE ComposeUp(o)
  BY <1>1, <1>2, <1>3, <1>4, ComposeUpHost, ComposeUpSafe DEF HostInv
<1>5. CASE StartInfrastructure(o) \/ StartApplications(o)
  BY <1>1, <1>2, <1>3, <1>5, StartInfrastructureHost, StartApplicationsHost, StartNativeSafe DEF HostInv
<1>6. ASSUME HostType' /\ Quieter
      PROVE  HostInv'
  BY <1>2, <1>3, <1>6, QuieterIsSafe DEF HostInv
<1>7. CASE \/ Prepare(o) \/ RecordDeployment(o) \/ ForgetDeployment(o) \/ Setup(o) \/ Refuse(o)
           \/ ComposeFails(o) \/ RemoveUnasked(o) \/ SelectMode(o) \/ AdoptProfile(o) \/ UnlinkMode(o)
  BY <1>1, <1>6, <1>7, PrepareHost, RecordHost, RemoveUnaskedHost, SetupHost, FailureHost, ModeHost, SameIsQuieter
<1>8. CASE ComposeDown(o) \/ Remove(o) \/ StopInfrastructure(o) \/ StopApplications(o)
  BY <1>1, <1>6, <1>8, ComposeDownHost, RemoveHost, StopInfrastructureHost, StopApplicationsHost
<1> QED BY <1>4, <1>5, <1>7, <1>8 DEF Step


----------------------------------------------------------------------------
(* Commands that begin or die, the daemon, the reactor. *)

LEMMA BeginSafe ==
    ASSUME HostInv, HostType', NEW o \in Operators, job[o] = Idle, NEW c, WellFormed(c), Admitted(c),
           job' = [job EXCEPT ![o] = JobOf(c)], UNCHANGED hostVars,
           ~raced' => ~raced /\ Quiet,
           blind' = {} => blind = {} /\ (StartsNatives(c) => daemon)
    PROVE  HostInv'
<1>1. /\ JobOK(JobOf(c))
      /\ (StartsNatives(c) => daemon) => \A i \in DOMAIN JobOf(c).todo : Harmless(JobOf(c).todo[i])
  BY JobsAreCommands DEF HostInv
<1>2. JobType' /\ job'[o] = JobOf(c) /\ \A p \in Operators : p # o => job'[p] = job[p]
  BY <1>1 DEF HostInv, JobType
<1>3. Alone'
  BY <1>2 DEF Alone, Quiet
<1>4. \A call : Harmless(call) => Harmless(call)'
  BY DEF Harmless, NativeTier, hostVars
<1>5. HarmlessToGo'
  <2> SUFFICES ASSUME ~raced', blind' = {}, NEW p \in Operators, job'[p] # Idle, NEW i \in DOMAIN job'[p].todo
               PROVE  Harmless(job'[p].todo[i])
    BY <1>4 DEF HarmlessToGo, Harmless, NativeTier, hostVars
  <2> QED BY <1>1, <1>2 DEF Quiet
<1>6. TierServedOnce'
  BY DEF HostInv, TierServedOnce, NativeTier, hostVars
<1> QED BY <1>2, <1>3, <1>5, <1>6 DEF HostInv

LEMMA TypeHost ==
    ASSUME HostInv, NEW o \in Operators, NEW c \in menu, Type(o, c)
    PROVE  HostInv'
<1>1. HostType'
  BY DeploymentAssumption DEF HostInv, HostType, Type, hostVars
<1>2. WellFormed(c) /\ job[o] = Idle /\ Admitted(c) /\ job' = [job EXCEPT ![o] = JobOf(c)] /\ UNCHANGED hostVars
  BY DEF Type, HostInv, HostType
<1>3. ~raced' => ~raced /\ Quiet
  BY DEF Type, Quiet
<1>4. blind' = {} => blind = {} /\ (StartsNatives(c) => daemon)
  BY DEF Type
<1> QED BY <1>1, <1>2, <1>3, <1>4, BeginSafe

\* The remedies are commands that start nothing natively.
LEMMA RemediesAreCommands ==
    ASSUME HostType
    PROVE  WellFormed(Remedy) /\ ~StartsNatives(Remedy)
<1>1. ASSUME NEW name \in Modes
      PROVE  WellFormed(Select(name)) /\ ~StartsNatives(Select(name))
  BY DEF WellFormed, StartsNatives, Select, Command
<1>2. RecordedMode \in Modes
  BY DEF HostType, RecordedMode, Modes
<1>3. mode # Missing => mode.name \in Modes
  BY DEF HostType
<1>4. WellFormed(StopNative) /\ ~StartsNatives(StopNative)
  <2>1. \A t \in {"all", "frontends", "infra"} :
           LET c == Command("native", "stop", t, "") IN WellFormed(c) /\ ~StartsNatives(c)
    BY DEF WellFormed, StartsNatives, Command, Groups
  <2>2. \E t \in {"all", "frontends", "infra"} : StopNative = Command("native", "stop", t, "")
    BY DEF StopNative
  <2> QED BY <2>1, <2>2
<1>5. \A t \in {"all", "admin"} : LET c == Command("docker", "stop", t, "") IN WellFormed(c) /\ ~StartsNatives(c)
  BY DEF WellFormed, StartsNatives, Command, Stacks
<1>6. WellFormed(ClearMode) /\ ~StartsNatives(ClearMode)
  BY DEF WellFormed, StartsNatives, ClearMode, Command
<1>7. WellFormed(Named) /\ ~StartsNatives(Named)
  BY <1>1, <1>2, <1>4, <1>5, <1>6 DEF Named
<1> QED BY <1>1, <1>3, <1>7 DEF Remedy, Cornered, Adoption

LEMMA RecoverHost ==
    ASSUME HostInv, Recover
    PROVE  HostInv'
<1>1. PICK o \in Operators : job' = [job EXCEPT ![o] = JobOf(Remedy)]
  BY DEF Recover
<1>2. HostType /\ job[o] = Idle /\ Admitted(Remedy) /\ UNCHANGED <<hostVars, ledger>> /\ Quiet
  BY DEF Recover, HostInv, Quiet
<1>3. HostType'
  BY <1>2 DEF HostType, hostVars, ledger
<1>4. WellFormed(Remedy) /\ ~StartsNatives(Remedy)
  BY <1>2, RemediesAreCommands
<1>5. UNCHANGED <<raced, blind>> /\ UNCHANGED hostVars
  BY <1>2 DEF ledger
<1> HIDE DEF Remedy
<1> QED BY <1>1, <1>2, <1>3, <1>4, <1>5, BeginSafe

LEMMA KillHost ==
    ASSUME HostInv, NEW o \in Operators, Kill(o)
    PROVE  HostInv'
<1>1. HostType'
  BY DeploymentAssumption DEF HostInv, HostType, Kill, hostVars
<1>2. JobType' /\ Shrinks
  BY JobsShrink DEF HostInv, Kill
<1>3. UNCHANGED <<raced, blind, docker, native>>
  BY DEF Kill, hostVars
<1>4. Alone' /\ HarmlessToGo' /\ TierServedOnce'
  BY <1>2, <1>3, StepAlone, SameIsQuieter, QuieterIsSafe DEF HostInv
<1> QED BY <1>1, <1>2, <1>4 DEF HostInv

LEMMA SurroundingsHost ==
    ASSUME HostInv, DaemonStops \/ DaemonReturns \/ GiveUp
    PROVE  HostInv'
<1>1. HostType'
  <2>1. CASE DaemonStops
    <3>1. faults' \in 0 .. MaxFaults
      BY <2>1, DeploymentAssumption DEF HostInv, HostType, DaemonStops
    <3> QED BY <2>1, <3>1 DEF HostInv, HostType, DaemonStops
  <2>2. CASE DaemonReturns
    <3>1. docker' \in [Stacks -> Tags \union {"down", "part"}]
      BY <2>2 DEF HostInv, HostType, DaemonReturns
    <3> QED BY <2>2, <3>1 DEF HostInv, HostType, DaemonReturns, ledger
  <2>3. CASE GiveUp
    BY <2>3 DEF HostInv, HostType, GiveUp, hostVars
  <2> QED BY <2>1, <2>2, <2>3
<1>2. UNCHANGED <<job, raced, blind>>
  BY DEF DaemonStops, DaemonReturns, GiveUp, ledger
<1>3. JobType' /\ Shrinks
  BY <1>2 DEF HostInv, JobType, Shrinks
<1>4. Quieter
  BY DEF DaemonStops, DaemonReturns, GiveUp, hostVars, Quieter, NativeTier, Serves, HostInv, HostType
<1> QED BY <1>1, <1>2, <1>3, <1>4, StepAlone, QuieterIsSafe DEF HostInv

\* The reactor's frontends meet no others, as long as it was asked for and
\* nobody else was at work.
LEMMA DeployHost ==
    ASSUME HostInv, NEW o \in Operators, DeployFrontends(o)
    PROVE  HostInv'
<1>1. PICK came \in SUBSET {"frontends"} : native' = [native EXCEPT !.apps = (@ \ {"frontends"}) \union came]
  BY DEF DeployFrontends
<1>2. /\ native' \in [infra : {"down", "part", "up"}, apps : SUBSET Groups] /\ native'.infra = native.infra
      /\ native'.apps \subseteq native.apps \union {"frontends"}
  <2> DEFINE apps == (native.apps \ {"frontends"}) \union came
  <2>1. native' = [native EXCEPT !.apps = apps]
    BY <1>1 DEF HostInv, HostType
  <2>2. apps \in SUBSET Groups /\ apps \subseteq native.apps \union {"frontends"}
    BY DEF HostInv, HostType, Groups
  <2> HIDE DEF apps
  <2> QED BY <2>1, <2>2 DEF HostInv, HostType
<1>3. UNCHANGED <<mode, record, docker, daemon, provisioned, images, job, menu, typed, faults, recovering>>
  BY DEF DeployFrontends
<1>4. HostType'
  BY <1>2, <1>3 DEF DeployFrontends, HostInv, HostType
<1>5. JobType'
  BY <1>3 DEF HostInv, JobType
<1>6. ASSUME ~raced', blind' = {}
      PROVE  ~raced /\ blind = {} /\ Quiet /\ docker["frontends"] = "down"
  <2>1. ~raced /\ blind = {} /\ Quiet /\ daemon /\ Bootstrap("native", "restart")
    BY <1>6 DEF DeployFrontends
  <2>2. mode.name \in {"native", "hybrid"} /\ RuntimeCompatible(mode.name)
    BY <2>1 DEF Bootstrap, RequireSurface, Surfaces, HostInv, HostType, Modes
  <2> QED BY <2>1, <2>2 DEF RuntimeCompatible, RunningProjects, Stacks
<1>7. TierServedOnce'
  BY <1>2, <1>3, <1>6 DEF TierServedOnce, HostInv, NativeTier, Serves
<1>8. ~raced' => Quiet
  BY DEF DeployFrontends
<1>9. Alone' /\ HarmlessToGo'
  BY <1>3, <1>8 DEF Alone, HarmlessToGo, Quiet
<1> QED BY <1>4, <1>5, <1>7, <1>9 DEF HostInv

LEMMA SameHost ==
    ASSUME HostInv, UNCHANGED deploymentVars
    PROVE  HostInv'
<1>1. HostType' /\ JobType' /\ Alone' /\ TierServedOnce'
  BY DEF HostInv, HostType, JobType, Alone, TierServedOnce, NativeTier, deploymentVars, hostVars, ledger
<1>2. HarmlessToGo'
  BY DEF HostInv, HarmlessToGo, Harmless, NativeTier, deploymentVars, hostVars, ledger
<1> QED BY <1>1, <1>2 DEF HostInv

LEMMA HostInit ==
    ASSUME Init
    PROVE  HostInv
<1>1. PICK host \in Hosts : StartsOn(host)
  BY DEF Init
<1>2. Orderly(host)
  BY HostsAssumption
<1>3. HostType
  BY <1>1, <1>2 DEF StartsOn, Orderly, HostType
<1>4. JobType /\ Alone /\ HarmlessToGo
  BY <1>1 DEF StartsOn, JobType, Alone, HarmlessToGo
<1>5. TierServedOnce
  BY <1>1, <1>2 DEF StartsOn, Orderly, TierServedOnce, NativeTier
<1> QED BY <1>3, <1>4, <1>5 DEF HostInv

LEMMA HostStep == HostInv /\ [Next]_vars => HostInv'
<1> SUFFICES ASSUME HostInv, [Next]_vars PROVE HostInv'
  OBVIOUS
<1>1. ASSUME NEW o \in Operators, HostCommand(o) PROVE HostInv'
  BY <1>1, TypeHost, KillHost DEF HostCommand
<1>2. ASSUME NEW o \in Operators, StackStep(o) PROVE HostInv'
  BY <1>2, StepHost DEF StackStep
<1>3. ASSUME NEW o \in Operators, Smoke(o) PROVE HostInv'
  <2>1. CASE DeployFrontends(o)
    BY <2>1, DeployHost
  <2>2. CASE ~DeployFrontends(o)
    <3>1. UNCHANGED deploymentVars
      BY <1>3, <2>2 DEF Smoke, AskSmoke, HoldStack, JudgeStack, RecordHeads, RefuseSmoke, RunTiers,
                        RecordRun, RecordLatest, KillSmoke
    <3> QED BY <3>1, SameHost
  <2> QED BY <2>1, <2>2
<1>4. ASSUME NEW o \in Operators, Train(o) PROVE HostInv'
  BY <1>4, SameHost DEF Train, AskTrain, LocalPhase, IdleSlot, SourceAlignment, SmokeGate, Dispatch, RefuseTrain
<1>5. CASE HostMoves
  BY <1>5, SurroundingsHost, RecoverHost DEF HostMoves
<1>6. CASE SourceMoves
  BY <1>6, SameHost DEF SourceMoves, Commit, Push, ColleaguePushes, Pull, Edit, Build, Move
<1>7. CASE Workflow
  BY <1>7, SameHost DEF Workflow, Capture, RunEnds
<1>8. CASE UNCHANGED vars
  BY <1>8, SameHost DEF vars
<1> QED BY <1>1, <1>2, <1>3, <1>4, <1>5, <1>6, <1>7, <1>8 DEF Next

----------------------------------------------------------------------------
(* What the modes keep apart. *)

\* The calls of a command come one after the other, and one that failed is
\* followed by the next only in a stop or a removal of everything.
LEMMA Advances ==
    ASSUME JobType, NEW o \in Operators, job[o] # Idle, Proceed(o) \/ GoOnFailed(o) \/ End(o)
    PROVE  /\ \A p \in Operators : p # o => job'[p] = job[p]
           /\ job'[o] # Idle => /\ job'[o].cmd = job[o].cmd
                                /\ job'[o].todo = Tail(job[o].todo) /\ Len(job[o].todo) > 1
           /\ job'[o] # Idle => Proceed(o) \/ job[o].cmd.verb \in {"stop", "remove"}
<1>1. JobOK(job[o]) /\ Len(job[o].todo) \in Nat /\ Len(job[o].todo) >= 1
  BY Calling
<1>2. job = [p \in Operators |-> job[p]] /\ job[o] = [x \in {"cmd", "todo", "tag", "failed"} |-> job[o][x]]
  BY <1>1 DEF JobType, JobOK
<1>3. CASE End(o)
  BY <1>2, <1>3 DEF End
<1>4. CASE Proceed(o) /\ ~End(o)
  <2>1. Len(job[o].todo) # 1 /\ job' = [job EXCEPT ![o] = [job[o] EXCEPT !.todo = Tail(@)]]
    BY <1>4 DEF Proceed, End
  <2> DEFINE j == [job[o] EXCEPT !.todo = Tail(@)]
  <2>2. j.cmd = job[o].cmd /\ j.todo = Tail(job[o].todo)
    BY <1>2
  <2> HIDE DEF j
  <2>3. job'[o] = j /\ \A p \in Operators : p # o => job'[p] = job[p]
    BY <1>2, <2>1 DEF j
  <2>4. Len(job[o].todo) > 1
    <3>1. \A n \in Nat : n >= 1 /\ n # 1 => n > 1
      OBVIOUS
    <3> QED BY <1>1, <2>1, <3>1
  <2> QED BY <1>4, <2>2, <2>3, <2>4
<1>5. CASE GoOnFailed(o) /\ ~End(o)
  <2>1. /\ Persists(job[o].cmd) /\ Len(job[o].todo) > 1
        /\ job' = [job EXCEPT ![o] = [job[o] EXCEPT !.todo = Tail(@), !.failed = TRUE]]
    BY <1>5 DEF GoOnFailed
  <2> DEFINE j == [job[o] EXCEPT !.todo = Tail(@), !.failed = TRUE]
  <2>2. j.cmd = job[o].cmd /\ j.todo = Tail(job[o].todo)
    BY <1>2
  <2> HIDE DEF j
  <2>3. job'[o] = j /\ \A p \in Operators : p # o => job'[p] = job[p]
    BY <1>2, <2>1 DEF j
  <2> QED BY <2>1, <2>2, <2>3 DEF Persists
<1> QED BY <1>3, <1>4, <1>5

LEMMA StepsAdvance ==
    ASSUME JobType, NEW o \in Operators, Step(o)
    PROVE  Proceed(o) \/ GoOnFailed(o) \/ End(o)
BY DEF Step, Prepare, ComposeUp, ComposeDown, ComposeFails, RecordDeployment, ForgetDeployment, Remove, RemoveUnasked, Setup,
       StartInfrastructure, StopInfrastructure, StartApplications, StopApplications, SelectMode,
       AdoptProfile, UnlinkMode, Refuse

LEMMA Later ==
    ASSUME NEW S, NEW s \in Seq(S), Len(s) > 1
    PROVE  /\ Len(Tail(s)) = Len(s) - 1 /\ DOMAIN Tail(s) = 1 .. Len(s) - 1
           /\ \A i \in 1 .. Len(s) - 1 : Tail(s)[i] = s[i + 1]
OBVIOUS

\* The mode is written by the last call of a command, also of what is left of it.
LEMMA LastStays ==
    ASSUME NEW S, NEW s \in Seq(S), Len(s) > 1, LastCalls(s)
    PROVE  LastCalls(Tail(s)) /\ s[1][1] \notin {"select", "adopt", "unlink"}
<1>1. Len(s) \in Nat /\ DOMAIN s = 1 .. Len(s)
  OBVIOUS
<1>2. s[1][1] \notin {"select", "adopt", "unlink"}
  BY <1>1 DEF LastCalls
<1>3. ASSUME NEW i \in DOMAIN Tail(s), Tail(s)[i][1] \in {"select", "adopt", "unlink"}
      PROVE  i = Len(Tail(s))
  <2>1. i \in 1 .. Len(s) - 1 /\ Tail(s)[i] = s[i + 1]
    BY <1>3, Later
  <2>2. i + 1 \in DOMAIN s
    BY <1>1, <2>1
  <2>3. i + 1 = Len(s)
    BY <1>3, <2>1, <2>2 DEF LastCalls
  <2> QED BY <1>1, <2>1, <2>3, Later
<1> QED BY <1>2, <1>3 DEF LastCalls

LEMMA SameSequence ==
    ASSUME NEW S, NEW s \in Seq(S), NEW t \in Seq(S), Len(s) = Len(t), \A i \in 1 .. Len(s) : s[i] = t[i]
    PROVE  s = t
OBVIOUS

LEMMA JoinedIs ==
    ASSUME NEW S, NEW s \in Seq(S), NEW t \in Seq(S), NEW u \in Seq(S), Len(u) = Len(s) + Len(t),
           \A i \in 1 .. Len(s) : u[i] = s[i], \A i \in 1 .. Len(t) : u[Len(s) + i] = t[i]
    PROVE  s \o t = u
<1>1. s \o t \in Seq(S) /\ Len(s \o t) = Len(s) + Len(t)
  OBVIOUS
<1>2. ASSUME NEW i \in 1 .. Len(u) PROVE (s \o t)[i] = u[i]
  <2>1. CASE i \in 1 .. Len(s)
    BY <2>1
  <2>2. CASE i \notin 1 .. Len(s)
    <3>1. i - Len(s) \in 1 .. Len(t) /\ (s \o t)[i] = t[i - Len(s)] /\ i = Len(s) + (i - Len(s))
      BY <2>2
    <3> QED BY <3>1
  <2> QED BY <2>1, <2>2
<1> QED BY <1>1, <1>2, SameSequence

LEMMA Joined ==
    ASSUME NEW S, NEW a \in S, NEW b \in S, NEW c \in S, NEW d \in S, NEW e \in S
    PROVE  /\ <<a>> \o <<b>> = <<a, b>>
           /\ <<a, b>> \o <<c, d>> = <<a, b, c, d>>
           /\ <<a, b, c, d>> \o <<e>> = <<a, b, c, d, e>>
<1>1. /\ <<a>> \in Seq(S) /\ <<b>> \in Seq(S) /\ <<a, b>> \in Seq(S) /\ <<c, d>> \in Seq(S) /\ <<e>> \in Seq(S)
      /\ <<a, b, c, d>> \in Seq(S) /\ <<a, b, c, d, e>> \in Seq(S)
  OBVIOUS
<1>2. \A i : /\ i \in 1 .. 1 <=> i = 1
             /\ i \in 1 .. 2 <=> i \in {1, 2}
             /\ i \in 1 .. 4 <=> i \in {1, 2, 3, 4}
  OBVIOUS
<1>3. <<a>> \o <<b>> = <<a, b>>
  <2>1. \A i \in 1 .. Len(<<b>>) : <<a, b>>[Len(<<a>>) + i] = <<b>>[i]
    BY <1>2
  <2>2. \A i \in 1 .. Len(<<a>>) : <<a, b>>[i] = <<a>>[i]
    BY <1>2
  <2>3. Len(<<a, b>>) = Len(<<a>>) + Len(<<b>>)
    OBVIOUS
  <2> QED BY <1>1, <2>1, <2>2, <2>3, JoinedIs
<1>4. <<a, b>> \o <<c, d>> = <<a, b, c, d>>
  <2>1. \A i \in 1 .. Len(<<c, d>>) : <<a, b, c, d>>[Len(<<a, b>>) + i] = <<c, d>>[i]
    BY <1>2
  <2>2. \A i \in 1 .. Len(<<a, b>>) : <<a, b, c, d>>[i] = <<a, b>>[i]
    BY <1>2
  <2>3. Len(<<a, b, c, d>>) = Len(<<a, b>>) + Len(<<c, d>>)
    OBVIOUS
  <2> QED BY <1>1, <2>1, <2>2, <2>3, JoinedIs
<1>5. <<a, b, c, d>> \o <<e>> = <<a, b, c, d, e>>
  <2>1. \A i \in 1 .. Len(<<e>>) : <<a, b, c, d, e>>[Len(<<a, b, c, d>>) + i] = <<e>>[i]
    BY <1>2
  <2>2. \A i \in 1 .. Len(<<a, b, c, d>>) : <<a, b, c, d, e>>[i] = <<a, b, c, d>>[i]
    BY <1>2
  <2>3. Len(<<a, b, c, d, e>>) = Len(<<a, b, c, d>>) + Len(<<e>>)
    OBVIOUS
  <2> QED BY <1>1, <2>1, <2>2, <2>3, JoinedIs
<1> QED BY <1>3, <1>4, <1>5
\* The commands an operator can give write the mode last and record after the
\* Docker frontends of a hybrid host were stopped.
LEMMA JobsInOrder ==
    ASSUME HostType, NEW c, WellFormed(c), Admitted(c)
    PROVE  LastCalls(JobOf(c).todo) /\ DownFirst(JobOf(c).todo, docker["frontends"])
<1>1. /\ JobOK(JobOf(c)) /\ JobOf(c).cmd = c
      /\ \A i \in DOMAIN JobOf(c).todo :
            /\ Fits(JobOf(c).todo[i])
            /\ JobOf(c).todo[i][1] = "record" => c.verb = "start" /\ c.target = "all"
  BY JobsAreCommands
<1>2. \A i \in DOMAIN JobOf(c).todo : JobOf(c).todo[i] \in CallsOn(c.surface)
  BY <1>1 DEF JobOK
<1>3. c.surface \in {"docker", "native", "mode"}
  BY DEF Admitted
<1>4. LastCalls(JobOf(c).todo)
  <2>1. CASE c.surface \in {"docker", "native"}
    <3>1. \A call \in CallsOn(c.surface) : call[1] \notin {"select", "adopt", "unlink"}
      BY <2>1 DEF CallsOn, DockerVerbs, NativeVerbs
    <3> QED BY <1>2, <3>1 DEF LastCalls
  <2>2. CASE c.surface = "mode" /\ c.verb = "select"
    <3>1. JobOf(c).todo = <<<<IF Adopts(c) THEN "adopt" ELSE "select", c.target>>>>
      BY <2>2 DEF JobOf, ConfigureJob, Start
    <3> HIDE DEF JobOf
    <3> QED BY <3>1 DEF LastCalls
  <2>3. CASE c.surface = "mode" /\ c.verb = "clear"
    <3>1. JobOf(c).todo = (IF mode.name = "native" THEN <<>> ELSE <<<<"forget", "cleared">>>>) \o <<<<"unlink", "mode">>>>
      BY <2>3 DEF JobOf, ClearJob, Start
    <3>2. CASE mode.name = "native"
      <4>1. JobOf(c).todo = <<<<"unlink", "mode">>>>
        BY <3>1, <3>2
      <4> QED BY <4>1 DEF LastCalls
    <3>3. CASE mode.name # "native"
      <4>1. JobOf(c).todo = <<<<"forget", "cleared">>, <<"unlink", "mode">>>>
        <5> DEFINE S == {<<"forget", "cleared">>, <<"unlink", "mode">>}
        <5>1. <<"forget", "cleared">> \in S /\ <<"unlink", "mode">> \in S
          OBVIOUS
        <5>2. <<<<"forget", "cleared">>>> \o <<<<"unlink", "mode">>>> = <<<<"forget", "cleared">>, <<"unlink", "mode">>>>
          BY <5>1, Joined
        <5> QED BY <3>1, <3>3, <5>2
      <4> QED BY <4>1 DEF LastCalls
    <3> QED BY <3>2, <3>3
  <2> QED BY <1>3, <2>1, <2>2, <2>3 DEF Admitted
<1>5. DownFirst(JobOf(c).todo, docker["frontends"])
  <2> SUFFICES ASSUME NEW i \in DOMAIN JobOf(c).todo, JobOf(c).todo[i] = <<"record", "hybrid">>
               PROVE  \E k \in 1 .. i - 1 : JobOf(c).todo[k] = <<"down", "frontends">>
    BY DEF DownFirst
  <2> DEFINE call == <<"record", "hybrid">>
  <2>8. call[1] = "record" /\ call[2] = "hybrid"
    OBVIOUS
  <2>9. call \in CallsOn(c.surface) /\ Fits(call) /\ c.verb = "start" /\ c.target = "all"
    BY <1>1, <1>2, <2>8
  <2> HIDE DEF call
  <2>1. c.verb = "start" /\ c.target = "all" /\ Topology(mode.name) = "hybrid"
    BY <2>8, <2>9 DEF Fits
  <2>2. c.surface = "docker"
    BY <1>3, <2>8, <2>9 DEF CallsOn, NativeVerbs, ModeVerbs
  <2>3. JobOf(c).todo = DockerStartAll("hybrid")
    BY <2>1, <2>2 DEF JobOf, DockerStartJob, Start
  <2>4. StackNames("hybrid") = <<"infrastructure", "microservices">>
    BY DEF StackNames
  <2>5. Each("up", <<"infrastructure", "microservices">>) = <<<<"up", "infrastructure">>, <<"up", "microservices">>>>
    BY DEF Each
  <2>6. JobOf(c).todo = <<<<"prepare", "all">>, <<"down", "frontends">>, <<"up", "infrastructure">>,
                          <<"up", "microservices">>, <<"record", "hybrid">>>>
    <3>1. DockerStartAll("hybrid") =
             ((<<<<"prepare", "all">>>> \o <<<<"down", "frontends">>>>)
                \o <<<<"up", "infrastructure">>, <<"up", "microservices">>>>) \o <<<<"record", "hybrid">>>>
      BY <2>4, <2>5 DEF DockerStartAll
    <3> DEFINE S == {<<"prepare", "all">>, <<"down", "frontends">>, <<"up", "infrastructure">>,
                     <<"up", "microservices">>, <<"record", "hybrid">>}
    <3>2. /\ <<"prepare", "all">> \in S /\ <<"down", "frontends">> \in S /\ <<"up", "infrastructure">> \in S
          /\ <<"up", "microservices">> \in S /\ <<"record", "hybrid">> \in S
      OBVIOUS
    <3> HIDE DEF S
    <3> QED BY <2>3, <3>1, <3>2, Joined
  <2> HIDE DEF JobOf
  <2>7. i \in 1 .. 5 /\ i # 1 /\ i # 2
    BY <2>6
  <2> QED BY <2>6, <2>7
<1> QED BY <1>4, <1>5

\* The call a command makes now goes with the mode, and nobody else is at work.
LEMMA InTurnCalls ==
    ASSUME HostInv, ModeInv, InTurn, NEW o \in Operators, job[o] # Idle
    PROVE  /\ \A p \in Operators : job[p] # Idle => p = o
           /\ \A i \in DOMAIN job[o].todo : Fits(job[o].todo[i])
           /\ Fits(Head(job[o].todo)) /\ Head(job[o].todo) \in CallsOn(job[o].cmd.surface)
           /\ Kept(mode, record, docker, native)
BY Calling DEF HostInv, Alone, ModeInv, FitsToGo, InTurn

LEMMA FitsRecorded ==
    ASSUME UNCHANGED <<mode, native>>, NEW call, Fits(call),
           record' = record \/ record' = Missing \/ (mode # Missing /\ record' # Missing /\ record'.mode = Topology(mode.name))
    PROVE  Fits(call)'
<1>1. call[1] = "up" => Fits(call)'
  BY DEF Fits, Topology
<1>2. call[1] # "up" => Fits(call)'
  BY DEF Fits, DockerStartCompatible, RunningNativeServices, HostInfrastructureListens, SelectedServicesStopped
<1> QED BY <1>1, <1>2

LEMMA FitsNative ==
    ASSUME UNCHANGED <<mode, record>>, NEW call, Fits(call), call[1] \notin {"select", "adopt", "unlink"}
    PROVE  Fits(call)'
BY DEF Fits

LEMMA StepFits ==
    ASSUME HostInv, ModeInv, NEW o \in Operators, Step(o)
    PROVE  FitsToGo'
<1>1. JobType /\ job[o] # Idle /\ UNCHANGED <<raced, blind>> /\ Shrinks
  BY StepsShrink DEF HostInv, ledger
<1>2. CASE ~InTurn
  BY <1>1, <1>2 DEF FitsToGo, InTurn
<1>3. CASE InTurn /\ job'[o] = Idle
  <2>1. \A p \in Operators : job'[p] = Idle
    BY <1>1, <1>3, InTurnCalls DEF Shrinks
  <2> QED BY <2>1 DEF FitsToGo
<1>4. CASE InTurn /\ job'[o] # Idle
  <2>1. Proceed(o) \/ GoOnFailed(o) \/ End(o)
    BY <1>1, StepsAdvance
  <2>2. JobOK(job[o]) /\ Len(job[o].todo) > 1 /\ LastCalls(job[o].todo)
    BY <1>1, <1>4, <2>1, Advances, Calling DEF ModeInv, ShapeInv
  <2>3. job[o].todo[1][1] \notin {"select", "adopt", "unlink"} /\ Head(job[o].todo) = job[o].todo[1]
    BY <1>1, <2>2, LastStays, Calling DEF JobOK
  <2>4. ASSUME NEW call, ToGo(call)
        PROVE  Fits(call) /\ call \in CallsOn(job[o].cmd.surface)
    BY <1>1, <1>4, <2>4, InTurnCalls, Calling DEF ToGo
  <2>5. ASSUME NEW call, ToGo(call) PROVE Fits(call)'
    <3>1. Fits(call) /\ call \in CallsOn(job[o].cmd.surface)
      BY <2>4, <2>5
    <3>2. CASE \/ Prepare(o) \/ ComposeUp(o) \/ ComposeDown(o) \/ ComposeFails(o) \/ Setup(o) \/ Refuse(o)
      <4>1. UNCHANGED <<mode, native, record>>
        BY <3>2 DEF Prepare, ComposeUp, ComposeDown, ComposeFails, Setup, Refuse, hostVars
      <4> QED BY <3>1, <4>1, FitsRecorded
    <3>3. CASE RecordDeployment(o)
      <4>1. UNCHANGED <<mode, native>> /\ record' = [mode |-> Target(o), train |-> Tag(o)] /\ Head(job[o].todo)[1] = "record"
        BY <3>3 DEF RecordDeployment, Working
      <4>2. mode # Missing /\ Target(o) = Topology(mode.name)
        BY <1>1, <1>4, <4>1, InTurnCalls DEF Fits, Target
      <4>3. record' # Missing /\ record'.mode = Topology(mode.name)
        BY <4>1, <4>2 DEF Missing
      <4> QED BY <3>1, <4>1, <4>2, <4>3, FitsRecorded
    <3>4. CASE ForgetDeployment(o) \/ Remove(o) \/ RemoveUnasked(o)
      <4>1. UNCHANGED <<mode, native>> /\ (record' = record \/ record' = Missing)
        BY <3>4 DEF ForgetDeployment, Remove, RemoveUnasked, RemoveContainers, RemoveContainersFails,
                    RemoveImages, RemoveNetwork, RemoveVolumes
      <4> QED BY <3>1, <4>1, FitsRecorded
    <3>5. CASE StartInfrastructure(o) \/ StopInfrastructure(o) \/ StartApplications(o) \/ StopApplications(o)
      <4>1. Head(job[o].todo)[1] \in NativeVerbs /\ UNCHANGED <<mode, record>>
        BY <3>5 DEF StartInfrastructure, StopInfrastructure, StartApplications, StopApplications, Working, NativeVerbs
      <4>2. job[o].cmd.surface = "native"
        <5>1. Head(job[o].todo) \in CallsOn(job[o].cmd.surface)
          BY <1>1, <1>4, InTurnCalls
        <5> QED BY <2>2, <4>1, <5>1 DEF JobOK, CallsOn, DockerVerbs, ModeVerbs, NativeVerbs
      <4>3. call[1] \in NativeVerbs
        BY <3>1, <4>2 DEF CallsOn
      <4> QED BY <3>1, <4>1, <4>3, FitsNative DEF NativeVerbs
    <3>6. CASE SelectMode(o) \/ AdoptProfile(o) \/ UnlinkMode(o)
      BY <2>3, <3>6 DEF SelectMode, AdoptProfile, UnlinkMode, Working
    <3> QED BY <3>2, <3>3, <3>4, <3>5, <3>6 DEF Step
  <2>6. SUFFICES ASSUME NEW p \in Operators, job'[p] # Idle, NEW i \in DOMAIN job'[p].todo
                 PROVE  \A call : call = job'[p].todo[i] => Fits(call)'
    BY DEF FitsToGo, Fits
  <2>7. TAKE call
  <2>8. HAVE call = job'[p].todo[i]
  <2>9. ToGo(call)
    BY <1>1, <2>6, <2>8 DEF Shrinks, ToGo
  <2> QED BY <2>5, <2>9
<1> QED BY <1>2, <1>3, <1>4


\* What is left of a command still stops the Docker frontends of a hybrid host
\* before it records the deployment.
LEMMA StepShape ==
    ASSUME HostInv, ModeInv, NEW o \in Operators, Step(o)
    PROVE  ShapeInv'
<1>1. HostType /\ JobType /\ job[o] # Idle /\ UNCHANGED <<raced, blind>> /\ Shrinks
  BY StepsShrink DEF HostInv, ledger
<1>2. \A p \in Operators : p # o => job'[p] = job[p]
  BY <1>1, StepsAdvance, Advances
<1>3. /\ JobOK(job[o]) /\ DOMAIN job[o].todo = 1 .. Len(job[o].todo) /\ Len(job[o].todo) \in Nat
      /\ Head(job[o].todo) = job[o].todo[1] /\ 1 \in DOMAIN job[o].todo
  BY <1>1, Calling
<1>4. \A p \in Operators : job[p] # Idle =>
         /\ LastCalls(job[p].todo)
         /\ \A i \in DOMAIN job[p].todo : job[p].todo[i][1] = "record" => job[p].cmd.verb = "start"
         /\ InTurn => DownFirst(job[p].todo, docker["frontends"])
  BY DEF ModeInv, ShapeInv
<1>5. ASSUME InTurn, NEW i \in DOMAIN job[o].todo, job[o].todo[i] = <<"record", "hybrid">>, docker["frontends"] = "down"
      PROVE  docker'["frontends"] = "down"
  <2>1. CASE ComposeUp(o)
    <3>1. Head(job[o].todo)[1] = "up" /\ Fits(Head(job[o].todo)) /\ Fits(<<"record", "hybrid">>)
      BY <1>1, <1>5, <2>1, InTurnCalls DEF ComposeUp, Working
    <3>2. mode.name # "docker"
      <4>1. <<"record", "hybrid">>[1] = "record" /\ <<"record", "hybrid">>[2] = "hybrid"
        OBVIOUS
      <4> QED BY <3>1, <4>1 DEF Fits, Topology
    <3>3. StackOf(Target(o)) # "frontends"
      BY <3>1, <3>2 DEF Fits, Target
    <3> QED BY <1>1, <1>5, <2>1, <3>3, ComposeUpHost DEF Stacks
  <2>2. CASE ComposeDown(o) \/ Remove(o)
    BY <1>1, <1>5, <2>2, ComposeDownHost, RemoveHost DEF Quieter, Stacks
  <2>3. CASE ~(ComposeUp(o) \/ ComposeDown(o) \/ Remove(o))
    <3>1. UNCHANGED docker
      BY <2>3 DEF Step, Prepare, ComposeFails, RecordDeployment, ForgetDeployment, RemoveUnasked, Setup, StartInfrastructure,
                  StopInfrastructure, StartApplications, StopApplications, SelectMode, AdoptProfile, UnlinkMode,
                  Refuse, hostVars
    <3> QED BY <1>5, <3>1
  <2> QED BY <2>1, <2>2, <2>3
<1>6. ASSUME job[o].todo[1] = <<"down", "frontends">>, job[o].cmd.verb = "start", job'[o] # Idle
      PROVE  docker'["frontends"] = "down"
  <2>1. Head(job[o].todo)[1] = "down" /\ Target(o) = "frontends"
    BY <1>3, <1>6 DEF Target
  <2>2. ~GoOnFailed(o) /\ ~End(o)
    BY <1>1, <1>6 DEF GoOnFailed, Persists, End, JobType
  <2>3. CASE ComposeDown(o)
    <3>1. StackOf("frontends") = "frontends" /\ Lowered("frontends") = {"down"}
      BY DEF StackOf, Services, Lowered
    <3>2. \E left \in {"down"} : docker' = [docker EXCEPT !["frontends"] = left]
      BY <2>1, <2>2, <2>3, <3>1 DEF ComposeDown
    <3> QED BY <1>1, <3>2 DEF HostType, Stacks
  <2>4. CASE ComposeFails(o)
    BY <2>2, <2>4 DEF ComposeFails
  <2>5. CASE ~(ComposeDown(o) \/ ComposeFails(o))
    BY <2>1, <2>5 DEF Step, Prepare, ComposeUp, RecordDeployment, ForgetDeployment, Remove, RemoveUnasked, Setup, StartInfrastructure,
         StopInfrastructure, StartApplications, StopApplications, SelectMode, AdoptProfile, UnlinkMode, Refuse, Working
  <2> QED BY <2>3, <2>4, <2>5
<1>7. CASE job'[o] = Idle
  <2>1. InTurn => \A p \in Operators : job'[p] = Idle
    BY <1>1, <1>2, <1>7, InTurnCalls
  <2> QED BY <1>1, <1>2, <1>4, <1>7, <2>1 DEF ShapeInv, InTurn, LastCalls
<1>8. CASE job'[o] # Idle
  <2>1. job'[o].cmd = job[o].cmd /\ job'[o].todo = Tail(job[o].todo) /\ Len(job[o].todo) > 1
    BY <1>1, <1>8, StepsAdvance, Advances
  <2> DEFINE s == job[o].todo
  <2>2. s \in Seq(CallsOn(job[o].cmd.surface))
    BY <1>3 DEF JobOK
  <2>3. LastCalls(Tail(s))
    BY <1>1, <1>4, <2>1, <2>2, LastStays
  <2>4. DOMAIN Tail(s) = 1 .. Len(s) - 1 /\ \A i \in 1 .. Len(s) - 1 : Tail(s)[i] = s[i + 1] /\ i + 1 \in DOMAIN s
    <3>1. DOMAIN Tail(s) = 1 .. Len(s) - 1 /\ \A i \in 1 .. Len(s) - 1 : Tail(s)[i] = s[i + 1]
      BY <2>1, <2>2, Later
    <3>2. \A n \in Nat : \A i \in 1 .. n - 1 : i + 1 \in 1 .. n
      OBVIOUS
    <3> QED BY <1>3, <3>1, <3>2
  <2>5. \A i \in DOMAIN Tail(s) : Tail(s)[i][1] = "record" => job[o].cmd.verb = "start"
    BY <1>1, <1>4, <2>4
  <2>6. ASSUME InTurn PROVE DownFirst(Tail(s), docker'["frontends"])
    <3> SUFFICES ASSUME NEW i \in DOMAIN Tail(s), Tail(s)[i] = <<"record", "hybrid">>
                 PROVE  docker'["frontends"] = "down" \/ \E k \in 1 .. i - 1 : Tail(s)[k] = <<"down", "frontends">>
      BY <2>1 DEF DownFirst
    <3>1. i \in 1 .. Len(s) - 1 /\ i + 1 \in DOMAIN s /\ s[i + 1] = <<"record", "hybrid">>
      BY <2>4
    <3>2. docker["frontends"] = "down" \/ \E k \in 1 .. i : s[k] = <<"down", "frontends">>
      <4>1. (i + 1) - 1 = i
        BY <3>1
      <4>2. DownFirst(s, docker["frontends"])
        BY <1>1, <1>4, <2>6
      <4> HIDE DEF s
      <4>3. docker["frontends"] = "down" \/ \E k \in 1 .. (i + 1) - 1 : s[k] = <<"down", "frontends">>
        BY <3>1, <4>2 DEF DownFirst
      <4> QED BY <4>1, <4>3
    <3>3. CASE docker["frontends"] = "down"
      BY <1>5, <2>6, <3>1, <3>3
    <3>4. CASE \E k \in 1 .. i : s[k] = <<"down", "frontends">>
      <4>1. PICK k \in 1 .. i : s[k] = <<"down", "frontends">>
        BY <3>4
      <4>2. CASE k = 1
        <5>1. job[o].cmd.verb = "start"
          BY <1>1, <1>4, <3>1
        <5> QED BY <1>6, <1>8, <4>1, <4>2, <5>1
      <4>3. CASE k # 1
        <5>1. k - 1 \in 1 .. i - 1 /\ k - 1 \in 1 .. Len(s) - 1 /\ (k - 1) + 1 = k
          BY <1>3, <3>1, <4>1, <4>3
        <5>2. Tail(s)[k - 1] = <<"down", "frontends">>
          BY <2>4, <4>1, <5>1
        <5> QED BY <5>1, <5>2
      <4> QED BY <4>2, <4>3
    <3> QED BY <3>2, <3>3, <3>4
  <2>7. ASSUME NEW p \in Operators, job'[p] # Idle
        PROVE  /\ LastCalls(job'[p].todo)
               /\ \A i \in DOMAIN job'[p].todo : job'[p].todo[i][1] = "record" => job'[p].cmd.verb = "start"
               /\ InTurn => DownFirst(job'[p].todo, docker'["frontends"])
    <3>1. CASE p = o
      BY <2>1, <2>3, <2>5, <2>6, <3>1
    <3>2. CASE p # o
      BY <1>1, <1>2, <1>4, <2>7, <3>2, InTurnCalls
    <3> QED BY <3>1, <3>2
  <2> QED BY <1>1, <2>7 DEF ShapeInv, InTurn, LastCalls
<1> QED BY <1>7, <1>8


LEMMA KeptQuieter ==
    ASSUME HostType, Kept(mode, record, docker, native), mode' = mode, record' = record \/ record' = Missing,
           \A stack \in Stacks : docker[stack] = "down" => docker'[stack] = "down",
           native'.apps \subseteq native.apps, native.infra = "down" => native'.infra = "down"
    PROVE  Kept(mode', record', docker', native')
<1>1. "frontends" \in Stacks
  BY DEF Stacks
<1>2. native.apps = {} => native'.apps = {}
  OBVIOUS
<1>3. native.apps \subseteq {"frontends"} => native'.apps \subseteq {"frontends"}
  OBVIOUS
<1> QED BY <1>1, <1>2, <1>3 DEF Kept

LEMMA StepKept ==
    ASSUME HostInv, ModeInv, NEW o \in Operators, Step(o)
    PROVE  InTurn' => Kept(mode', record', docker', native')
<1> SUFFICES ASSUME InTurn' PROVE Kept(mode', record', docker', native')
  OBVIOUS
<1>1. HostType /\ JobType /\ job[o] # Idle /\ UNCHANGED <<raced, blind>>
  BY StepsShrink DEF HostInv, ledger
<1>2. InTurn
  BY <1>1 DEF InTurn
<1>3. /\ Fits(Head(job[o].todo)) /\ Kept(mode, record, docker, native)
      /\ Target(o) = Head(job[o].todo)[2] /\ Head(job[o].todo) \in CallsOn(job[o].cmd.surface)
  BY <1>1, <1>2, InTurnCalls DEF Target
<1>4. ASSUME mode' = mode, record' = record \/ record' = Missing, UNCHANGED docker, UNCHANGED native
      PROVE  Kept(mode', record', docker', native')
  BY <1>1, <1>3, <1>4, KeptQuieter
<1>5. CASE Prepare(o) \/ ForgetDeployment(o) \/ RemoveUnasked(o) \/ Setup(o) \/ Refuse(o) \/ ComposeFails(o)
  BY <1>4, <1>5 DEF Prepare, ForgetDeployment, RemoveUnasked, Setup, Refuse, ComposeFails, hostVars
<1>6. CASE ComposeDown(o) \/ Remove(o)
  <2>1. \A stack \in Stacks : docker[stack] = "down" => docker'[stack] = "down"
    BY <1>1, <1>6, ComposeDownHost, RemoveHost DEF Quieter
  <2>2. mode' = mode /\ UNCHANGED native /\ (record' = record \/ record' = Missing)
    BY <1>6 DEF ComposeDown, Remove, RemoveContainers, RemoveContainersFails, RemoveImages, RemoveNetwork, RemoveVolumes
  <2> QED BY <1>1, <1>3, <2>1, <2>2, KeptQuieter
<1>7. CASE StopInfrastructure(o) \/ StopApplications(o)
  <2>1. UNCHANGED <<mode, record, docker>>
    BY <1>7 DEF StopInfrastructure, StopApplications
  <2>2. native'.apps \subseteq native.apps /\ (native.infra = "down" => native'.infra = "down")
    <3>1. CASE StopInfrastructure(o)
      BY <1>1, <3>1 DEF StopInfrastructure, HostType
    <3>2. CASE StopApplications(o)
      <4>1. PICK went : native' = [native EXCEPT !.apps = @ \ went]
        BY <3>2 DEF StopApplications
      <4> QED BY <1>1, <4>1 DEF HostType
    <3> QED BY <1>7, <3>1, <3>2
  <2> QED BY <1>1, <1>3, <2>1, <2>2, KeptQuieter
<1>8. CASE ComposeUp(o)
  <2>1. Head(job[o].todo)[1] = "up" /\ UNCHANGED <<mode, record, native>>
    BY <1>8 DEF ComposeUp, Working
  <2>2. /\ mode # Missing
        /\ StackOf(Target(o)) = "frontends" => (record # Missing => record.mode = "full")
    BY <1>3, <2>1 DEF Fits
  <2>3. docker'["frontends"] = docker["frontends"] \/ StackOf(Target(o)) = "frontends"
    BY <1>1, <1>8, ComposeUpHost DEF Stacks
  <2> QED BY <1>3, <2>1, <2>2, <2>3 DEF Kept
<1>9. CASE RecordDeployment(o)
  <2>1. Head(job[o].todo)[1] = "record" /\ record' = [mode |-> Target(o), train |-> Tag(o)] /\ UNCHANGED <<mode, docker, native>>
    BY <1>9 DEF RecordDeployment, Working
  <2>2. mode # Missing
    BY <1>3, <2>1 DEF Fits
  <2>3. ASSUME Target(o) = "hybrid" PROVE docker["frontends"] = "down"
    <3>1. JobOK(job[o]) /\ Head(job[o].todo) = job[o].todo[1] /\ 1 \in DOMAIN job[o].todo
      BY <1>1, Calling
    <3>2. Head(job[o].todo) = <<"record", "hybrid">>
      <4>1. \A call \in Verbs \X Targets : call = <<call[1], call[2]>>
        OBVIOUS
      <4>2. Head(job[o].todo) \in Verbs \X Targets
        BY <1>3 DEF CallsOn
      <4> QED BY <1>3, <2>1, <2>3, <4>1, <4>2
    <3>3. DownFirst(job[o].todo, docker["frontends"])
      BY <1>1, <1>2 DEF ModeInv, ShapeInv
    <3>4. ~\E k \in 1 .. 1 - 1 : TRUE
      OBVIOUS
    <3> QED BY <3>1, <3>2, <3>3, <3>4 DEF DownFirst
  <2>4. record'.mode = Target(o)
    BY <2>1
  <2> QED BY <1>3, <2>1, <2>2, <2>3, <2>4 DEF Kept
<1>10. CASE StartInfrastructure(o)
  <2>1. Head(job[o].todo)[1] = "start infra" /\ UNCHANGED <<mode, record, docker>>
    BY <1>10 DEF StartInfrastructure, Working
  <2>2. mode # Missing /\ mode.name = "native"
    BY <1>3, <2>1 DEF Fits
  <2> QED BY <1>3, <2>1, <2>2 DEF Kept
<1>11. CASE StartApplications(o)
  <2>1. Head(job[o].todo)[1] \in {"start apps", "restart apps"} /\ UNCHANGED <<mode, record, docker>>
    BY <1>11 DEF StartApplications, Working
  <2>2. /\ mode # Missing /\ mode.name \in {"native", "hybrid"}
        /\ mode.name = "hybrid" => Selected(Target(o)) = {"frontends"}
    BY <1>3, <2>1 DEF Fits, Selected
  <2>3. native'.infra = native.infra /\ native'.apps \subseteq native.apps \union Selected(Target(o))
    <3>1. PICK came \in SUBSET Selected(Target(o)) : native' = [native EXCEPT !.apps =
               (IF Working(o, "restart apps") THEN @ \ Selected(Target(o)) ELSE @) \union came]
      BY <1>11 DEF StartApplications
    <3> QED BY <1>1, <3>1 DEF HostType
  <2> QED BY <1>3, <2>1, <2>2, <2>3 DEF Kept
<1>12. CASE SelectMode(o)
  <2>1. Head(job[o].todo)[1] = "select" /\ UNCHANGED <<record, docker, native>>
    BY <1>12 DEF SelectMode, Working
  <2>2. mode = Missing /\ DockerStartCompatible(Target(o)) /\ Target(o) \in Modes
    BY <1>3, <2>1 DEF Fits, CallsOn
  <2>3. mode' # Missing /\ mode'.name = Target(o)
    BY <1>12, <2>2 DEF SelectMode, Missing
  <2>4. /\ Target(o) = "docker" => native.apps = {} /\ native.infra = "down"
        /\ Target(o) = "hybrid" => native.apps \subseteq {"frontends"} /\ native.infra = "down"
    BY <2>2 DEF DockerStartCompatible, RunningNativeServices, HostInfrastructureListens
  <2> QED BY <1>3, <2>1, <2>3, <2>4 DEF Kept
<1>13. CASE AdoptProfile(o)
  <2>1. Head(job[o].todo)[1] = "adopt" /\ UNCHANGED <<record, docker, native>> /\ mode' = [name |-> Target(o), profile |-> TRUE]
    BY <1>13 DEF AdoptProfile, Working
  <2>2. mode # Missing /\ mode.name = Target(o)
    BY <1>3, <2>1 DEF Fits
  <2>3. mode' # Missing /\ mode'.name = mode.name
    BY <2>1, <2>2 DEF Missing
  <2> QED BY <1>3, <2>1, <2>2, <2>3 DEF Kept
<1>14. CASE UnlinkMode(o)
  <2>1. Head(job[o].todo)[1] = "unlink" /\ UNCHANGED <<record, docker, native>> /\ mode' = Missing
    BY <1>14 DEF UnlinkMode, Working
  <2>2. mode # Missing /\ SelectedServicesStopped /\ mode.name \in Modes
    BY <1>1, <1>3, <2>1 DEF Fits, HostType
  <2>3. native.apps = {} /\ native.infra = "down"
    BY <1>3, <2>2 DEF SelectedServicesStopped, RunningNativeServices, HostInfrastructureListens, Kept, Modes
  <2> QED BY <1>3, <2>1, <2>3 DEF Kept
<1> QED BY <1>5, <1>6, <1>7, <1>8, <1>9, <1>10, <1>11, <1>12, <1>13, <1>14 DEF Step

LEMMA StepMode ==
    ASSUME HostInv, ModeInv, NEW o \in Operators, Step(o)
    PROVE  ModeInv'
<1>1. Kept(mode', record', docker', native') <=> Kept(mode, record, docker, native)'
  BY DEF Kept
<1> QED BY <1>1, StepFits, StepShape, StepKept DEF ModeInv


\* A command that begins goes with the mode it was admitted under.
LEMMA BeginMode ==
    ASSUME HostInv, ModeInv, NEW o \in Operators, job[o] = Idle, NEW c, WellFormed(c), Admitted(c),
           job' = [job EXCEPT ![o] = JobOf(c)], UNCHANGED hostVars,
           InTurn' => InTurn /\ Quiet
    PROVE  ModeInv'
<1>1. /\ JobOf(c).cmd = c
      /\ \A i \in DOMAIN JobOf(c).todo :
            /\ Fits(JobOf(c).todo[i])
            /\ JobOf(c).todo[i][1] = "record" => c.verb = "start"
      /\ LastCalls(JobOf(c).todo) /\ DownFirst(JobOf(c).todo, docker["frontends"])
  BY JobsAreCommands, JobsInOrder DEF HostInv
<1>2. job'[o] = JobOf(c) /\ \A p \in Operators : p # o => job'[p] = job[p]
  BY DEF HostInv, JobType
<1>3. UNCHANGED <<mode, record, docker, native>>
  BY DEF hostVars
<1>4. \A call : Fits(call) => Fits(call)'
  BY <1>3 DEF Fits, DockerStartCompatible, RunningNativeServices, HostInfrastructureListens, SelectedServicesStopped
<1>5. FitsToGo'
  <2> SUFFICES ASSUME InTurn', NEW p \in Operators, job'[p] # Idle, NEW i \in DOMAIN job'[p].todo
               PROVE  \A call : call = job'[p].todo[i] => Fits(call)'
    BY DEF FitsToGo, Fits
  <2> QED BY <1>1, <1>2, <1>4 DEF Quiet
<1>6. ShapeInv'
  <2>1. ASSUME NEW p \in Operators, job'[p] # Idle
        PROVE  /\ LastCalls(job'[p].todo)
               /\ \A i \in DOMAIN job'[p].todo : job'[p].todo[i][1] = "record" => job'[p].cmd.verb = "start"
               /\ InTurn' => DownFirst(job'[p].todo, docker'["frontends"])
    <3>1. CASE p = o
      BY <1>1, <1>2, <1>3, <3>1
    <3>2. CASE p # o
      BY <1>2, <1>3, <2>1, <3>2 DEF ModeInv, ShapeInv
    <3> QED BY <3>1, <3>2
  <2> QED BY <2>1 DEF ShapeInv, LastCalls
<1>7. InTurn' => Kept(mode, record, docker, native)
  BY DEF ModeInv
<1>8. InTurn' => Kept(mode, record, docker, native)'
  BY <1>3, <1>7 DEF Kept
<1> QED BY <1>5, <1>6, <1>8 DEF ModeInv

LEMMA TypeMode ==
    ASSUME HostInv, ModeInv, NEW o \in Operators, NEW c \in menu, Type(o, c)
    PROVE  ModeInv'
<1>1. WellFormed(c) /\ job[o] = Idle /\ Admitted(c) /\ job' = [job EXCEPT ![o] = JobOf(c)] /\ UNCHANGED hostVars
  BY DEF Type, HostInv, HostType
<1>2. InTurn' => InTurn /\ Quiet
  BY DEF Type, InTurn, Quiet
<1> QED BY <1>1, <1>2, BeginMode

LEMMA RecoverMode ==
    ASSUME HostInv, ModeInv, Recover
    PROVE  ModeInv'
<1>1. PICK o \in Operators : job' = [job EXCEPT ![o] = JobOf(Remedy)]
  BY DEF Recover
<1>2. HostType /\ job[o] = Idle /\ Admitted(Remedy) /\ UNCHANGED hostVars /\ UNCHANGED ledger /\ Quiet
  BY DEF Recover, HostInv, Quiet
<1>3. WellFormed(Remedy)
  BY <1>2, RemediesAreCommands
<1>4. InTurn' => InTurn /\ Quiet
  BY <1>2 DEF ledger, InTurn
<1> HIDE DEF Remedy
<1> QED BY <1>1, <1>2, <1>3, <1>4, BeginMode

\* What leaves the commands or takes one away leaves the rest as it was.
LEMMA ModeStays ==
    ASSUME HostInv, ModeInv, UNCHANGED <<mode, record, native, raced, blind>>,
           \A stack \in Stacks : docker[stack] = "down" => docker'[stack] = "down",
           \A o \in Operators : job'[o] = job[o] \/ job'[o] = Idle
    PROVE  ModeInv'
<1>1. \A call : Fits(call) => Fits(call)'
  BY DEF Fits, DockerStartCompatible, RunningNativeServices, HostInfrastructureListens, SelectedServicesStopped
<1>2. FitsToGo'
  <2> SUFFICES ASSUME InTurn, NEW p \in Operators, job'[p] # Idle, NEW i \in DOMAIN job'[p].todo
               PROVE  \A call : call = job'[p].todo[i] => Fits(call)'
    BY DEF FitsToGo, Fits, InTurn
  <2> QED BY <1>1 DEF ModeInv, FitsToGo
<1>3. ShapeInv'
  <2>1. \A todo : DownFirst(todo, docker["frontends"]) => DownFirst(todo, docker'["frontends"])
    BY DEF DownFirst, Stacks
  <2> QED BY <2>1 DEF ModeInv, ShapeInv, InTurn, LastCalls
<1>4. InTurn' => Kept(mode, record, docker, native)'
  <2> SUFFICES ASSUME InTurn PROVE Kept(mode', record', docker', native')
    BY DEF InTurn, Kept
  <2>1. HostType /\ Kept(mode, record, docker, native)
    BY DEF HostInv, ModeInv
  <2> QED BY <2>1, KeptQuieter
<1> QED BY <1>2, <1>3, <1>4 DEF ModeInv

LEMMA KillMode ==
    ASSUME HostInv, ModeInv, NEW o \in Operators, Kill(o)
    PROVE  ModeInv'
<1>1. UNCHANGED <<mode, record, docker, native, raced, blind>>
  BY DEF Kill, hostVars
<1>2. \A p \in Operators : job'[p] = job[p] \/ job'[p] = Idle
  BY DEF Kill, End, HostInv, JobType
<1> QED BY <1>1, <1>2, ModeStays

LEMMA SurroundingsMode ==
    ASSUME HostInv, ModeInv, DaemonStops \/ DaemonReturns \/ GiveUp
    PROVE  ModeInv'
<1>1. UNCHANGED <<mode, record, native, raced, blind, job>>
  BY DEF DaemonStops, DaemonReturns, GiveUp, hostVars, ledger
<1>2. \A stack \in Stacks : docker[stack] = "down" => docker'[stack] = "down"
  BY DEF DaemonStops, DaemonReturns, GiveUp, hostVars
<1> QED BY <1>1, <1>2, ModeStays

\* A reactor that was let in by the mode brings up no other tier than it allows.
LEMMA DeployMode ==
    ASSUME HostInv, ModeInv, NEW o \in Operators, DeployFrontends(o)
    PROVE  ModeInv'
<1>1. UNCHANGED <<mode, record, docker, job>>
  BY DEF DeployFrontends
<1>2. ASSUME InTurn' PROVE InTurn /\ Quiet /\ Bootstrap("native", "restart")
  BY <1>2 DEF DeployFrontends, InTurn
<1>3. native'.infra = native.infra /\ native'.apps \subseteq native.apps \union {"frontends"}
  <2>1. PICK came \in SUBSET {"frontends"} : native' = [native EXCEPT !.apps = (@ \ {"frontends"}) \union came]
    BY DEF DeployFrontends
  <2> QED BY <2>1 DEF HostInv, HostType
<1>4. FitsToGo'
  BY <1>1, <1>2 DEF FitsToGo, Quiet
<1>5. ShapeInv'
  BY <1>1, <1>2 DEF ModeInv, ShapeInv, LastCalls, Quiet
<1>6. InTurn' => Kept(mode, record, docker, native)'
  <2> SUFFICES ASSUME InTurn' PROVE Kept(mode', record', docker', native')
    BY DEF Kept
  <2>1. mode # Missing /\ mode.name \in {"native", "hybrid"}
    BY <1>2 DEF Bootstrap, RequireSurface, Surfaces, HostInv, HostType, Modes
  <2>2. Kept(mode, record, docker, native)
    BY <1>2 DEF ModeInv
  <2> QED BY <1>1, <1>3, <2>1, <2>2 DEF Kept
<1> QED BY <1>4, <1>5, <1>6 DEF ModeInv

LEMMA SameMode ==
    ASSUME HostInv, ModeInv, UNCHANGED deploymentVars
    PROVE  ModeInv'
BY ModeStays DEF deploymentVars, hostVars, ledger

LEMMA ModeInit ==
    ASSUME Init
    PROVE  ModeInv
<1>1. PICK host \in Hosts : StartsOn(host)
  BY DEF Init
<1>2. Kept(mode, record, docker, native)
  BY <1>1, KeptAssumption DEF StartsOn
<1>3. FitsToGo /\ ShapeInv
  BY <1>1 DEF StartsOn, FitsToGo, ShapeInv
<1> QED BY <1>2, <1>3 DEF ModeInv

LEMMA ModeStep == HostInv /\ ModeInv /\ [Next]_vars => ModeInv'
<1> SUFFICES ASSUME HostInv, ModeInv, [Next]_vars PROVE ModeInv'
  OBVIOUS
<1>1. ASSUME NEW o \in Operators, HostCommand(o) PROVE ModeInv'
  BY <1>1, TypeMode, KillMode DEF HostCommand
<1>2. ASSUME NEW o \in Operators, StackStep(o) PROVE ModeInv'
  BY <1>2, StepMode DEF StackStep
<1>3. ASSUME NEW o \in Operators, Smoke(o) PROVE ModeInv'
  <2>1. CASE DeployFrontends(o)
    BY <2>1, DeployMode
  <2>2. CASE ~DeployFrontends(o)
    <3>1. UNCHANGED deploymentVars
      BY <1>3, <2>2 DEF Smoke, AskSmoke, HoldStack, JudgeStack, RecordHeads, RefuseSmoke, RunTiers,
                        RecordRun, RecordLatest, KillSmoke
    <3> QED BY <3>1, SameMode
  <2> QED BY <2>1, <2>2
<1>4. ASSUME NEW o \in Operators, Train(o) PROVE ModeInv'
  BY <1>4, SameMode DEF Train, AskTrain, LocalPhase, IdleSlot, SourceAlignment, SmokeGate, Dispatch, RefuseTrain
<1>5. CASE HostMoves
  BY <1>5, SurroundingsMode, RecoverMode DEF HostMoves
<1>6. CASE SourceMoves
  BY <1>6, SameMode DEF SourceMoves, Commit, Push, ColleaguePushes, Pull, Edit, Build, Move
<1>7. CASE Workflow
  BY <1>7, SameMode DEF Workflow, Capture, RunEnds
<1>8. CASE UNCHANGED vars
  BY <1>8, SameMode DEF vars
<1> QED BY <1>1, <1>2, <1>3, <1>4, <1>5, <1>6, <1>7, <1>8 DEF Next


----------------------------------------------------------------------------
(* The source, the smoke and the trains. *)

Heads == [Repos -> Nat]

\* What a report says is so: with nothing moved and no late jar, the services
\* that the tiers talked to ran the heads it names.
Record ==
    {report \in [heads : Heads, dirty : SUBSET Repos, verdict : Verdicts,
                 ran : [Served -> Jar \union {Missing}], late : SUBSET Served, still : BOOLEAN] :
        report.verdict = "pass" /\ report.still /\ report.late = {} =>
            \A r \in Served : report.ran[r].of = report.heads[r]}

SmokeRuns ==
    [at : {"wait"}, deploys : BOOLEAN] \union [at : {"deploy", "judge"}]
        \union [at : {"heads"}, steady : BOOLEAN, late : SUBSET Served]
        \union [at : {"run"}, heads : Heads, dirty : SUBSET Repos, steady : BOOLEAN, late : SUBSET Served]
        \union [at : {"record", "latest"}, report : Record]

Dispatches ==
    [at : {"local", "slot", "align"}, id : Names, resume : BOOLEAN]
        \union [at : {"gate"}, id : Names, resume : BOOLEAN, steady : BOOLEAN]
        \union [at : {"dispatch"}, id : Names, resume : BOOLEAN, steady : BOOLEAN, evidence : Record]

WorkflowRuns ==
    [state : {"queued"}, id : Names, resume : BOOLEAN, steady : BOOLEAN, evidence : Record]
        \union [state : {"captured"}, id : Names, evidence : Record, captured : Heads, aligned : BOOLEAN]
        \union [state : {"ended"}]

SourceType ==
    /\ clock \in Nat
    /\ develop \in [Repos -> 0 .. clock] /\ remote \in [Repos -> 0 .. clock]
    /\ sync \in [Repos -> Syncs] /\ tree \in [Repos -> Trees]
    /\ jar \in [Served -> [of : Nat, at : 0 .. clock]]
    /\ late \subseteq Served /\ moves \in 0 .. MaxMoves

\* A service runs exactly while the microservices are up.
ProcessInv ==
    /\ process \in [Served -> Jar \union {Missing}]
    /\ \A r \in Served : IF "microservices" \in native.apps THEN process[r] \in Jar ELSE process[r] = Missing

\* A jar that is not late and not older than its head was built from it.
JarInv ==
    \A r \in Served : r \in late \/ jar[r].at < develop[r] \/ jar[r].of = develop[r]

GateType ==
    /\ localStack \in Operators \union {Nobody}
    /\ smoke \in [Operators -> {Idle} \union SmokeRuns]
    /\ localStack # Nobody => smoke[localStack] # Idle
    /\ reports \subseteq Record /\ latest \in Record \union {Missing}
    /\ smokes \in 0 .. MaxSmokes

\* What a smoke saw is still so while it is steady.
SmokeInv ==
    \A o \in Operators :
        smoke[o] # Idle /\ smoke[o].at \in {"heads", "run"} /\ smoke[o].steady =>
            /\ late \subseteq smoke[o].late
            /\ \A r \in Served : /\ SourceCurrency(r) \/ r \in smoke[o].late
                                 /\ "microservices" \in native.apps => process[r] = jar[r]
            /\ smoke[o].at = "run" => smoke[o].heads = develop

LineType ==
    /\ train \in [Operators -> {Idle} \union Dispatches]
    /\ sources = [id \in Names |-> sources[id]]
    /\ \A id \in Names : sources[id] # Missing => sources[id] \in [Repos -> 0 .. clock]
    /\ runs \in Seq(WorkflowRuns)
    /\ trains \in 0 .. MaxTrains

\* What covers a train that is dispatched: a passed record of clean heads, which
\* are those of the train, or of GitHub as long as nothing moved.
Covers(evidence, item) ==
    /\ evidence.verdict = "pass" /\ evidence.dirty = {}
    /\ item.resume => evidence.heads = sources[item.id]
    /\ ~item.resume /\ item.steady => evidence.heads = remote

TrainInv ==
    \A o \in Operators : train[o] # Idle =>
        /\ train[o].resume => sources[train[o].id] # Missing
        /\ train[o].at = "gate" /\ ~train[o].resume /\ train[o].steady => develop = remote
        /\ train[o].at = "dispatch" => Covers(train[o].evidence, train[o])

RunInv ==
    \A i \in DOMAIN runs :
        /\ runs[i].state = "queued" =>
              /\ runs[i].resume => sources[runs[i].id] # Missing
              /\ Covers(runs[i].evidence, runs[i])
        /\ runs[i].state = "captured" /\ runs[i].aligned =>
              /\ runs[i].evidence.heads = runs[i].captured
              /\ runs[i].evidence.verdict = "pass" /\ runs[i].evidence.dirty = {}

GateInv == SourceType /\ ProcessInv /\ JarInv /\ GateType /\ SmokeInv /\ LineType /\ TrainInv /\ RunInv

LEMMA SmokesDisturbed ==
    ASSUME NEW s \in {Idle} \union SmokeRuns
    PROVE  /\ Disturbed(s) \in {Idle} \union SmokeRuns
           /\ s # Idle => Disturbed(s) # Idle
           /\ Disturbed(s) # Idle => ~(Disturbed(s).at \in {"heads", "run"} /\ Disturbed(s).steady)
<1>1. CASE s = Idle
  BY <1>1 DEF Disturbed
<1>2. CASE s # Idle /\ s \in [at : {"wait"}, deploys : BOOLEAN] \union [at : {"deploy", "judge"}]
                             \union [at : {"record", "latest"}, report : Record]
  <2>1. "steady" \notin DOMAIN s /\ s.at \notin {"heads", "run"}
    BY <1>2
  <2> QED BY <1>2, <2>1 DEF Disturbed
<1>3. CASE s # Idle /\ s \in [at : {"heads"}, steady : BOOLEAN, late : SUBSET Served]
  <2>1. Disturbed(s) = [s EXCEPT !.steady = FALSE] /\ "steady" \in DOMAIN s
    BY <1>3 DEF Disturbed
  <2>2. Disturbed(s) \in [at : {"heads"}, steady : BOOLEAN, late : SUBSET Served] /\ Disturbed(s).steady = FALSE
    BY <1>3, <2>1
  <2> QED BY <2>2 DEF SmokeRuns, Idle
<1>4. CASE s # Idle /\ s \in [at : {"run"}, heads : Heads, dirty : SUBSET Repos, steady : BOOLEAN, late : SUBSET Served]
  <2>1. Disturbed(s) = [s EXCEPT !.steady = FALSE] /\ "steady" \in DOMAIN s
    BY <1>4 DEF Disturbed
  <2>2. Disturbed(s) \in [at : {"run"}, heads : Heads, dirty : SUBSET Repos, steady : BOOLEAN, late : SUBSET Served]
        /\ Disturbed(s).steady = FALSE
    BY <1>4, <2>1
  <2> QED BY <2>2 DEF SmokeRuns, Idle
<1> QED BY <1>1, <1>2, <1>3, <1>4 DEF SmokeRuns

LEMMA TrainsDisturbed ==
    ASSUME NEW t \in {Idle} \union Dispatches
    PROVE  /\ Disturbed(t) \in {Idle} \union Dispatches
           /\ Disturbed(t) # Idle => /\ t # Idle
                                     /\ Disturbed(t).at = t.at /\ Disturbed(t).resume = t.resume /\ Disturbed(t).id = t.id
                                     /\ t.at \in {"gate", "dispatch"} => Disturbed(t).steady = FALSE
                                     /\ t.at = "dispatch" => Disturbed(t).evidence = t.evidence
<1>1. CASE t = Idle
  BY <1>1 DEF Disturbed
<1>2. CASE t # Idle /\ t \in [at : {"local", "slot", "align"}, id : Names, resume : BOOLEAN]
  <2>1. "steady" \notin DOMAIN t /\ t.at \notin {"gate", "dispatch"}
    BY <1>2
  <2> QED BY <1>2, <2>1 DEF Disturbed
<1>3. CASE t # Idle /\ t \in [at : {"gate"}, id : Names, resume : BOOLEAN, steady : BOOLEAN]
  <2>1. Disturbed(t) = [t EXCEPT !.steady = FALSE] /\ "steady" \in DOMAIN t
    BY <1>3 DEF Disturbed
  <2>2. /\ Disturbed(t) \in [at : {"gate"}, id : Names, resume : BOOLEAN, steady : BOOLEAN] /\ Disturbed(t).steady = FALSE
        /\ Disturbed(t).resume = t.resume /\ Disturbed(t).id = t.id
    BY <1>3, <2>1
  <2> QED BY <1>3, <2>2 DEF Dispatches
<1>4. CASE t # Idle /\ t \in [at : {"dispatch"}, id : Names, resume : BOOLEAN, steady : BOOLEAN, evidence : Record]
  <2>1. Disturbed(t) = [t EXCEPT !.steady = FALSE] /\ "steady" \in DOMAIN t
    BY <1>4 DEF Disturbed
  <2>2. /\ Disturbed(t) \in [at : {"dispatch"}, id : Names, resume : BOOLEAN, steady : BOOLEAN, evidence : Record]
        /\ Disturbed(t).steady = FALSE /\ Disturbed(t).resume = t.resume /\ Disturbed(t).id = t.id
        /\ Disturbed(t).evidence = t.evidence
    BY <1>4, <2>1
  <2> QED BY <1>4, <2>2 DEF Dispatches
<1> QED BY <1>1, <1>2, <1>3, <1>4 DEF Dispatches

LEMMA RunsDisturbed ==
    ASSUME NEW run \in WorkflowRuns
    PROVE  /\ Disturbed(run) \in WorkflowRuns /\ Disturbed(run).state = run.state
           /\ run.state = "queued" => /\ Disturbed(run).resume = run.resume /\ Disturbed(run).id = run.id
                                      /\ Disturbed(run).steady = FALSE /\ Disturbed(run).evidence = run.evidence
           /\ run.state # "queued" => Disturbed(run) = run
<1>1. CASE run \in [state : {"queued"}, id : Names, resume : BOOLEAN, steady : BOOLEAN, evidence : Record]
  <2>1. Disturbed(run) = [run EXCEPT !.steady = FALSE] /\ "steady" \in DOMAIN run
    BY <1>1 DEF Disturbed, Idle
  <2>2. /\ Disturbed(run) \in [state : {"queued"}, id : Names, resume : BOOLEAN, steady : BOOLEAN, evidence : Record]
        /\ Disturbed(run).steady = FALSE /\ Disturbed(run).resume = run.resume /\ Disturbed(run).id = run.id
        /\ Disturbed(run).evidence = run.evidence
    BY <1>1, <2>1
  <2> QED BY <1>1, <2>2 DEF WorkflowRuns
<1>2. CASE run \in [state : {"captured"}, id : Names, evidence : Record, captured : Heads, aligned : BOOLEAN]
                   \union [state : {"ended"}]
  <2>1. "steady" \notin DOMAIN run /\ run.state # "queued"
    BY <1>2
  <2> QED BY <2>1 DEF Disturbed
<1> QED BY <1>1, <1>2 DEF WorkflowRuns


----------------------------------------------------------------------------
(* The host and the source move. *)

LEMMA GateStays ==
    ASSUME GateInv, UNCHANGED <<source, gate, line, moves, process, native>>
    PROVE  GateInv'
<1>1. SourceType' /\ ProcessInv' /\ JarInv' /\ GateType'
  BY DEF GateInv, SourceType, ProcessInv, JarInv, GateType, source, gate, line
<1>2. SmokeInv'
  BY DEF GateInv, SmokeInv, SourceCurrency, source, gate, line
<1>3. LineType' /\ TrainInv' /\ RunInv'
  BY DEF GateInv, LineType, TrainInv, RunInv, Covers, source, gate, line
<1> QED BY <1>1, <1>2, <1>3 DEF GateInv

LEMMA StackGate ==
    ASSUME GateInv, NEW o \in Operators, StackStep(o)
    PROVE  GateInv'
<1>1. PICK restarted : Serve(restarted)
  BY DEF StackStep
<1>2. UNCHANGED <<source, gate, line, moves>>
  BY DEF StackStep
<1>3. ASSUME NEW r \in Served
      PROVE  /\ "microservices" \notin native'.apps => process'[r] = Missing
             /\ "microservices" \in native'.apps => process'[r] = jar[r] \/ ("microservices" \in native.apps /\ process'[r] = process[r])
  BY <1>1 DEF Serve, GateInv, ProcessInv
<1>4. process' = [r \in Served |-> process'[r]]
  BY <1>1 DEF Serve
<1>5. \A r \in Served : jar[r] \in Jar
  BY DEF GateInv, SourceType, Jar
<1>6. ProcessInv'
  BY <1>3, <1>4, <1>5 DEF GateInv, ProcessInv
<1>7. SmokeInv'
  BY <1>2, <1>3 DEF GateInv, SmokeInv, SourceCurrency, source, gate
<1>8. SourceType' /\ JarInv' /\ GateType'
  BY <1>2 DEF GateInv, SourceType, JarInv, GateType, source, gate, line
<1>9. LineType' /\ TrainInv' /\ RunInv'
  BY <1>2 DEF GateInv, LineType, TrainInv, RunInv, Covers, source, gate, line
<1> QED BY <1>6, <1>7, <1>8, <1>9 DEF GateInv

LEMMA Sequences ==
    ASSUME NEW S, NEW n \in Nat, NEW f, f = [i \in 1 .. n |-> f[i]], \A i \in 1 .. n : f[i] \in S
    PROVE  f \in Seq(S) /\ DOMAIN f = 1 .. n
OBVIOUS

\* Whatever moves, nothing that was compared before is steady any longer.
LEMMA MoveGate ==
    ASSUME GateInv, Move, clock' \in Nat, clock <= clock'
    PROVE  ProcessInv' /\ GateType' /\ SmokeInv' /\ LineType' /\ TrainInv' /\ RunInv' /\ moves' \in 0 .. MaxMoves
<1>1. /\ smoke' = [o \in Operators |-> Disturbed(smoke[o])]
      /\ train' = [o \in Operators |-> Disturbed(train[o])]
      /\ runs' = [i \in DOMAIN runs |-> Disturbed(runs[i])]
      /\ moves' = moves + 1 /\ moves < MaxMoves
      /\ UNCHANGED <<native, process, localStack, reports, latest, smokes, sources, trains>>
  BY DEF Move, deploymentVars, hostVars
<1>2. moves' \in 0 .. MaxMoves
  BY <1>1, TrainGateAssumption DEF GateInv, SourceType
<1>3. ProcessInv'
  BY <1>1 DEF GateInv, ProcessInv
<1>4. ASSUME NEW o \in Operators
      PROVE  /\ smoke'[o] \in {Idle} \union SmokeRuns
             /\ smoke[o] # Idle => smoke'[o] # Idle
             /\ smoke'[o] # Idle => ~(smoke'[o].at \in {"heads", "run"} /\ smoke'[o].steady)
  <2>1. smoke[o] \in {Idle} \union SmokeRuns /\ smoke'[o] = Disturbed(smoke[o])
    BY <1>1 DEF GateInv, GateType
  <2> QED BY <2>1, SmokesDisturbed
<1>5. GateType' /\ SmokeInv'
  BY <1>1, <1>4 DEF GateInv, GateType, SmokeInv
<1>6. ASSUME NEW o \in Operators
      PROVE  /\ train'[o] \in {Idle} \union Dispatches
             /\ train'[o] # Idle => /\ train[o] # Idle
                                    /\ train'[o].at = train[o].at /\ train'[o].resume = train[o].resume
                                    /\ train'[o].id = train[o].id
                                    /\ train[o].at \in {"gate", "dispatch"} => train'[o].steady = FALSE
                                    /\ train[o].at = "dispatch" => train'[o].evidence = train[o].evidence
  <2>1. train[o] \in {Idle} \union Dispatches /\ train'[o] = Disturbed(train[o])
    BY <1>1 DEF GateInv, LineType
  <2> QED BY <2>1, TrainsDisturbed
<1>7. TrainInv'
  <2>1. ASSUME NEW o \in Operators, train'[o] # Idle
        PROVE  /\ train'[o].resume => sources'[train'[o].id] # Missing
               /\ train'[o].at \in {"gate", "dispatch"} => ~train'[o].steady
               /\ train'[o].at = "dispatch" =>
                     /\ train'[o].evidence.verdict = "pass" /\ train'[o].evidence.dirty = {}
                     /\ train'[o].resume => train'[o].evidence.heads = sources'[train'[o].id]
    <3>1. /\ train[o].resume => sources[train[o].id] # Missing
          /\ train[o].at = "dispatch" => Covers(train[o].evidence, train[o])
      BY <1>6, <2>1 DEF GateInv, TrainInv
    <3> QED BY <1>1, <1>6, <2>1, <3>1 DEF Covers
  <2> QED BY <2>1 DEF TrainInv, Covers
<1>8. runs \in Seq(WorkflowRuns) /\ DOMAIN runs = 1 .. Len(runs) /\ Len(runs) \in Nat
  BY DEF GateInv, LineType
<1>9. ASSUME NEW i \in DOMAIN runs
      PROVE  /\ runs'[i] \in WorkflowRuns /\ runs'[i].state = runs[i].state
             /\ runs[i].state = "queued" => /\ runs'[i].resume = runs[i].resume /\ runs'[i].id = runs[i].id
                                            /\ runs'[i].steady = FALSE /\ runs'[i].evidence = runs[i].evidence
             /\ runs[i].state # "queued" => runs'[i] = runs[i]
  <2>1. runs[i] \in WorkflowRuns /\ runs'[i] = Disturbed(runs[i])
    BY <1>1, <1>8
  <2> QED BY <2>1, RunsDisturbed
<1>10. runs' \in Seq(WorkflowRuns) /\ DOMAIN runs' = DOMAIN runs
  <2>1. runs' = [i \in 1 .. Len(runs) |-> runs'[i]]
    BY <1>1, <1>8
  <2>2. \A i \in 1 .. Len(runs) : runs'[i] \in WorkflowRuns
    BY <1>8, <1>9
  <2> QED BY <1>8, <2>1, <2>2, Sequences
<1>11. RunInv'
  <2>1. ASSUME NEW i \in DOMAIN runs
        PROVE  /\ runs'[i].state = "queued" =>
                     /\ runs'[i].resume => sources'[runs'[i].id] # Missing
                     /\ ~runs'[i].steady
                     /\ runs'[i].evidence.verdict = "pass" /\ runs'[i].evidence.dirty = {}
                     /\ runs'[i].resume => runs'[i].evidence.heads = sources'[runs'[i].id]
               /\ runs'[i].state = "captured" /\ runs'[i].aligned =>
                     /\ runs'[i].evidence.heads = runs'[i].captured
                     /\ runs'[i].evidence.verdict = "pass" /\ runs'[i].evidence.dirty = {}
    <3>1. /\ runs[i].state = "queued" =>
              /\ runs[i].resume => sources[runs[i].id] # Missing
              /\ Covers(runs[i].evidence, runs[i])
          /\ runs[i].state = "captured" /\ runs[i].aligned =>
              /\ runs[i].evidence.heads = runs[i].captured
              /\ runs[i].evidence.verdict = "pass" /\ runs[i].evidence.dirty = {}
      BY DEF GateInv, RunInv
    <3> QED BY <1>1, <1>9, <3>1 DEF Covers
  <2> QED BY <1>10, <2>1 DEF RunInv, Covers
<1>12. LineType'
  <2>1. train' = [o \in Operators |-> train'[o]]
    BY <1>1
  <2>2. 0 .. clock \subseteq 0 .. clock'
    BY DEF GateInv, SourceType
  <2>3. ASSUME NEW id \in Names, sources[id] # Missing PROVE sources[id] \in [Repos -> 0 .. clock']
    BY <2>2, <2>3 DEF GateInv, LineType
  <2> QED BY <1>1, <1>6, <1>10, <2>1, <2>3 DEF GateInv, LineType
<1> QED BY <1>2, <1>3, <1>5, <1>7, <1>11, <1>12

LEMMA SourceGate ==
    ASSUME GateInv, NEW r \in Repos,
           Commit(r) \/ Push(r) \/ ColleaguePushes(r) \/ Pull(r) \/ Edit(r) \/ Build(r)
    PROVE  GateInv'
<1>1. Move
  BY DEF Commit, Push, ColleaguePushes, Pull, Edit, Build
<1>2. clock' \in Nat /\ clock <= clock'
  BY DEF Commit, Push, ColleaguePushes, Pull, Edit, Build, GateInv, SourceType
<1>3. /\ ProcessInv' /\ GateType' /\ SmokeInv' /\ LineType' /\ TrainInv' /\ RunInv' /\ moves' \in 0 .. MaxMoves
  BY <1>1, <1>2, MoveGate
<1>4. SourceType' /\ JarInv'
  <2>1. SourceType /\ JarInv /\ Served \subseteq Repos
    BY TrainGateAssumption DEF GateInv
  <2>2. CASE Commit(r)
    BY <1>3, <2>1, <2>2 DEF Commit, SourceType, JarInv, Syncs, Trees
  <2>3. CASE Push(r)
    BY <1>3, <2>1, <2>3 DEF Push, SourceType, JarInv, Syncs
  <2>4. CASE ColleaguePushes(r)
    BY <1>3, <2>1, <2>4 DEF ColleaguePushes, SourceType, JarInv, Syncs
  <2>5. CASE Pull(r)
    BY <1>3, <2>1, <2>5 DEF Pull, SourceType, JarInv, Syncs
  <2>6. CASE Edit(r)
    BY <1>3, <2>1, <2>6 DEF Edit, SourceType, JarInv, Trees
  <2>7. CASE Build(r)
    BY <1>3, <2>1, <2>7 DEF Build, SourceType, JarInv
  <2> QED BY <2>2, <2>3, <2>4, <2>5, <2>6, <2>7
<1> QED BY <1>3, <1>4 DEF GateInv


----------------------------------------------------------------------------
(* The smoke. *)

\* What a smoke does leaves the source and the trains alone.
LEMMA SmokeLeaves ==
    ASSUME GateInv, UNCHANGED <<source, line, moves, process>>,
           "microservices" \in native'.apps <=> "microservices" \in native.apps
    PROVE  SourceType' /\ ProcessInv' /\ JarInv' /\ LineType' /\ TrainInv' /\ RunInv'
<1>1. SourceType' /\ ProcessInv' /\ JarInv'
  BY DEF GateInv, SourceType, ProcessInv, JarInv, source
<1>2. LineType' /\ TrainInv' /\ RunInv'
  BY DEF GateInv, LineType, TrainInv, RunInv, Covers, source, line
<1> QED BY <1>1, <1>2

\* One smoke goes on, steady in what it has seen; the others stand as they were.
LEMMA SmokeGoesGate ==
    ASSUME GateInv, UNCHANGED <<source, line, moves, process>>,
           "microservices" \in native'.apps <=> "microservices" \in native.apps,
           NEW o \in Operators, NEW run \in SmokeRuns, run # Idle, SmokeGoes(o, run),
           run.at \in {"heads", "run"} /\ run.steady =>
               /\ late \subseteq run.late
               /\ \A r \in Served : /\ SourceCurrency(r) \/ r \in run.late
                                    /\ "microservices" \in native.apps => process[r] = jar[r]
               /\ run.at = "run" => run.heads = develop,
           localStack' \in {localStack, o}, reports' \subseteq Record, latest' \in Record \union {Missing},
           smokes' \in 0 .. MaxSmokes
    PROVE  GateInv'
<1>1. smoke' = [smoke EXCEPT ![o] = run] /\ smoke \in [Operators -> {Idle} \union SmokeRuns]
  BY DEF SmokeGoes, GateInv, GateType
<1>2. smoke' \in [Operators -> {Idle} \union SmokeRuns] /\ smoke'[o] = run
      /\ \A p \in Operators : p # o => smoke'[p] = smoke[p]
  BY <1>1
<1>3. GateType'
  BY <1>2 DEF GateInv, GateType
<1>4. SmokeInv'
  <2> SUFFICES ASSUME NEW p \in Operators, smoke'[p] # Idle, smoke'[p].at \in {"heads", "run"}, smoke'[p].steady
               PROVE  /\ late \subseteq smoke'[p].late
                      /\ \A r \in Served : /\ SourceCurrency(r) \/ r \in smoke'[p].late
                                           /\ "microservices" \in native.apps => process[r] = jar[r]
                      /\ smoke'[p].at = "run" => smoke'[p].heads = develop
    BY DEF SmokeInv, SourceCurrency, source
  <2>1. CASE p = o
    BY <1>2, <2>1
  <2>2. CASE p # o
    BY <1>2, <2>2 DEF GateInv, SmokeInv
  <2> QED BY <2>1, <2>2
<1> QED BY <1>3, <1>4, SmokeLeaves DEF GateInv

LEMMA SmokeEndsGate ==
    ASSUME GateInv, UNCHANGED <<source, line, moves, process, smokes>>,
           "microservices" \in native'.apps <=> "microservices" \in native.apps,
           NEW o \in Operators, SmokeEnds(o), reports' \subseteq Record, latest' \in Record \union {Missing}
    PROVE  GateInv'
<1>1. smoke' = [smoke EXCEPT ![o] = Idle] /\ smoke \in [Operators -> {Idle} \union SmokeRuns]
      /\ localStack' = IF localStack = o THEN Nobody ELSE localStack
  BY DEF SmokeEnds, SmokeGoes, GateInv, GateType
<1>2. smoke' \in [Operators -> {Idle} \union SmokeRuns] /\ smoke'[o] = Idle
      /\ \A p \in Operators : p # o => smoke'[p] = smoke[p]
  BY <1>1
<1>3. GateType'
  BY <1>1, <1>2 DEF GateInv, GateType
<1>4. SmokeInv'
  <2> SUFFICES ASSUME NEW p \in Operators, smoke'[p] # Idle, smoke'[p].at \in {"heads", "run"}, smoke'[p].steady
               PROVE  /\ late \subseteq smoke'[p].late
                      /\ \A r \in Served : /\ SourceCurrency(r) \/ r \in smoke'[p].late
                                           /\ "microservices" \in native.apps => process[r] = jar[r]
                      /\ smoke'[p].at = "run" => smoke'[p].heads = develop
    BY DEF SmokeInv, SourceCurrency, source
  <2> QED BY <1>2 DEF GateInv, SmokeInv
<1> QED BY <1>3, <1>4, SmokeLeaves DEF GateInv

\* What a smoke that is somewhere holds.
LEMMA SmokeAt ==
    ASSUME GateInv, NEW o \in Operators, smoke[o] # Idle
    PROVE  /\ smoke[o].at = "heads" => smoke[o] \in [at : {"heads"}, steady : BOOLEAN, late : SUBSET Served]
           /\ smoke[o].at = "run" =>
                 smoke[o] \in [at : {"run"}, heads : Heads, dirty : SUBSET Repos, steady : BOOLEAN, late : SUBSET Served]
           /\ smoke[o].at \in {"record", "latest"} => smoke[o].report \in Record
BY DEF GateInv, GateType, SmokeRuns

LEMMA Pauses ==
    /\ \A b \in BOOLEAN : LET s == [at |-> "wait", deploys |-> b] IN s \in SmokeRuns /\ s # Idle
    /\ \A at \in {"deploy", "judge"} : LET s == [at |-> at] IN s \in SmokeRuns /\ s # Idle
    /\ \A b \in BOOLEAN, l \in SUBSET Served :
          LET s == [at |-> "heads", steady |-> b, late |-> l] IN s \in SmokeRuns /\ s # Idle
    /\ \A h \in Heads, d \in SUBSET Repos, b \in BOOLEAN, l \in SUBSET Served :
          LET s == [at |-> "run", heads |-> h, dirty |-> d, steady |-> b, late |-> l] IN s \in SmokeRuns /\ s # Idle
    /\ \A at \in {"record", "latest"}, report \in Record :
          LET s == [at |-> at, report |-> report] IN s \in SmokeRuns /\ s # Idle
BY DEF SmokeRuns, Idle

\* The record of a smoke is a true one.
LEMMA RunTiersGate ==
    ASSUME GateInv, NEW o \in Operators, RunTiers(o)
    PROVE  GateInv'
<1>1. smoke[o] # Idle /\ smoke[o].at = "run"
  BY DEF RunTiers, InSmoke
<1>2. PICK failed \in SUBSET Tiers, unproven \in SUBSET {"rest", "search"} :
        /\ native.apps = Groups \/ failed # {}
        /\ SmokeGoes(o, [at |-> "record",
                report |-> [heads |-> smoke[o].heads, dirty |-> smoke[o].dirty,
                            verdict |-> Verdict(failed, unproven),
                            ran |-> process, late |-> smoke[o].late,
                            still |-> smoke[o].steady]])
  BY DEF RunTiers
<1> DEFINE report == [heads |-> smoke[o].heads, dirty |-> smoke[o].dirty,
                      verdict |-> Verdict(failed, unproven), ran |-> process, late |-> smoke[o].late,
                      still |-> smoke[o].steady]
<1>3. smoke[o] \in [at : {"run"}, heads : Heads, dirty : SUBSET Repos, steady : BOOLEAN, late : SUBSET Served]
  BY <1>1, SmokeAt
<1>4. Verdict(failed, unproven) \in Verdicts /\ process \in [Served -> Jar \union {Missing}]
  BY DEF Verdict, Verdicts, GateInv, ProcessInv
<1>5. report \in [heads : Heads, dirty : SUBSET Repos, verdict : Verdicts,
                  ran : [Served -> Jar \union {Missing}], late : SUBSET Served, still : BOOLEAN]
  BY <1>3, <1>4
<1>6. ASSUME Verdict(failed, unproven) = "pass", smoke[o].steady, smoke[o].late = {}, NEW r \in Served
      PROVE  process[r].of = smoke[o].heads[r]
  <2>1. "microservices" \in native.apps
    BY <1>2, <1>6 DEF Verdict, Groups
  <2>2. process[r] = jar[r] /\ SourceCurrency(r) /\ r \notin late /\ smoke[o].heads = develop
    BY <1>1, <1>6, <2>1 DEF GateInv, SmokeInv
  <2>3. jar[r].at \in Nat /\ develop[r] \in Nat
    BY TrainGateAssumption DEF GateInv, SourceType
  <2> QED BY <2>2, <2>3 DEF GateInv, JarInv, SourceCurrency
<1>7. report \in Record
  BY <1>5, <1>6 DEF Record
<1> HIDE DEF report
<1>8. [at |-> "record", report |-> report] \in SmokeRuns /\ [at |-> "record", report |-> report] # Idle
  BY <1>7, Pauses
<1>9. SmokeGoes(o, [at |-> "record", report |-> report])
  BY <1>2 DEF report
<1>10. UNCHANGED <<source, line, moves, process, native, localStack, reports, latest, smokes>>
  BY DEF RunTiers, deploymentVars, hostVars
<1> QED BY <1>8, <1>9, <1>10, SmokeGoesGate DEF GateInv, GateType

LEMMA JudgeGate ==
    ASSUME GateInv, NEW o \in Operators, JudgeStack(o) \/ RecordHeads(o)
    PROVE  GateInv'
<1>1. UNCHANGED <<source, line, moves, process, native, localStack, reports, latest, smokes>>
  BY DEF JudgeStack, RecordHeads, deploymentVars, hostVars
<1>2. CASE JudgeStack(o)
  <2>0. PICK unread \in SUBSET Served :
           /\ StackCanStand(Repos \ unread)
           /\ SmokeGoes(o, [at |-> "heads", steady |-> TRUE, late |-> late \union {r \in unread : ~SourceCurrency(r)}])
    BY <1>2 DEF JudgeStack
  <2> DEFINE run == [at |-> "heads", steady |-> TRUE, late |-> late \union {r \in unread : ~SourceCurrency(r)}]
  <2>1. run \in SmokeRuns /\ run # Idle
    <3>1. late \union {r \in unread : ~SourceCurrency(r)} \in SUBSET Served
      BY DEF GateInv, SourceType
    <3> QED BY <3>1, Pauses
  <2>2. SmokeGoes(o, run) /\ \A r \in Served : process[r] = jar[r]
    BY <2>0 DEF StackCanStand
  <2>3. run.at = "heads" /\ late \subseteq run.late /\ \A r \in Served : SourceCurrency(r) \/ r \in run.late
    BY <2>0, TrainGateAssumption DEF StackCanStand
  <2> HIDE DEF run
  <2> QED BY <1>1, <2>1, <2>2, <2>3, SmokeGoesGate DEF GateInv, GateType
<1>3. CASE RecordHeads(o)
  <2>0. PICK unread \in SUBSET Repos :
           SmokeGoes(o, [at |-> "run", heads |-> develop, dirty |-> {r \in Repos \ unread : tree[r] # "develop"},
                         steady |-> smoke[o].steady, late |-> smoke[o].late])
    BY <1>3 DEF RecordHeads
  <2> DEFINE run == [at |-> "run", heads |-> develop, dirty |-> {r \in Repos \ unread : tree[r] # "develop"},
                     steady |-> smoke[o].steady, late |-> smoke[o].late]
  <2>1. smoke[o] # Idle /\ smoke[o].at = "heads"
    BY <1>3 DEF RecordHeads, InSmoke
  <2>2. smoke[o] \in [at : {"heads"}, steady : BOOLEAN, late : SUBSET Served]
    BY <2>1, SmokeAt
  <2>3. develop \in Heads
    BY DEF GateInv, SourceType, Heads
  <2>4. run \in SmokeRuns /\ run # Idle
    <3>1. {r \in Repos \ unread : tree[r] # "develop"} \in SUBSET Repos
      OBVIOUS
    <3> QED BY <2>2, <2>3, <3>1, Pauses
  <2>5. run.steady = smoke[o].steady /\ run.late = smoke[o].late /\ run.heads = develop
    OBVIOUS
  <2>6. SmokeGoes(o, run)
    BY <2>0
  <2> HIDE DEF run
  <2> QED BY <1>1, <2>1, <2>4, <2>5, <2>6, SmokeGoesGate DEF GateInv, GateType, SmokeInv
<1> QED BY <1>2, <1>3

LEMMA AskSmokeGate ==
    ASSUME GateInv, NEW o \in Operators, AskSmoke(o) \/ HoldStack(o)
    PROVE  GateInv'
<1>1. CASE AskSmoke(o)
  <2>1. PICK kind \in {"test", "build"} : SmokeGoes(o, [at |-> "wait", deploys |-> kind = "build"])
    BY <1>1 DEF AskSmoke
  <2> DEFINE run == [at |-> "wait", deploys |-> kind = "build"]
  <2>2. run \in SmokeRuns /\ run # Idle /\ run.at = "wait"
    BY Pauses
  <2>3. UNCHANGED <<source, line, moves, process, native, localStack, reports, latest>> /\ smokes' \in 0 .. MaxSmokes
    BY <1>1, TrainGateAssumption DEF AskSmoke, deploymentVars, hostVars, GateInv, GateType
  <2>4. SmokeGoes(o, run)
    BY <2>1
  <2> HIDE DEF run
  <2> QED BY <2>2, <2>3, <2>4, SmokeGoesGate DEF GateInv, GateType
<1>2. CASE HoldStack(o)
  <2> DEFINE run == [at |-> IF smoke[o].deploys THEN "deploy" ELSE "judge"]
  <2>1. run \in SmokeRuns /\ run # Idle /\ run.at \in {"deploy", "judge"}
    BY Pauses
  <2>2. SmokeGoes(o, run) /\ UNCHANGED <<source, line, moves, process, native, reports, latest, smokes>> /\ localStack' = o
    BY <1>2 DEF HoldStack, deploymentVars, hostVars
  <2> HIDE DEF run
  <2> QED BY <2>1, <2>2, SmokeGoesGate DEF GateInv, GateType
<1> QED BY <1>1, <1>2

LEMMA DeployGate ==
    ASSUME GateInv, HostType, NEW o \in Operators, DeployFrontends(o)
    PROVE  GateInv'
<1>1. PICK came \in SUBSET {"frontends"} :
          /\ native' = [native EXCEPT !.apps = (@ \ {"frontends"}) \union came]
          /\ IF came = {} THEN SmokeEnds(o) ELSE SmokeGoes(o, [at |-> "judge"]) /\ UNCHANGED localStack
  BY DEF DeployFrontends
<1>2. "microservices" \in native'.apps <=> "microservices" \in native.apps
  BY <1>1 DEF HostType
<1>3. UNCHANGED <<source, line, moves, process, reports, latest, smokes>>
  BY DEF DeployFrontends
<1>4. reports' \subseteq Record /\ latest' \in Record \union {Missing} /\ smokes' \in 0 .. MaxSmokes
  BY <1>3 DEF GateInv, GateType
<1>5. CASE came = {}
  BY <1>1, <1>2, <1>3, <1>4, <1>5, SmokeEndsGate
<1>6. CASE came # {}
  <2> DEFINE run == [at |-> "judge"]
  <2>1. run \in SmokeRuns /\ run # Idle /\ run.at = "judge"
    BY Pauses
  <2>2. SmokeGoes(o, run) /\ localStack' = localStack
    BY <1>1, <1>6
  <2> HIDE DEF run
  <2> QED BY <1>2, <1>3, <1>4, <2>1, <2>2, SmokeGoesGate
<1> QED BY <1>5, <1>6

\* A torn file says nothing.
LEMMA Filing ==
    ASSUME GateInv, NEW report \in Record
    PROVE  Filed(report) \subseteq Record /\ Torn(report) \in Record
<1>1. Filed(report) \subseteq Record
  BY DEF Filed, GateInv, GateType
<1>2. Torn(report) \in Record
  <2>1. Torn(report) \in [heads : Heads, dirty : SUBSET Repos, verdict : Verdicts,
                 ran : [Served -> Jar \union {Missing}], late : SUBSET Served, still : BOOLEAN]
    BY DEF Torn, Record, Verdicts
  <2>2. Torn(report).verdict = "unreadable"
    BY DEF Torn, Record
  <2> QED BY <2>1, <2>2 DEF Record
<1> QED BY <1>1, <1>2

LEMMA RecordingGate ==
    ASSUME GateInv, NEW o \in Operators, RecordRun(o) \/ RecordLatest(o) \/ KillSmoke(o) \/ RefuseSmoke(o)
    PROVE  GateInv'
<1>1. UNCHANGED <<source, line, moves, process, native, smokes>>
  BY DEF RecordRun, RecordLatest, KillSmoke, RefuseSmoke, deploymentVars, hostVars
<1>2. smoke[o] # Idle /\ (smoke[o].at \in {"record", "latest"} => smoke[o].report \in Record)
  BY SmokeAt DEF RecordRun, RecordLatest, KillSmoke, RefuseSmoke, InSmoke
<1>3. reports \subseteq Record /\ latest \in Record \union {Missing} /\ smokes \in 0 .. MaxSmokes
  BY DEF GateInv, GateType
<1>4. CASE RecordRun(o)
  <2> DEFINE run == [at |-> "latest", report |-> smoke[o].report]
  <2>1. smoke[o].report \in Record
    BY <1>2, <1>4 DEF RecordRun, InSmoke
  <2>2. reports' \subseteq Record /\ UNCHANGED <<latest, localStack>> /\ SmokeGoes(o, run)
    BY <1>4, <2>1, Filing DEF RecordRun
  <2>3. run \in SmokeRuns /\ run # Idle /\ run.at = "latest"
    BY <2>1, Pauses
  <2> HIDE DEF run
  <2> QED BY <1>1, <1>3, <2>2, <2>3, SmokeGoesGate
<1>5. CASE RecordLatest(o)
  BY <1>1, <1>2, <1>3, <1>5, SmokeEndsGate DEF RecordLatest, InSmoke
<1>6. CASE KillSmoke(o)
  <2>1. reports' \subseteq Record
    BY <1>2, <1>3, <1>6, Filing DEF KillSmoke, InSmoke
  <2>2. latest' \in Record \union {Missing}
    BY <1>2, <1>3, <1>6, Filing DEF KillSmoke, InSmoke
  <2> QED BY <1>1, <1>6, <2>1, <2>2, SmokeEndsGate DEF KillSmoke
<1>7. CASE RefuseSmoke(o)
  BY <1>1, <1>3, <1>7, SmokeEndsGate DEF RefuseSmoke
<1> QED BY <1>4, <1>5, <1>6, <1>7

LEMMA SmokesGate ==
    ASSUME GateInv, HostType, NEW o \in Operators, Smoke(o)
    PROVE  GateInv'
BY AskSmokeGate, DeployGate, JudgeGate, RunTiersGate, RecordingGate DEF Smoke


----------------------------------------------------------------------------
(* The dispatch and the workflow. *)

LEMMA LineLeaves ==
    ASSUME GateInv, UNCHANGED <<source, process, gate, moves, native>>
    PROVE  SourceType' /\ ProcessInv' /\ JarInv' /\ GateType' /\ SmokeInv'
BY DEF GateInv, SourceType, ProcessInv, JarInv, GateType, SmokeInv, SourceCurrency, source, gate

\* One dispatch goes on with what it knows; the others stand as they were.
LEMMA TrainGoesGate ==
    ASSUME GateInv, UNCHANGED <<source, process, gate, sources, runs, moves, native>>, trains' \in 0 .. MaxTrains,
           NEW o \in Operators, NEW t \in {Idle} \union Dispatches, TrainGoes(o, t),
           t # Idle => /\ t.resume => sources[t.id] # Missing
                       /\ t.at = "gate" /\ ~t.resume /\ t.steady => develop = remote
                       /\ t.at = "dispatch" => Covers(t.evidence, t)
    PROVE  GateInv'
<1>1. train' = [train EXCEPT ![o] = t] /\ train \in [Operators -> {Idle} \union Dispatches]
  BY DEF TrainGoes, GateInv, LineType
<1>2. train' \in [Operators -> {Idle} \union Dispatches] /\ train'[o] = t
      /\ \A p \in Operators : p # o => train'[p] = train[p]
  BY <1>1
<1>3. LineType' /\ RunInv'
  BY <1>2 DEF GateInv, LineType, RunInv, Covers, source
<1>4. TrainInv'
  <2>1. ASSUME NEW p \in Operators, train'[p] # Idle
        PROVE  /\ train'[p].resume => sources[train'[p].id] # Missing
               /\ train'[p].at = "gate" /\ ~train'[p].resume /\ train'[p].steady => develop = remote
               /\ train'[p].at = "dispatch" => Covers(train'[p].evidence, train'[p])
    <3>1. CASE p = o
      BY <1>2, <2>1, <3>1
    <3>2. CASE p # o
      BY <1>2, <2>1, <3>2 DEF GateInv, TrainInv
    <3> QED BY <3>1, <3>2
  <2> QED BY <2>1 DEF TrainInv, Covers, source
<1> QED BY <1>3, <1>4, LineLeaves DEF GateInv

\* What a dispatch that is somewhere holds.
LEMMA TrainAt ==
    ASSUME GateInv, NEW o \in Operators, train[o] # Idle
    PROVE  /\ train[o].id \in Names /\ train[o].resume \in BOOLEAN
           /\ train[o].resume => sources[train[o].id] # Missing
           /\ train[o].at \in {"local", "slot", "align"} =>
                 train[o] \in [at : {"local", "slot", "align"}, id : Names, resume : BOOLEAN]
           /\ train[o].at \in {"gate", "dispatch"} => train[o].steady \in BOOLEAN
           /\ train[o].at = "gate" /\ ~train[o].resume /\ train[o].steady => develop = remote
           /\ train[o].at = "dispatch" => train[o].evidence \in Record /\ Covers(train[o].evidence, train[o])
<1>1. train[o] \in Dispatches
  BY DEF GateInv, LineType
<1>2. /\ train[o].id \in Names /\ train[o].resume \in BOOLEAN
      /\ train[o].at \in {"local", "slot", "align"} =>
            train[o] \in [at : {"local", "slot", "align"}, id : Names, resume : BOOLEAN]
      /\ train[o].at \in {"gate", "dispatch"} => train[o].steady \in BOOLEAN
      /\ train[o].at = "dispatch" => train[o].evidence \in Record
  BY <1>1 DEF Dispatches
<1> QED BY <1>2 DEF GateInv, TrainInv

LEMMA AskTrainGate ==
    ASSUME GateInv, NEW o \in Operators, AskTrain(o)
    PROVE  GateInv'
<1>1. PICK id \in {trains + 1} \union Given :
          TrainGoes(o, [at |-> "local", id |-> id, resume |-> sources[id] # Missing])
  BY DEF AskTrain
<1>2. id \in Names
  <2>1. trains + 1 \in Names /\ trains' \in 0 .. MaxTrains
    BY TrainGateAssumption DEF AskTrain, GateInv, LineType, Names
  <2>2. \A p \in Operators : train[p] # Idle => train[p].id \in Names
    BY TrainAt
  <2>3. \A i \in DOMAIN runs : runs[i].state # "ended" => runs[i].id \in Names
    BY DEF GateInv, LineType, WorkflowRuns
  <2> QED BY <2>1, <2>2, <2>3 DEF Given, ActiveRuns
<1> DEFINE t == [at |-> "local", id |-> id, resume |-> sources[id] # Missing]
<1>3. t \in Dispatches /\ t.at = "local" /\ t.id = id /\ t.resume = (sources[id] # Missing)
  BY <1>2 DEF Dispatches
<1>4. TrainGoes(o, t)
  BY <1>1
<1>5. UNCHANGED <<source, process, gate, sources, runs, moves, native>> /\ trains' \in 0 .. MaxTrains
  BY TrainGateAssumption DEF AskTrain, deploymentVars, hostVars, GateInv, LineType
<1> HIDE DEF t
<1> QED BY <1>3, <1>4, <1>5, TrainGoesGate

LEMMA PhasesGate ==
    ASSUME GateInv, NEW o \in Operators, LocalPhase(o) \/ IdleSlot(o) \/ SourceAlignment(o) \/ RefuseTrain(o)
    PROVE  GateInv'
<1>1. UNCHANGED <<source, process, gate, sources, runs, moves, native, trains>> /\ trains' \in 0 .. MaxTrains
  BY DEF LocalPhase, IdleSlot, SourceAlignment, RefuseTrain, deploymentVars, hostVars, GateInv, LineType
<1>2. train[o] # Idle
  BY DEF LocalPhase, IdleSlot, SourceAlignment, RefuseTrain, InTrain
<1>3. CASE LocalPhase(o) \/ IdleSlot(o)
  <2>1. train[o].at \in {"local", "slot"}
    BY <1>3 DEF LocalPhase, IdleSlot, InTrain
  <2>2. PICK at \in {"slot", "align"} : TrainGoes(o, [train[o] EXCEPT !.at = at])
    BY <1>3 DEF LocalPhase, IdleSlot
  <2> DEFINE t == [train[o] EXCEPT !.at = at]
  <2>3. /\ t \in [at : {"local", "slot", "align"}, id : Names, resume : BOOLEAN]
        /\ t.at = at /\ t.id = train[o].id /\ t.resume = train[o].resume
    BY <1>2, <2>1, TrainAt
  <2>4. t \in Dispatches
    BY <2>3 DEF Dispatches
  <2> HIDE DEF t
  <2>5. TrainGoes(o, t)
    BY <2>2 DEF t
  <2> QED BY <1>1, <1>2, <2>3, <2>4, <2>5, TrainAt, TrainGoesGate
<1>4. CASE SourceAlignment(o)
  <2> DEFINE t == [at |-> "gate", id |-> train[o].id, resume |-> train[o].resume, steady |-> develop = remote]
  <2>1. /\ t \in Dispatches /\ t.at = "gate" /\ t.id = train[o].id /\ t.resume = train[o].resume
        /\ t.steady => develop = remote
    <3>1. (develop = remote) \in BOOLEAN
      OBVIOUS
    <3> QED BY <1>2, <3>1, TrainAt DEF Dispatches
  <2>2. TrainGoes(o, t)
    BY <1>4 DEF SourceAlignment
  <2> HIDE DEF t
  <2> QED BY <1>1, <1>2, <2>1, <2>2, TrainAt, TrainGoesGate
<1>5. CASE RefuseTrain(o)
  BY <1>1, <1>5, TrainGoesGate DEF RefuseTrain
<1> QED BY <1>3, <1>4, <1>5

\* The gate lets a train through with a report of its own heads.
LEMMA SmokeGateGate ==
    ASSUME GateInv, NEW o \in Operators, SmokeGate(o)
    PROVE  GateInv'
<1> DEFINE expected == IF train[o].resume THEN sources[train[o].id] ELSE develop
           evidence == ReportFor(expected)
           t == [at |-> "dispatch", id |-> train[o].id, resume |-> train[o].resume,
                 steady |-> train[o].steady, evidence |-> evidence]
<1>1. train[o] # Idle /\ train[o].at = "gate"
  BY DEF SmokeGate, InTrain
<1>2. evidence # Missing /\ Evaluate(evidence, expected) /\ TrainGoes(o, t)
  BY DEF SmokeGate
<1>3. evidence \in Record
  <2>1. reports \subseteq Record /\ latest \in Record \union {Missing}
    BY DEF GateInv, GateType
  <2> HIDE DEF expected
  <2>2. CASE \E report \in reports : report.heads = expected
    <3>1. evidence \in reports
      BY <2>2 DEF ReportFor
    <3> QED BY <2>1, <3>1
  <2>3. CASE ~\E report \in reports : report.heads = expected
    BY <1>2, <2>1, <2>3 DEF ReportFor
  <2> QED BY <2>2, <2>3
<1>4. evidence.heads = expected /\ evidence.dirty = {} /\ evidence.verdict = "pass"
  BY <1>2 DEF Evaluate
<1> HIDE DEF evidence
<1>5. /\ t \in Dispatches /\ t # Idle /\ t.at = "dispatch" /\ t.id = train[o].id /\ t.resume = train[o].resume
      /\ t.steady = train[o].steady /\ t.evidence = evidence
  BY <1>1, <1>3, TrainAt DEF Dispatches, Idle
<1> HIDE DEF t
<1>6. Covers(evidence, t)
  BY <1>1, <1>4, <1>5, TrainAt DEF Covers
<1>7. UNCHANGED <<source, process, gate, sources, runs, moves, native, trains>> /\ trains' \in 0 .. MaxTrains
  BY DEF SmokeGate, deploymentVars, hostVars, GateInv, LineType
<1> QED BY <1>1, <1>2, <1>5, <1>6, <1>7, TrainAt, TrainGoesGate

LEMMA DispatchGate ==
    ASSUME GateInv, NEW o \in Operators, Dispatch(o)
    PROVE  GateInv'
<1> DEFINE run == [state |-> "queued", id |-> train[o].id, resume |-> train[o].resume,
                   steady |-> train[o].steady, evidence |-> train[o].evidence]
<1>1. train[o] # Idle /\ train[o].at = "dispatch"
  BY DEF Dispatch, InTrain
<1>2. /\ run \in WorkflowRuns /\ run.state = "queued" /\ run.id = train[o].id /\ run.resume = train[o].resume
      /\ run.steady = train[o].steady /\ run.evidence = train[o].evidence
  BY <1>1, TrainAt DEF WorkflowRuns
<1>3. Covers(run.evidence, run) /\ (run.resume => sources[run.id] # Missing)
  <2> HIDE DEF run
  <2> QED BY <1>1, <1>2, TrainAt DEF Covers
<1>4. runs' = Append(runs, run) /\ TrainGoes(o, Idle)
  BY DEF Dispatch
<1>5. UNCHANGED <<source, process, gate, sources, trains, moves, native>>
  BY DEF Dispatch, deploymentVars, hostVars
<1> HIDE DEF run
<1>6. runs \in Seq(WorkflowRuns) /\ DOMAIN runs = 1 .. Len(runs)
  BY DEF GateInv, LineType
<1>7. /\ runs' \in Seq(WorkflowRuns) /\ DOMAIN runs' = 1 .. Len(runs) + 1
      /\ runs'[Len(runs) + 1] = run /\ \A i \in 1 .. Len(runs) : runs'[i] = runs[i]
  BY <1>2, <1>4, <1>6
<1>8. RunInv'
  <2>1. ASSUME NEW i \in DOMAIN runs'
        PROVE  /\ runs'[i].state = "queued" =>
                     /\ runs'[i].resume => sources[runs'[i].id] # Missing
                     /\ Covers(runs'[i].evidence, runs'[i])
               /\ runs'[i].state = "captured" /\ runs'[i].aligned =>
                     /\ runs'[i].evidence.heads = runs'[i].captured
                     /\ runs'[i].evidence.verdict = "pass" /\ runs'[i].evidence.dirty = {}
    <3>1. Len(runs) \in Nat
      BY <1>6
    <3>2. CASE i \in 1 .. Len(runs)
      BY <1>6, <1>7, <3>2 DEF GateInv, RunInv
    <3>3. CASE i = Len(runs) + 1
      BY <1>2, <1>3, <1>7, <3>3
    <3> QED BY <1>7, <3>1, <3>2, <3>3
  <2> QED BY <1>5, <2>1 DEF RunInv, Covers, source
<1>9. TrainInv' /\ train' \in [Operators -> {Idle} \union Dispatches]
  <2>1. train' = [train EXCEPT ![o] = Idle] /\ train \in [Operators -> {Idle} \union Dispatches]
    BY <1>4 DEF TrainGoes, GateInv, LineType
  <2>2. \A p \in Operators : train'[p] # Idle => train'[p] = train[p] /\ train[p] # Idle
    BY <2>1
  <2> QED BY <1>5, <2>1, <2>2 DEF GateInv, TrainInv, Covers, source
<1>10. LineType'
  BY <1>5, <1>7, <1>9 DEF GateInv, LineType, source
<1> QED BY <1>5, <1>8, <1>9, <1>10, LineLeaves DEF GateInv

\* The workflow captures what the evidence of the dispatch covers.
LEMMA CaptureGate ==
    ASSUME GateInv, NEW i \in DOMAIN runs, Capture(i)
    PROVE  GateInv'
<1>1. runs \in Seq(WorkflowRuns) /\ DOMAIN runs = 1 .. Len(runs) /\ Len(runs) \in Nat /\ i \in 1 .. Len(runs)
  BY DEF GateInv, LineType
<1>2. runs[i] \in [state : {"queued"}, id : Names, resume : BOOLEAN, steady : BOOLEAN, evidence : Record]
  BY <1>1 DEF Capture, WorkflowRuns
<1>3. (runs[i].resume => sources[runs[i].id] # Missing) /\ Covers(runs[i].evidence, runs[i])
  BY DEF Capture, GateInv, RunInv
<1>4. /\ sources' = IF runs[i].resume THEN sources ELSE [sources EXCEPT ![runs[i].id] = remote]
      /\ runs[i].resume \/ sources[runs[i].id] = Missing
      /\ UNCHANGED <<source, process, gate, train, trains, moves, native>>
  BY DEF Capture, deploymentVars, hostVars
<1>5. remote \in [Repos -> 0 .. clock] /\ clock \in Nat /\ sources = [id \in Names |-> sources[id]]
      /\ \A id \in Names : sources[id] # Missing => sources[id] \in [Repos -> 0 .. clock]
  BY DEF GateInv, SourceType, LineType
<1>6. /\ sources' = [id \in Names |-> sources'[id]]
      /\ \A id \in Names : sources[id] # Missing => sources'[id] = sources[id]
      /\ \A id \in Names : sources'[id] # Missing => sources'[id] \in [Repos -> 0 .. clock]
      /\ sources'[runs[i].id] = IF runs[i].resume THEN sources[runs[i].id] ELSE remote
  BY <1>2, <1>4, <1>5
<1> DEFINE captured == sources'[runs[i].id]
           run == [state |-> "captured", id |-> runs[i].id, evidence |-> runs[i].evidence,
                   captured |-> captured, aligned |-> runs[i].resume \/ runs[i].steady]
<1>7. captured \in [Repos -> 0 .. clock]
  BY <1>2, <1>3, <1>5, <1>6
<1>8. captured \in Heads
  BY <1>5, <1>7 DEF Heads
<1>9. runs' = [runs EXCEPT ![i] = run]
  BY DEF Capture
<1>10. runs[i].resume \/ runs[i].steady => runs[i].evidence.heads = captured
  BY <1>2, <1>3, <1>6 DEF Covers
<1>11. runs[i].evidence.verdict = "pass" /\ runs[i].evidence.dirty = {}
  BY <1>3 DEF Covers
<1> HIDE DEF captured
<1>12. /\ run \in WorkflowRuns /\ run.state = "captured" /\ run.evidence = runs[i].evidence
       /\ run.captured = captured /\ run.aligned = (runs[i].resume \/ runs[i].steady)
  BY <1>2, <1>8 DEF WorkflowRuns
<1> HIDE DEF run
<1>13. /\ runs' \in Seq(WorkflowRuns) /\ DOMAIN runs' = DOMAIN runs /\ runs'[i] = run
       /\ \A k \in DOMAIN runs : k # i => runs'[k] = runs[k]
  BY <1>1, <1>9, <1>12
<1>14. RunInv'
  <2>1. ASSUME NEW k \in DOMAIN runs
        PROVE  /\ runs'[k].state = "queued" =>
                     /\ runs'[k].resume => sources'[runs'[k].id] # Missing
                     /\ runs'[k].evidence.verdict = "pass" /\ runs'[k].evidence.dirty = {}
                     /\ runs'[k].resume => runs'[k].evidence.heads = sources'[runs'[k].id]
                     /\ ~runs'[k].resume /\ runs'[k].steady => runs'[k].evidence.heads = remote
               /\ runs'[k].state = "captured" /\ runs'[k].aligned =>
                     /\ runs'[k].evidence.heads = runs'[k].captured
                     /\ runs'[k].evidence.verdict = "pass" /\ runs'[k].evidence.dirty = {}
    <3>1. CASE k = i
      BY <1>10, <1>11, <1>12, <1>13, <3>1
    <3>2. CASE k # i
      <4>1. runs'[k] = runs[k] /\ runs[k] \in WorkflowRuns
        BY <1>1, <1>13, <3>2
      <4>2. runs[k].state = "queued" => runs[k].id \in Names
        BY <4>1 DEF WorkflowRuns
      <4> QED BY <1>6, <4>1, <4>2 DEF GateInv, RunInv, Covers
    <3> QED BY <3>1, <3>2
  <2> QED BY <1>4, <1>13, <2>1 DEF RunInv, Covers, source
<1>15. TrainInv'
  <2>1. ASSUME NEW p \in Operators, train[p] # Idle
        PROVE  /\ train[p].resume => sources'[train[p].id] # Missing
               /\ train[p].at = "dispatch" =>
                     /\ train[p].evidence.verdict = "pass" /\ train[p].evidence.dirty = {}
                     /\ train[p].resume => train[p].evidence.heads = sources'[train[p].id]
                     /\ ~train[p].resume /\ train[p].steady => train[p].evidence.heads = remote
    BY <1>6, <2>1, TrainAt DEF Covers
  <2> QED BY <1>4, <2>1 DEF GateInv, TrainInv, Covers, source
<1>16. LineType'
  BY <1>4, <1>6, <1>13 DEF GateInv, LineType, source
<1> QED BY <1>4, <1>14, <1>15, <1>16, LineLeaves DEF GateInv

LEMMA RunEndsGate ==
    ASSUME GateInv, NEW i \in DOMAIN runs, RunEnds(i)
    PROVE  GateInv'
<1>1. runs \in Seq(WorkflowRuns) /\ DOMAIN runs = 1 .. Len(runs) /\ Len(runs) \in Nat /\ i \in 1 .. Len(runs)
  BY DEF GateInv, LineType
<1>2. runs' = [runs EXCEPT ![i] = [state |-> "ended"]] /\ UNCHANGED <<source, process, gate, train, sources, trains, moves, native>>
  BY DEF RunEnds, deploymentVars, hostVars
<1>3. [state |-> "ended"] \in WorkflowRuns
  BY DEF WorkflowRuns
<1>4. /\ runs' \in Seq(WorkflowRuns) /\ DOMAIN runs' = DOMAIN runs /\ runs'[i].state = "ended"
      /\ \A k \in DOMAIN runs : k # i => runs'[k] = runs[k]
  BY <1>1, <1>2, <1>3
<1>5. RunInv'
  BY <1>2, <1>4 DEF GateInv, RunInv, Covers, source
<1>6. TrainInv' /\ LineType'
  BY <1>2, <1>4 DEF GateInv, TrainInv, LineType, Covers, source
<1> QED BY <1>2, <1>5, <1>6, LineLeaves DEF GateInv

LEMMA TrainsGate ==
    ASSUME GateInv, NEW o \in Operators, Train(o)
    PROVE  GateInv'
BY AskTrainGate, PhasesGate, SmokeGateGate, DispatchGate DEF Train


----------------------------------------------------------------------------
(* The invariant of the source, the smoke and the trains. *)

LEMMA GateInit ==
    ASSUME Init
    PROVE  GateInv
<1>1. /\ clock = 2 /\ develop = [r \in Repos |-> 1] /\ remote = develop /\ late = {}
      /\ sync = [r \in Repos |-> "same"] /\ tree = [r \in Repos |-> "develop"]
      /\ jar = [r \in Served |-> [of |-> 1, at |-> 2]]
      /\ process = [r \in Served |-> IF "microservices" \in native.apps THEN jar[r] ELSE Missing]
      /\ localStack = Nobody /\ smoke = [o \in Operators |-> Idle] /\ reports = {} /\ latest = Missing
      /\ train = [o \in Operators |-> Idle] /\ sources = [id \in Names |-> Missing] /\ runs = <<>>
  BY DEF Init
<1>2. moves \in 0 .. MaxMoves /\ smokes \in 0 .. MaxSmokes /\ trains \in 0 .. MaxTrains
  BY TrainGateAssumption DEF Init
<1>3. \A r \in Served : r \in Repos /\ jar[r] = [of |-> 1, at |-> 2] /\ develop[r] = 1
  BY <1>1, TrainGateAssumption
<1>4. SourceType
  <2>1. [of |-> 1, at |-> 2] \in [of : Nat, at : 0 .. 2]
    OBVIOUS
  <2>2. jar \in [Served -> [of : Nat, at : 0 .. clock]]
    BY <1>1, <2>1
  <2>3. develop \in [Repos -> 0 .. clock] /\ remote \in [Repos -> 0 .. clock]
    BY <1>1
  <2> QED BY <1>1, <1>2, <2>2, <2>3 DEF SourceType, Syncs, Trees
<1>5. ProcessInv
  <2>1. [of |-> 1, at |-> 2] \in Jar
    BY DEF Jar
  <2> QED BY <1>1, <1>3, <2>1 DEF ProcessInv
<1>6. JarInv
  BY <1>3 DEF JarInv
<1>7. GateType
  BY <1>1, <1>2 DEF GateType
<1>8. SmokeInv /\ TrainInv
  BY <1>1 DEF SmokeInv, TrainInv
<1>9. LineType /\ RunInv
  BY <1>1, <1>2 DEF LineType, RunInv
<1> QED BY <1>4, <1>5, <1>6, <1>7, <1>8, <1>9 DEF GateInv

LEMMA GateStep == HostInv /\ GateInv /\ [Next]_vars => GateInv'
<1> SUFFICES ASSUME HostInv, GateInv, [Next]_vars PROVE GateInv'
  OBVIOUS
<1>1. ASSUME NEW o \in Operators, HostCommand(o) PROVE GateInv'
  <2>1. UNCHANGED <<source, gate, line, moves, process, native>>
    BY <1>1 DEF HostCommand, Type, Kill, hostVars
  <2> QED BY <2>1, GateStays
<1>2. ASSUME NEW o \in Operators, StackStep(o) PROVE GateInv'
  BY <1>2, StackGate
<1>3. ASSUME NEW o \in Operators, Smoke(o) PROVE GateInv'
  BY <1>3, SmokesGate DEF HostInv
<1>4. ASSUME NEW o \in Operators, Train(o) PROVE GateInv'
  BY <1>4, TrainsGate
<1>5. CASE HostMoves
  <2>1. UNCHANGED <<source, gate, line, moves, process, native>>
    BY <1>5 DEF HostMoves, DaemonStops, DaemonReturns, GiveUp, Recover, hostVars
  <2> QED BY <2>1, GateStays
<1>6. CASE SourceMoves
  BY <1>6, SourceGate DEF SourceMoves
<1>7. CASE Workflow
  BY <1>7, CaptureGate, RunEndsGate DEF Workflow
<1>8. CASE UNCHANGED vars
  BY <1>8, GateStays DEF vars, deploymentVars, hostVars
<1> QED BY <1>1, <1>2, <1>3, <1>4, <1>5, <1>6, <1>7, <1>8 DEF Next

LEMMA Invariants == Spec => [](HostInv /\ GateInv)
<1>1. Init => HostInv /\ GateInv
  BY HostInit, GateInit
<1>2. HostInv /\ GateInv /\ [Next]_vars => (HostInv /\ GateInv)'
  BY HostStep, GateStep
<1> QED BY <1>1, <1>2, PTL DEF Spec

LEMMA ModeInvariants == Spec => [](HostInv /\ ModeInv)
<1>1. Init => HostInv /\ ModeInv
  BY HostInit, ModeInit
<1>2. HostInv /\ ModeInv /\ [Next]_vars => (HostInv /\ ModeInv)'
  BY HostStep, ModeStep
<1> QED BY <1>1, <1>2, PTL DEF Spec

----------------------------------------------------------------------------
(* The theorems. *)

LEMMA HostTyped ==
    ASSUME HostInv
    PROVE  DeploymentTypeOK
<1>1. \A o \in Operators :
          job[o] # Idle => /\ job[o].tag \in Tags
                           /\ job[o].todo # <<>>
                           /\ \A i \in DOMAIN job[o].todo : job[o].todo[i][1] \in Verbs
  <2> SUFFICES ASSUME NEW o \in Operators, job[o] # Idle
               PROVE  /\ job[o].tag \in Tags /\ job[o].todo # <<>>
                      /\ \A i \in DOMAIN job[o].todo : job[o].todo[i][1] \in Verbs
    OBVIOUS
  <2>1. JobOK(job[o])
    BY DEF HostInv, JobType
  <2>2. \A i \in DOMAIN job[o].todo : job[o].todo[i] \in CallsOn(job[o].cmd.surface)
    BY <2>1 DEF JobOK
  <2>3. \A call \in CallsOn(job[o].cmd.surface) : call[1] \in Verbs
    BY DEF CallsOn
  <2> QED BY <2>1, <2>2, <2>3 DEF JobOK
<1> QED BY <1>1 DEF HostInv, HostType, DeploymentTypeOK

LEMMA Typed ==
    ASSUME HostInv, GateInv
    PROVE  TypeOK
<1>1. \A report \in Record : ReportOK(report)
  BY DEF Record, ReportOK, Heads
<1>2. \A r \in Served : jar[r] \in Jar /\ (process[r] = Missing \/ process[r] \in Jar)
  BY DEF GateInv, SourceType, ProcessInv, Jar
<1> QED BY <1>1, <1>2, HostTyped DEF GateInv, SourceType, GateType, LineType, TypeOK

\* Type correctness: the host is in one of the shapes ModeManager and the Docker
\* support know, every call a command still has to make is one of its surface, and
\* heads, jars, smoke reports and recorded sources are what smoke_gate.py and
\* train_support/ write, whoever works on the host at the same time.
THEOREM TypeCorrect == Spec => []TypeOK
<1>1. HostInv /\ GateInv => TypeOK
  BY Typed
<1> QED BY <1>1, Invariants, PTL

\* The checks of ModeManager before a command keep a tier from being served by
\* native processes and by containers at once: also while the command works, is
\* killed or loses its daemon, as long as every command was admitted while no
\* other was at work and with the daemon there to be asked.
THEOREM ServedOnce == Spec => []TierServedOnce
<1>1. HostInv => TierServedOnce
  BY DEF HostInv
<1> QED BY <1>1, Invariants, PTL

LEMMA Admissions ==
    ASSUME HostInv, ModeInv, InTurn, daemon, ~Clean
    PROVE  IF Cornered THEN ~Admitted(StopNative) /\ ~Admitted(ClearMode) /\ Admitted(Adoption)
           ELSE Admitted(Named)
<1>1. HostType /\ Kept(mode, record, docker, native)
  BY DEF HostInv, ModeInv
<1>2. mode # Missing => mode.name \in Modes /\ mode.profile \in BOOLEAN
  BY <1>1 DEF HostType
<1>3. CASE mode = Missing
  <2> DEFINE name == RecordedMode
             c == Select(name)
  <2>1. name \in Modes
    BY <1>1 DEF HostType, RecordedMode, Modes
  <2>2. /\ c.surface = "mode" /\ c.verb = "select" /\ c.target = name
        /\ (c.with = "profile") = (c.target \in {"native", "hybrid"})
    BY <2>1 DEF Select, Command, Modes
  <2>3. RuntimeCompatible(name) /\ DockerStartCompatible(name)
    <3>1. CASE record # Missing /\ record.mode = "full"
      <4>1. name = "docker" /\ native.apps = {} /\ native.infra = "down"
        BY <1>1, <1>3, <3>1 DEF RecordedMode, Kept
      <4> HIDE DEF name
      <4> QED BY <3>1, <4>1 DEF RuntimeCompatible, DockerStartCompatible, Topology, RunningNativeServices, HostInfrastructureListens
    <3>2. CASE record # Missing /\ record.mode = "hybrid"
      <4>1. name = "hybrid" /\ native.apps \subseteq {"frontends"} /\ native.infra = "down" /\ docker["frontends"] = "down"
        BY <1>1, <1>3, <3>2 DEF RecordedMode, Kept
      <4> HIDE DEF name
      <4> QED BY <3>2, <4>1 DEF RuntimeCompatible, DockerStartCompatible, Topology, RunningNativeServices,
                                HostInfrastructureListens, RunningProjects
    <3>3. CASE record = Missing /\ RunningProjects = {}
      <4>1. name = "native"
        BY <3>3 DEF RecordedMode
      <4> HIDE DEF name
      <4> QED BY <3>3, <4>1 DEF RuntimeCompatible, DockerStartCompatible
    <3>4. CASE record = Missing /\ RunningProjects # {}
      <4>1. ~\A stack \in Stacks : docker[stack] = "down"
        BY <3>4 DEF RunningProjects
      <4>2. \/ native.apps = {} /\ native.infra = "down"
            \/ native.apps \subseteq {"frontends"} /\ native.infra = "down" /\ docker["frontends"] = "down"
        BY <1>1, <1>3, <4>1 DEF Kept
      <4>3. CASE native.apps = {"frontends"}
        <5>1. name = "hybrid" /\ docker["frontends"] = "down" /\ native.infra = "down"
          BY <3>4, <4>2, <4>3 DEF RecordedMode
        <5> HIDE DEF name
        <5> QED BY <3>4, <4>3, <5>1 DEF RuntimeCompatible, DockerStartCompatible, RunningNativeServices,
                                        HostInfrastructureListens, RunningProjects
      <4>4. CASE native.apps # {"frontends"}
        <5>1. name = "docker" /\ native.apps = {} /\ native.infra = "down"
          BY <3>4, <4>2, <4>4 DEF RecordedMode
        <5> HIDE DEF name
        <5> QED BY <3>4, <5>1 DEF RuntimeCompatible, DockerStartCompatible, RunningNativeServices, HostInfrastructureListens
      <4> QED BY <4>3, <4>4
    <3> QED BY <1>1, <3>1, <3>2, <3>3, <3>4 DEF HostType
  <2>4. Named = c /\ ~Cornered
    BY <1>3 DEF Named, Cornered
  <2> HIDE DEF name, c
  <2>5. Configure(c)
    BY <1>3, <2>2, <2>3 DEF Configure
  <2>6. Admitted(c)
    BY <2>2, <2>5 DEF Admitted
  <2> QED BY <2>4, <2>6
<1>4. CASE mode # Missing /\ NativesToStop
  <2>1. mode.name \in {"native", "hybrid"} /\ Named = StopNative
    BY <1>2, <1>4 DEF NativesToStop, Named, Modes
  <2>2. /\ StopNative.surface = "native" /\ StopNative.verb = "stop"
        /\ mode.name = "hybrid" => StopNative.target = "frontends"
    BY DEF StopNative, Command
  <2>3. CASE ~mode.profile
    <3>1. Cornered
      BY <1>4, <2>3 DEF Cornered
    <3>2. ~Admitted(StopNative)
      <4>1. ~NativeStop(StopNative)
        BY <2>3 DEF NativeStop, Bootstrap, RequireProfile
      <4> QED BY <2>2, <4>1 DEF Admitted
    <3>3. ~Admitted(ClearMode)
      <4>1. ClearMode.surface = "mode" /\ ClearMode.verb = "clear"
        BY DEF ClearMode, Command
      <4>2. ~SelectedServicesStopped
        BY <1>2, <1>4, <2>1 DEF NativesToStop, SelectedServicesStopped, RunningNativeServices
      <4>3. ~Clear(ClearMode)
        BY <4>2 DEF Clear
      <4> QED BY <4>1, <4>3 DEF Admitted
    <3>4. Admitted(Adoption)
      <4>1. /\ Adoption.surface = "mode" /\ Adoption.verb = "select" /\ Adoption.target = mode.name
            /\ Adoption.with = "profile"
        BY <2>1 DEF Adoption, Select, Command
      <4>2. Configure(Adoption)
        BY <1>4, <2>3, <4>1 DEF Configure, Adopts
      <4> QED BY <4>1, <4>2 DEF Admitted
    <3> QED BY <3>1, <3>2, <3>3, <3>4
  <2>4. CASE mode.profile
    <3>1. ~Cornered
      BY <2>4 DEF Cornered
    <3>2. NativeStop(StopNative)
      BY <1>4, <2>1, <2>2, <2>4 DEF NativeStop, Bootstrap, RequireSurface, RequireProfile, Surfaces, NativeTargetAllowed
    <3>3. Admitted(StopNative)
      BY <2>2, <3>2 DEF Admitted
    <3> QED BY <2>1, <3>1, <3>3
  <2> QED BY <1>2, <1>4, <2>3, <2>4
<1>5. CASE mode # Missing /\ ~NativesToStop
  <2> DEFINE all == mode.name # "native" /\ RunningProjects \ {"admin"} # {}
             admin == mode.name # "native" /\ "admin" \in RunningProjects
  <2>0. ~Cornered
    BY <1>5 DEF Cornered
  <2>1. ASSUME NEW t \in {"all", "admin"}, mode.name # "native", Named = Command("docker", "stop", t, "")
        PROVE  Admitted(Named)
    <3> DEFINE c == Command("docker", "stop", t, "")
    <3>1. c.surface = "docker" /\ c.verb = "stop"
      BY DEF Command
    <3> HIDE DEF c
    <3>2. Bootstrap("docker", "stop")
      <4>1. mode.name = "hybrid" \/ mode.name = "docker"
        BY <1>2, <1>5, <2>1 DEF Modes
      <4>2. "docker" \in Surfaces["hybrid"] /\ "docker" \in Surfaces["docker"]
        BY DEF Surfaces
      <4>3. RequireSurface("docker", FALSE)
        BY <1>5, <4>1, <4>2 DEF RequireSurface
      <4> QED BY <4>3 DEF Bootstrap
    <3>3. DockerStop(c)
      BY <3>2 DEF DockerStop
    <3>4. Admitted(c)
      BY <3>1, <3>3 DEF Admitted
    <3> QED BY <2>1, <3>4 DEF c
  <2>2. CASE all
    <3>1. Named = Command("docker", "stop", "all", "")
      BY <1>5, <2>2 DEF Named
    <3> QED BY <2>0, <2>1, <2>2, <3>1
  <2>3. CASE ~all /\ admin
    <3>1. Named = Command("docker", "stop", "admin", "")
      BY <1>5, <2>3 DEF Named
    <3> QED BY <2>0, <2>1, <2>3, <3>1
  <2>4. CASE ~all /\ ~admin
    <3> DEFINE c == ClearMode
    <3>1. Named = c
      BY <1>5, <2>4 DEF Named
    <3>2. c.surface = "mode" /\ c.verb = "clear"
      BY DEF ClearMode, Command
    <3>3. SelectedServicesStopped
      BY <1>5 DEF NativesToStop, SelectedServicesStopped, RunningNativeServices
    <3>4. mode.name # "native" => RunningProjects = {}
      BY <2>4
    <3> HIDE DEF c
    <3>5. Clear(c)
      BY <1>5, <3>3, <3>4 DEF Clear
    <3>6. Admitted(c)
      BY <3>2, <3>5 DEF Admitted
    <3> QED BY <2>0, <3>1, <3>6
  <2> QED BY <2>2, <2>3, <2>4
<1> QED BY <1>3, <1>4, <1>5

\* On a quiet host with its daemon there is always a next remedy until the host is
\* clean, however the commands before were killed, failed or lost the daemon, as
\* long as they were given one at a time and the reactor deployed no frontends the
\* mode did not allow: the command that the refusals name is not refused itself,
\* unless native services run under a mode without a profile, where the commands
\* named refuse each other and only the adoption of a profile is admitted.
THEOREM RemediesAdmitted == Spec => []RemedyIsAdmitted
<1>1. HostInv /\ ModeInv => RemedyIsAdmitted
  BY Admissions DEF RemedyIsAdmitted, InTurn
<1> QED BY <1>1, ModeInvariants, PTL

\* A train that the build-train workflow captured without any source moving
\* since its dispatch carries the heads of a passed whole-stack smoke; when
\* nothing moved during that smoke either, no newer jar was without its head and no
\* older one went unnoticed, the services it talked to ran jars built from these heads.
THEOREM Covered == Spec => []TrainIsCovered
<1>1. ASSUME GateInv PROVE TrainIsCovered
  <2> SUFFICES ASSUME NEW i \in DOMAIN runs, runs[i].state = "captured", runs[i].aligned
               PROVE  /\ runs[i].evidence.heads = runs[i].captured
                      /\ runs[i].evidence.verdict = "pass" /\ runs[i].evidence.dirty = {}
                      /\ runs[i].evidence.still /\ runs[i].evidence.late = {} =>
                            \A r \in Served : runs[i].evidence.ran[r].of = runs[i].captured[r]
    BY DEF TrainIsCovered
  <2>1. /\ runs[i].evidence.heads = runs[i].captured
        /\ runs[i].evidence.verdict = "pass" /\ runs[i].evidence.dirty = {}
    BY <1>1 DEF GateInv, RunInv
  <2>2. runs[i] \in WorkflowRuns
    BY <1>1 DEF GateInv, LineType
  <2>3. runs[i].evidence \in Record
    BY <2>2 DEF WorkflowRuns
  <2> QED BY <2>1, <2>3 DEF Record
<1> QED BY <1>1, Invariants, PTL

============================================================================
