------------------------------ MODULE Deployment ------------------------------
(***************************************************************************)
(* How one host runs CEDAR: the persistent mode (util/ModeManager.py), the *)
(* Docker stacks and their deployment record (docker_support/) and the     *)
(* native services (native.py, start.py, stop.py, restart.py).             *)
(*                                                                         *)
(* A command is admitted in one step: ModeManager.bootstrap and the Typer  *)
(* callbacks read the mode, the record, the running projects and the       *)
(* native processes, and nothing is written until all of them agreed.      *)
(* From then on nothing is asked again: the command works through its      *)
(* `todo`, one call that changes the host at a time, while other operators *)
(* issue commands, the Docker daemon stops, or the command is killed.      *)
(*                                                                         *)
(* External: the native controller (cedar-services.sh), the Docker daemon  *)
(* and the Compose files, as the code here uses them.                      *)
(***************************************************************************)
EXTENDS Naturals, Sequences, FiniteSets

CONSTANTS
    Operators,      \* terminals a command can be typed in
    Trains,         \* completed immutable Docker trains
    Current,        \* the train docker/current.json names
    Hosts,          \* the hosts to start from, each with the commands to type there
                    \* and what of the bounds is spent already
    MaxCommands,    \* commands typed before the operators give up
    MaxFaults       \* daemon stops and killed commands

ASSUME DeploymentAssumption ==
    /\ Operators # {} /\ Current \in Trains
    /\ MaxCommands \in Nat /\ MaxFaults \in Nat

VARIABLES
    mode,           \* .cedar/mode.json: Missing or [name, profile]
    record,         \* .cedar/docker-deployment.json: Missing or [mode, train]
    docker,         \* per stack "down", "part", or the image tag all of it runs
    native,         \* [infra |-> "down" | "part" | "up", apps |-> set of groups]
    daemon,         \* the Docker daemon answers
    provisioned,    \* of the network and the certificate volumes, what exists
    images,         \* per tag, what the local image of that name is
    job,            \* per operator Idle or the command being carried out
    menu,           \* the commands typed in this behaviour
    typed, faults,  \* what was spent of MaxCommands and MaxFaults
    raced,          \* a command was admitted while another was at work
    blind,          \* who started native services with Docker not there to ask, or unasked
    recovering      \* the operators follow the remedies until the host is clean

hostVars == <<mode, record, docker, native, daemon, provisioned, images>>
ledger == <<menu, typed, faults, raced, blind, recovering>>
deploymentVars == <<hostVars, job, ledger>>

Missing == <<>>
Idle == <<>>
Local == "local"                      \* the development tag of the manifests
Tags == Trains \union {Local}

Modes == {"native", "hybrid", "docker"}
Stacks == {"infrastructure", "microservices", "frontends", "admin"}
Groups == {"microservices", "frontends"}

\* A target below a whole stack, and the stack it belongs to.
Services == [keycloak |-> "infrastructure", microservice |-> "microservices",
             frontend |-> "frontends"]
StackOf(target) == IF target \in DOMAIN Services THEN Services[target] ELSE target

Start(command, todo, tag) == [cmd |-> command, todo |-> todo, tag |-> tag, failed |-> FALSE]

---------------------------------------------------------------------------
(* What the commands read.                                                 *)

\* No daemon is reported as no project: a command cannot tell the two apart.
RunningProjects == {stack \in Stacks : daemon /\ docker[stack] # "down"}

RunningNativeServices == native.apps
HostInfrastructureListens == native.infra # "down"

Topology(name) == IF name = "docker" THEN "full" ELSE name

\* Mutant: native mode does not ask whether containers run.
RuntimeUnasked(name) ==
    /\ record # Missing => record.mode = Topology(name)
    /\ name = "hybrid" => "frontends" \notin RunningProjects

RuntimeCompatible(name) ==
    /\ name = "native" => record = Missing /\ RunningProjects = {}
    /\ record # Missing => record.mode = Topology(name)
    /\ name = "hybrid" => "frontends" \notin RunningProjects

Surfaces == [native |-> {"native"}, hybrid |-> {"native", "docker"}, docker |-> {"docker"}]

RequireSurface(surface, checkRuntime) ==
    /\ mode # Missing
    /\ checkRuntime => RuntimeCompatible(mode.name)
    /\ surface \in Surfaces[mode.name]

DockerStartCompatible(name) ==
    \/ name = "native"
    \/ /\ name = "docker" => RunningNativeServices = {}
       /\ name = "hybrid" => RunningNativeServices \subseteq {"frontends"}
       /\ ~HostInfrastructureListens

\* profile_environment sources a native profile only under a recorded one.
RequireProfile == mode # Missing /\ mode.profile

\* Mutant: a stop is refused as a start is when the host contradicts the mode.
BootstrapStopsChecked(surface, verb) ==
    CASE surface = "native" -> RequireSurface("native", TRUE) /\ RequireProfile
      [] surface = "docker" -> RequireSurface("docker", TRUE)
      [] surface = "mode"   -> TRUE
      [] OTHER              -> mode # Missing /\ mode.name # "docker" => RequireProfile

\* A stop is let through whatever runs: it is the way out.
Bootstrap(surface, verb) ==
    CASE surface = "native" -> RequireSurface("native", verb # "stop") /\ RequireProfile
      [] surface = "docker" -> RequireSurface("docker", verb # "stop")
      [] surface = "mode"   -> TRUE
      [] OTHER              -> mode # Missing /\ mode.name # "docker" => RequireProfile

\* Only native frontends may be touched while the backend runs in containers.
NativeTargetAllowed(target) == mode.name = "hybrid" => target = "frontends"

DockerFrontendsAllowed(target, verb) ==
    StackOf(target) = "frontends" /\ target # "all" /\ verb # "stop"
        => mode.name # "hybrid" /\ (record # Missing => record.mode = "full")

\* An individual start joins the recorded deployment; a complete one does not.
ResolveTrain(asked, preferActive) ==
    CASE asked \in Tags                             -> asked
      [] asked = "default" /\ preferActive /\ record # Missing -> record.train
      [] OTHER                                      -> Current

---------------------------------------------------------------------------
(* The commands: when each is admitted and what it then does, in order.    *)

StackNames(topology) ==
    <<"infrastructure", "microservices">> \o
        (IF topology = "full" THEN <<"frontends">> ELSE <<>>)

Each(verb, targets) == [i \in DOMAIN targets |-> <<verb, targets[i]>>]

DockerStartAll(topology) ==
    <<<<"prepare", "all">>>>
    \o (IF topology = "hybrid" THEN <<<<"down", "frontends">>>> ELSE <<>>)
    \o Each("up", StackNames(topology))
    \o <<<<"record", topology>>>>

DockerStart(c) ==
    /\ Bootstrap("docker", "start")
    /\ DockerStartCompatible(mode.name)
    /\ DockerFrontendsAllowed(c.target, "start")

DockerStartJob(c) ==
    IF c.target = "all"
    THEN Start(c, DockerStartAll(Topology(mode.name)), ResolveTrain(c.with, FALSE))
    ELSE Start(c, <<<<"prepare", c.target>>, <<"up", c.target>>>>, ResolveTrain(c.with, TRUE))

DockerStop(c) ==
    /\ Bootstrap("docker", "stop")
    /\ c.target = "all" => daemon

DockerStopJob(c) ==
    IF c.target = "all"
    THEN Start(c, Each("down", <<"frontends", "microservices", "infrastructure">>)
                  \o <<<<"forget", "stopped">>>>, Local)
    ELSE Start(c, <<<<"down", c.target>>>>, Local)

DockerRemoveJob(c) ==
    Start(c, IF c.target = "all"
             THEN <<<<"remove", "containers">>, <<"remove", "images">>,
                    <<"remove", "volumes">>, <<"remove", "network">>>>
             ELSE <<<<"remove", c.target>>>>, Local)

DockerSetupJob(c) == Start(c, <<<<"setup", "network">>, <<"setup", "certificates">>>>, Local)

NativeStart(c) == Bootstrap("native", "start") /\ NativeTargetAllowed(c.target)

NativeStartJob(c) ==
    LET infra == <<<<"start infra", "all">>>>
    IN Start(c, CASE c.target = "all"      -> infra \o <<<<"start apps", "all">>>>
                  [] c.target = "backends" -> infra \o <<<<"start apps", "microservices">>>>
                  [] c.target = "infra"    -> infra
                  [] c.target = "keycloak" -> <<<<"start infra", "keycloak">>>>
                  [] OTHER                 -> <<<<"start apps", c.target>>>>, Local)

NativeStop(c) == Bootstrap("native", "stop") /\ NativeTargetAllowed(c.target)

NativeStopJob(c) ==
    LET infra == <<<<"stop infra", "all">>>>
    IN Start(c, CASE c.target = "all"      -> <<<<"stop apps", "all">>>> \o infra
                  [] c.target = "backends" -> <<<<"stop apps", "microservices">>>> \o infra
                  [] c.target = "infra"    -> infra
                  [] c.target = "keycloak" -> <<<<"stop infra", "keycloak">>>>
                  [] OTHER                 -> <<<<"stop apps", c.target>>>>, Local)

NativeRestart(c) == Bootstrap("native", "restart") /\ NativeTargetAllowed(c.target)

NativeRestartJob(c) == Start(c, <<<<"restart apps", c.target>>>>, Local)

Adopts(c) == mode # Missing /\ mode.name = c.target /\ c.with = "profile" /\ ~mode.profile

Configure(c) ==
    \/ Adopts(c)
    \/ /\ mode = Missing
       /\ (c.with = "profile") = (c.target \in {"native", "hybrid"})
       /\ RuntimeCompatible(c.target)
       /\ DockerStartCompatible(c.target)

ConfigureJob(c) == Start(c, <<<<IF Adopts(c) THEN "adopt" ELSE "select", c.target>>>>, Local)

\* Clearing must not discard the only mode able to stop what still runs.
SelectedServicesStopped ==
    /\ mode.name = "native" => RunningNativeServices = {} /\ ~HostInfrastructureListens
    /\ mode.name = "hybrid" => "frontends" \notin RunningNativeServices

Clear(c) ==
    /\ mode # Missing
    /\ SelectedServicesStopped
    /\ mode.name # "native" => RunningProjects = {} /\ (daemon \/ c.with = "force")

ClearJob(c) ==
    Start(c, (IF mode.name = "native" THEN <<>> ELSE <<<<"forget", "cleared">>>>)
             \o <<<<"unlink", "mode">>>>, Local)

Admitted(c) ==
    CASE c.surface = "docker" /\ c.verb = "start"   -> DockerStart(c)
      [] c.surface = "docker" /\ c.verb = "stop"    -> DockerStop(c)
      [] c.surface = "docker" /\ c.verb \in {"remove", "setup"} -> Bootstrap("docker", c.verb)
      [] c.surface = "native" /\ c.verb = "start"   -> NativeStart(c)
      [] c.surface = "native" /\ c.verb = "stop"    -> NativeStop(c)
      [] c.surface = "native" /\ c.verb = "restart" -> NativeRestart(c)
      [] c.surface = "mode" /\ c.verb = "select"    -> Configure(c)
      [] c.surface = "mode" /\ c.verb = "clear"     -> Clear(c)
      [] OTHER                                      -> FALSE

JobOf(c) ==
    CASE c.surface = "docker" /\ c.verb = "start"   -> DockerStartJob(c)
      [] c.surface = "docker" /\ c.verb = "stop"    -> DockerStopJob(c)
      [] c.surface = "docker" /\ c.verb = "remove"  -> DockerRemoveJob(c)
      [] c.surface = "docker" /\ c.verb = "setup"   -> DockerSetupJob(c)
      [] c.surface = "native" /\ c.verb = "start"   -> NativeStartJob(c)
      [] c.surface = "native" /\ c.verb = "stop"    -> NativeStopJob(c)
      [] c.surface = "native" /\ c.verb = "restart" -> NativeRestartJob(c)
      [] c.surface = "mode" /\ c.verb = "select"    -> ConfigureJob(c)
      [] c.surface = "mode" /\ c.verb = "clear"     -> ClearJob(c)

StartsNatives(c) == c.surface = "native" /\ c.verb \in {"start", "restart"}

Type(o, c) ==
    /\ job[o] = Idle /\ ~recovering
    /\ typed < MaxCommands /\ c \in menu
    /\ Admitted(c)
    /\ job' = [job EXCEPT ![o] = JobOf(c)]
    /\ typed' = typed + 1
    /\ raced' = (raced \/ \E p \in Operators : job[p] # Idle)
    /\ blind' = IF StartsNatives(c) /\ ~daemon THEN blind \union {"command"} ELSE blind
    /\ UNCHANGED <<hostVars, menu, faults, recovering>>

---------------------------------------------------------------------------
(* The steps of an admitted command.                                       *)

Working(o, verb) == job[o] # Idle /\ job[o].todo # <<>> /\ Head(job[o].todo)[1] = verb
Target(o) == Head(job[o].todo)[2]
Tag(o) == job[o].tag

\* Mutant: the last step does not end the command.
ProceedOn(o) == job' = [job EXCEPT ![o] = [job[o] EXCEPT !.todo = Tail(@)]]

Proceed(o) ==
    job' = [job EXCEPT ![o] = IF Len(job[o].todo) = 1 THEN Idle
                              ELSE [job[o] EXCEPT !.todo = Tail(@)]]
End(o) == job' = [job EXCEPT ![o] = Idle]

\* docker stop all and remove all try every part and remember that one failed.
Persists(c) == c.surface = "docker" /\ c.verb \in {"stop", "remove"} /\ c.target = "all"

GoOnFailed(o) ==
    IF Persists(job[o].cmd) /\ Len(job[o].todo) > 1
    THEN job' = [job EXCEPT ![o] = [job[o] EXCEPT !.todo = Tail(@), !.failed = TRUE]]
    ELSE End(o)

\* A step that checks, waits or validates may refuse, time out or fail before
\* it changed anything.
Refuse(o) ==
    /\ \E verb \in {"prepare", "record", "select", "adopt", "setup"} : Working(o, verb)
    /\ ~recovering
    /\ End(o)
    /\ UNCHANGED <<hostVars, ledger>>

\* The whole deployment is started on a prepared host and free ports.
Preflight == provisioned = {"network", "certificates"} /\ ~HostInfrastructureListens

Verified(have, pull) ==
    IF pull = "always" \/ (pull = "missing" /\ have = "absent") THEN "right" ELSE have

PrepareTrainImages(tag) ==
    \E pull \in {"never", "missing", "always"} :
        /\ Verified(images[tag], pull) = "right"
        /\ images' = [images EXCEPT ![tag] = "right"]

\* The admin stack runs no image of a train, and nothing is verified for it.
Prepare(o) ==
    /\ Working(o, "prepare")
    /\ daemon
    /\ Target(o) = "all" => Preflight
    /\ CASE Target(o) = "admin" -> UNCHANGED images
         [] Target(o) # "admin" /\ Tag(o) = Local -> images[Local] # "absent" /\ UNCHANGED images
         [] OTHER -> PrepareTrainImages(Tag(o))
    /\ Proceed(o)
    /\ UNCHANGED <<mode, record, docker, native, daemon, provisioned, ledger>>

\* One service of a stack leaves the stack as it was only when all of it runs
\* this tag already.
Raised(target, tag) ==
    IF target \in DOMAIN Services /\ docker[StackOf(target)] # tag THEN "part" ELSE tag

\* start_all waits for every stack it started so far, on the expected images.
Awaited(stack) ==
    CASE stack = "infrastructure" -> {"infrastructure"}
      [] stack = "microservices"  -> {"infrastructure", "microservices"}
      [] OTHER                    -> Stacks \ {"admin"}

ComposeUp(o) ==
    /\ Working(o, "up") /\ daemon
    /\ LET stack == StackOf(Target(o))
       IN \/ /\ "network" \in provisioned
             /\ stack # "admin" => images[Tag(o)] # "absent"
             /\ docker' = [docker EXCEPT ![stack] = Raised(Target(o), Tag(o))]
             /\ IF job[o].cmd.target = "all" /\ (\E s \in Awaited(stack) : docker'[s] # Tag(o))
                THEN End(o) ELSE Proceed(o)
          \/ /\ ~recovering
             /\ \E left \in {docker[stack], "part"} : docker' = [docker EXCEPT ![stack] = left]
             /\ End(o)
    /\ UNCHANGED <<mode, record, native, daemon, provisioned, images, ledger>>

\* Stopping one service can stop the last container of its stack.
Lowered(target) ==
    IF target \notin DOMAIN Services \/ docker[StackOf(target)] = "down"
    THEN {"down"} ELSE {"part", "down"}

ComposeDown(o) ==
    /\ Working(o, "down") /\ daemon
    /\ LET stack == StackOf(Target(o))
       IN \/ /\ \E left \in Lowered(Target(o)) : docker' = [docker EXCEPT ![stack] = left]
             /\ Proceed(o)
          \/ /\ ~recovering
             /\ docker' = [docker EXCEPT ![stack] = IF @ = "down" THEN @ ELSE "part"]
             /\ GoOnFailed(o)
    /\ UNCHANGED <<mode, record, native, daemon, provisioned, images, ledger>>

\* Without the daemon every call of Compose fails.
ComposeFails(o) ==
    /\ ~daemon
    /\ \E verb \in {"prepare", "up", "down", "setup", "record"} : Working(o, verb)
    /\ GoOnFailed(o)
    /\ UNCHANGED <<hostVars, ledger>>

\* The public routes of a hybrid host are served by its native frontends.
Accepted(topology) ==
    /\ docker["infrastructure"] # "down" /\ docker["microservices"] # "down"
    /\ IF topology = "full" THEN docker["frontends"] # "down"
       ELSE "frontends" \in native.apps

RecordDeployment(o) ==
    /\ Working(o, "record") /\ daemon
    /\ Accepted(Target(o))
    /\ record' = [mode |-> Target(o), train |-> Tag(o)]
    /\ Proceed(o)
    /\ UNCHANGED <<mode, docker, native, daemon, provisioned, images, ledger>>

\* A stop that failed somewhere keeps the record of what may still run.
ForgetDeployment(o) ==
    /\ Working(o, "forget")
    /\ record' = IF job[o].failed THEN record ELSE Missing
    /\ Proceed(o)
    /\ UNCHANGED <<mode, docker, native, daemon, provisioned, images, ledger>>

InUse(tag) == \E stack \in Stacks : docker[stack] \in {tag, "part"}
Containers == \E stack \in Stacks : docker[stack] # "down"

\* Only containers of CEDAR images are removed: the admin stack also runs others.
RemoveContainers ==
    /\ docker' = [stack \in Stacks |->
                    IF stack = "admin" /\ docker["admin"] # "down" THEN "part" ELSE "down"]
    /\ record' = Missing
    /\ UNCHANGED <<provisioned, images>>

RemoveImages ==
    /\ images' = [tag \in Tags |-> IF InUse(tag) THEN images[tag] ELSE "absent"]
    /\ UNCHANGED <<docker, record, provisioned>>

RemoveNetwork ==
    /\ ~Containers
    /\ provisioned' = provisioned \ {"network"}
    /\ UNCHANGED <<docker, record, images>>

RemoveVolumes ==
    /\ ~Containers
    /\ provisioned' = provisioned \ {"certificates"}
    /\ UNCHANGED <<docker, record, images>>

\* Some containers could not be removed: what may still run keeps its record.
RemoveContainersFails ==
    /\ \E kept \in SUBSET {stack \in Stacks : docker[stack] # "down"} : \E part \in SUBSET kept :
          docker' = [stack \in Stacks |->
                       IF stack \in part \/ (stack = "admin" /\ docker["admin"] # "down") THEN "part"
                       ELSE IF stack \in kept THEN docker[stack] ELSE "down"]
    /\ UNCHANGED <<record, provisioned, images>>

Remove(o) ==
    /\ Working(o, "remove") /\ daemon
    /\ \/ Target(o) = "containers" /\ RemoveContainers /\ Proceed(o)
       \/ Target(o) = "containers" /\ Containers /\ RemoveContainersFails /\ GoOnFailed(o)
       \/ Target(o) = "images" /\ RemoveImages /\ Proceed(o)
       \/ Target(o) = "network" /\ RemoveNetwork /\ Proceed(o)
       \/ Target(o) = "volumes" /\ RemoveVolumes /\ Proceed(o)
       \/ /\ Target(o) \in {"network", "volumes"} /\ Containers
          /\ GoOnFailed(o) /\ UNCHANGED <<docker, record, provisioned, images>>
    /\ UNCHANGED <<mode, native, daemon, ledger>>

\* The scripts take a daemon that does not answer for nothing left to remove:
\* they succeed, and the containers that still run lose their record.
RemoveUnasked(o) ==
    /\ Working(o, "remove") /\ ~daemon
    /\ record' = IF Target(o) = "containers" THEN Missing ELSE record
    /\ Proceed(o)
    /\ UNCHANGED <<mode, docker, native, daemon, provisioned, images, ledger>>

\* The network is recreated, which a network in use refuses.
Setup(o) ==
    /\ Working(o, "setup") /\ daemon
    /\ \/ /\ Target(o) = "network" /\ Containers /\ "network" \in provisioned
          /\ End(o) /\ UNCHANGED provisioned
       \/ /\ ~(Target(o) = "network" /\ Containers /\ "network" \in provisioned)
          /\ provisioned' = provisioned \union {Target(o)}
          /\ Proceed(o)
    /\ UNCHANGED <<mode, record, docker, native, daemon, images, ledger>>

\* start all starts the infrastructure only when a port is not served, and
\* waits for every port; started on a served port, Keycloak fails the command.
StartInfrastructure(o) ==
    /\ Working(o, "start infra")
    /\ \/ /\ Target(o) = "all" \/ native.infra # "up"
          /\ native' = [native EXCEPT !.infra =
                          IF Target(o) = "keycloak" /\ @ = "down" THEN "part" ELSE "up"]
          /\ Proceed(o)
       \/ /\ native.infra = "up" => Target(o) = "keycloak"
          /\ \E left \in (IF native.infra = "up" THEN {"up"} ELSE {native.infra, "part"}) :
                native' = [native EXCEPT !.infra = left]
          /\ End(o)
    /\ UNCHANGED <<mode, record, docker, daemon, provisioned, images, ledger>>

StopInfrastructure(o) ==
    /\ Working(o, "stop infra")
    /\ \/ /\ native' = [native EXCEPT !.infra =
                          IF Target(o) = "keycloak" /\ @ = "up" THEN "part" ELSE "down"]
          /\ Proceed(o)
       \/ /\ ~recovering /\ native.infra # "down"
          /\ native' = [native EXCEPT !.infra = "part"]
          /\ End(o)
    /\ UNCHANGED <<mode, record, docker, daemon, provisioned, images, ledger>>

Selected(target) == IF target = "all" THEN Groups ELSE {target}

\* The controller reports failure when any application did not come up.
StartApplications(o) ==
    /\ Working(o, "start apps") \/ Working(o, "restart apps")
    /\ \E came \in SUBSET Selected(Target(o)) :
          native' = [native EXCEPT !.apps =
             (IF Working(o, "restart apps") THEN @ \ Selected(Target(o)) ELSE @) \union came]
    /\ Proceed(o)
    /\ UNCHANGED <<mode, record, docker, daemon, provisioned, images, ledger>>

StopApplications(o) ==
    /\ Working(o, "stop apps")
    /\ \/ /\ native' = [native EXCEPT !.apps = @ \ Selected(Target(o))]
          /\ Proceed(o)
       \/ /\ ~recovering
          /\ \E went \in SUBSET Selected(Target(o)) : native' = [native EXCEPT !.apps = @ \ went]
          /\ End(o)
    /\ UNCHANGED <<mode, record, docker, daemon, provisioned, images, ledger>>

\* The mode is written under no lock: looked for once more, then replaced.
SelectMode(o) ==
    /\ Working(o, "select")
    /\ mode' = IF mode # Missing THEN mode
               ELSE [name |-> Target(o), profile |-> job[o].cmd.with = "profile"]
    /\ Proceed(o)
    /\ UNCHANGED <<record, docker, native, daemon, provisioned, images, ledger>>

\* Adopting a profile rewrites the mode that was read, whatever is there now.
AdoptProfile(o) ==
    /\ Working(o, "adopt")
    /\ mode' = [name |-> Target(o), profile |-> TRUE]
    /\ Proceed(o)
    /\ UNCHANGED <<record, docker, native, daemon, provisioned, images, ledger>>

UnlinkMode(o) ==
    /\ Working(o, "unlink")
    /\ mode' = Missing
    /\ Proceed(o)
    /\ UNCHANGED <<record, docker, native, daemon, provisioned, images, ledger>>

Step(o) ==
    \/ Prepare(o) \/ ComposeUp(o) \/ ComposeDown(o) \/ ComposeFails(o)
    \/ RecordDeployment(o) \/ ForgetDeployment(o) \/ Remove(o) \/ RemoveUnasked(o) \/ Setup(o)
    \/ StartInfrastructure(o) \/ StopInfrastructure(o)
    \/ StartApplications(o) \/ StopApplications(o)
    \/ SelectMode(o) \/ AdoptProfile(o) \/ UnlinkMode(o) \/ Refuse(o)

---------------------------------------------------------------------------
(* The surroundings.                                                       *)

Kill(o) ==
    /\ job[o] # Idle /\ ~recovering /\ faults < MaxFaults
    /\ End(o)
    /\ faults' = faults + 1
    /\ UNCHANGED <<hostVars, menu, typed, raced, blind, recovering>>

DaemonStops ==
    /\ daemon /\ ~recovering /\ faults < MaxFaults
    /\ daemon' = FALSE /\ faults' = faults + 1
    /\ UNCHANGED <<mode, record, docker, native, provisioned, images, job,
                   menu, typed, raced, blind, recovering>>

\* Containers come back under their restart policy, or do not.
DaemonReturns ==
    /\ ~daemon /\ daemon' = TRUE
    /\ docker' \in {docker, [stack \in Stacks |-> "down"]}
    /\ UNCHANGED <<mode, record, native, provisioned, images, job, ledger>>

Quiet == \A o \in Operators : job[o] = Idle

GiveUp ==
    /\ Quiet /\ ~recovering
    /\ recovering' = TRUE
    /\ UNCHANGED <<hostVars, job, menu, typed, faults, raced, blind>>

Command(surface, verb, target, with) ==
    [surface |-> surface, verb |-> verb, target |-> target, with |-> with]

Select(name) == Command("mode", "select", name, IF name = "docker" THEN "bare" ELSE "profile")

\* The commands that the refusals of ModeManager name: what a mode still serves
\* natively is stopped before it is cleared, and it is cleared to be left.
StopNative ==
    Command("native", "stop",
            IF mode.name = "hybrid" THEN "frontends"
            ELSE IF native.apps # {} THEN "all" ELSE "infra", "")

ClearMode == Command("mode", "clear", "", "plain")

NativesToStop ==
    CASE mode.name = "native" -> native.apps # {} \/ HostInfrastructureListens
      [] mode.name = "hybrid" -> "frontends" \in native.apps
      [] OTHER                -> FALSE

RecordedMode ==
    IF record # Missing THEN (IF record.mode = "full" THEN "docker" ELSE record.mode)
    ELSE IF RunningProjects = {} THEN "native"
    ELSE IF native.apps = {"frontends"} THEN "hybrid" ELSE "docker"

\* The next command an operator is told to give, until nothing is left.
Named ==
    IF mode = Missing THEN Select(RecordedMode)
    ELSE IF NativesToStop THEN StopNative
    ELSE IF mode.name # "native" /\ RunningProjects \ {"admin"} # {}
         THEN Command("docker", "stop", "all", "")
    ELSE IF mode.name # "native" /\ "admin" \in RunningProjects
         THEN Command("docker", "stop", "admin", "")
    ELSE ClearMode

\* A mode without a profile is told to be cleared, to clear it its natives are
\* told to be stopped, and without a profile they are not stopped.
Cornered == mode # Missing /\ ~mode.profile /\ NativesToStop

\* The way out that no refusal names: the mode is selected again, with a profile.
Adoption == Select(mode.name)

Remedy == IF Cornered THEN Adoption ELSE Named

Clean ==
    /\ mode = Missing /\ record = Missing /\ ~Containers
    /\ native = [infra |-> "down", apps |-> {}]

Recover ==
    /\ recovering /\ daemon /\ Quiet /\ ~Clean
    /\ Admitted(Remedy)
    /\ \E o \in Operators : job' = [job EXCEPT ![o] = JobOf(Remedy)]
    /\ UNCHANGED <<hostVars, ledger>>

---------------------------------------------------------------------------
(* Specification and properties.                                           *)

\* What the sub-commands and options of the CLI let an operator ask for.
WellFormed(c) ==
    /\ c.surface = "docker" =>
          /\ c.verb \in {"start", "stop", "remove", "setup"}
          /\ c.target \in Stacks \union DOMAIN Services
                          \union {"all", "containers", "images", "network", "volumes"}
    /\ c.surface = "native" /\ c.verb \in {"start", "stop"} =>
          c.target \in {"all", "backends", "infra", "keycloak"} \union Groups
    /\ c.surface = "native" /\ c.verb = "restart" => c.target \in {"all"} \union Groups
    /\ c.surface = "mode" /\ c.verb = "select" => c.target \in Modes

Serves(natives, stack) ==
    IF stack = "infrastructure" THEN natives.infra # "down" ELSE stack \in natives.apps

\* A host on which no tier is served twice.
Orderly(host) ==
    /\ host.mode = Missing \/ host.mode \in [name : Modes, profile : BOOLEAN]
    /\ host.record = Missing \/ host.record \in [mode : {"full", "hybrid"}, train : Tags]
    /\ host.docker \in [Stacks -> Tags \union {"down", "part"}]
    /\ host.native \in [infra : {"down", "part", "up"}, apps : SUBSET Groups]
    /\ \A stack \in Stacks \ {"admin"} :
          ~(host.docker[stack] # "down" /\ Serves(host.native, stack))
    /\ host.images \in [Tags -> {"absent", "right", "wrong"}]
    /\ host.provisioned \subseteq {"network", "certificates"}
    /\ \A c \in host.menu : WellFormed(c)
    /\ host.typed \in 0 .. MaxCommands /\ host.faults \in 0 .. MaxFaults

ASSUME HostsAssumption == \A host \in Hosts : Orderly(host)

\* What the modes keep apart: no native service under docker mode, no other than
\* the frontends under hybrid mode, no Docker frontends in a hybrid deployment.
Kept(theMode, theRecord, stacks, natives) ==
    LET none == natives.apps = {} /\ natives.infra = "down"
        fronts == natives.apps \subseteq {"frontends"} /\ natives.infra = "down"
    IN /\ theMode # Missing => /\ theMode.name = "docker" => none
                               /\ theMode.name = "hybrid" => fronts
       /\ theMode = Missing =>
             \/ none
             \/ theRecord = Missing /\ \A stack \in Stacks : stacks[stack] = "down"
             \/ /\ fronts /\ stacks["frontends"] = "down"
                /\ theRecord # Missing => theRecord.mode = "hybrid"
       /\ theRecord # Missing /\ theRecord.mode = "hybrid" => stacks["frontends"] = "down"

\* A host to start from is one that commands given in turn can leave.
ASSUME KeptAssumption ==
    \A host \in Hosts : Kept(host.mode, host.record, host.docker, host.native)

StartsOn(host) ==
    /\ mode = host.mode /\ record = host.record /\ docker = host.docker
    /\ native = host.native /\ images = host.images /\ menu = host.menu
    /\ provisioned = host.provisioned /\ daemon = TRUE
    /\ job = [o \in Operators |-> Idle]
    /\ typed = host.typed /\ faults = host.faults
    /\ raced = FALSE /\ blind = {} /\ recovering = FALSE

Verbs == {"prepare", "up", "down", "record", "forget", "remove", "setup", "start infra",
          "stop infra", "start apps", "stop apps", "restart apps", "select", "adopt", "unlink"}

\* Type correctness of the host and of the commands at work on it.
DeploymentTypeOK ==
    /\ mode # Missing => mode.name \in Modes /\ mode.profile \in BOOLEAN
    /\ record # Missing => record.mode \in {"full", "hybrid"} /\ record.train \in Tags
    /\ docker \in [Stacks -> Tags \union {"down", "part"}]
    /\ native \in [infra : {"down", "part", "up"}, apps : SUBSET Groups]
    /\ provisioned \subseteq {"network", "certificates"}
    /\ images \in [Tags -> {"absent", "right", "wrong"}]
    /\ \A o \in Operators :
          job[o] # Idle => /\ job[o].tag \in Tags
                           /\ job[o].todo # <<>>
                           /\ \A i \in DOMAIN job[o].todo : job[o].todo[i][1] \in Verbs
    /\ daemon \in BOOLEAN /\ raced \in BOOLEAN /\ recovering \in BOOLEAN
    /\ blind \subseteq {"command", "reactor"}
    /\ typed \in 0 .. MaxCommands /\ faults \in 0 .. MaxFaults

\* No tier of CEDAR is served by native processes and by containers at once:
\* the checks of ModeManager keep the two apart across commands, kills and a
\* daemon that went away, as long as every command was admitted while no other
\* was at work and the daemon was there to be asked.
NativeTier(stack) == Serves(native, stack)

TierServedOnce ==
    ~raced /\ blind = {} => \A stack \in Stacks \ {"admin"} :
        ~(docker[stack] # "down" /\ NativeTier(stack))

\* There is always a next remedy: as long as commands were given in turn and no
\* reactor deployed frontends unasked, what the refusals tell an operator to do on
\* a quiet host is not itself refused by ModeManager, with one exception: the native
\* services of a mode recorded without a profile can neither be stopped nor left,
\* for both refusals name the other command. There the adoption of a profile,
\* which neither names, is admitted.
RemedyIsAdmitted ==
    ~raced /\ "reactor" \notin blind /\ daemon /\ Quiet /\ ~Clean =>
        IF Cornered THEN ~Admitted(StopNative) /\ ~Admitted(ClearMode) /\ Admitted(Adoption)
        ELSE Admitted(Named)

\* Whatever was typed, killed or lost, the remedies the refusals name lead to a
\* host where nothing runs and nothing is recorded, for operators who know that a
\* mode without a profile can adopt one. Three ways leave no remedy, for both kinds
\* run and the mode is gone, so that no mode can be selected and without one nothing
\* can be stopped. The mode is cleared under commands that three operators gave at
\* once, a native start and a Docker start among them. Native services are started
\* while the daemon is down, another operator clears the mode under the start, and
\* the containers come back. Or the reactor deployed the native frontends then, which
\* asks no mode. ModeManager keeps the first two from happening when commands are
\* given in turn.
AlwaysRecoverable ==
    (recovering /\ "reactor" \notin blind
       /\ (raced => blind = {} /\ Cardinality(Operators) <= 2)) ~> Clean

===============================================================================
