------------------------------ MODULE MCTrainGate ------------------------------
(* The hosts to start from, each with the commands that are worth typing there. *)
EXTENDS TrainGate

Down == [stack \in Stacks |-> "down"]
Full(tag) == [stack \in Stacks |-> IF stack = "admin" THEN "down" ELSE tag]
Backend(tag) == [stack \in Stacks |-> IF stack \in {"admin", "frontends"} THEN "down" ELSE tag]
NoNatives == [infra |-> "down", apps |-> {}]
AllNative == [infra |-> "up", apps |-> Groups]

\* The image named t1 here is not the one of the train, the one named t2 is absent.
Stock == [tag \in Tags |-> IF tag = Local THEN "right" ELSE IF tag = "t1" THEN "wrong" ELSE "absent"]

D(verb, target, with) == Command("docker", verb, target, with)
N(verb, target) == Command("native", verb, target, "")
Clearing == {Command("mode", "clear", "", with) : with \in {"plain", "force"}}
ModeCommands == {Select(name) : name \in Modes} \union Clearing
Dev(surface) == Command(surface, "", "", "")

Fresh == [mode |-> Missing, record |-> Missing, docker |-> Down, native |-> NoNatives,
          images |-> Stock, provisioned |-> {"network", "certificates"},
          menu |-> ModeCommands \union
             {N("start", "all"), N("stop", "all"), D("start", "all", "default"), D("stop", "all", "")},
          typed |-> 0, faults |-> 0, moves |-> 0, smokes |-> 0, trains |-> 0]

HybridHost == [Fresh EXCEPT
    !.mode = [name |-> "hybrid", profile |-> FALSE],
    !.record = [mode |-> "hybrid", train |-> "t1"],
    !.docker = Backend("t1"),
    !.native.apps = {"frontends"},
    !.menu = ModeCommands \union
       {N("start", "frontends"), N("stop", "frontends"), N("restart", "frontends"),
        D("start", "all", "default"), D("start", "microservice", "t2"),
        D("stop", "microservices", ""), D("start", "frontends", "default")}]

DockerHost == [Fresh EXCEPT
    !.mode = [name |-> "docker", profile |-> FALSE],
    !.record = [mode |-> "full", train |-> "t1"],
    !.docker = Full("t1"),
    !.menu = Clearing \union
       {Select("native"), N("start", "backends"), D("stop", "keycloak", ""),
        D("start", "admin", "default"), D("start", "keycloak", "default"),
        D("start", "microservices", Local), D("remove", "all", ""),
        D("remove", "network", ""), D("setup", "all", "")}]

NativeHost == [Fresh EXCEPT
    !.mode = [name |-> "native", profile |-> FALSE],
    !.native = AllNative,
    !.provisioned = {},
    !.menu = ModeCommands \union
       {N("stop", "backends"), N("start", "backends"), N("stop", "keycloak"), N("start", "infra"),
        N("restart", "all"), N("stop", "all"), D("stop", "all", "")}]

\* Where developers test and dispatch, and where a reactor runs although the
\* recorded mode is docker.
GateHost == [NativeHost EXCEPT
    !.mode = [name |-> "native", profile |-> TRUE],
    !.typed = MaxCommands - 1, !.faults = MaxFaults, !.trains = MaxTrains - 1,
    !.menu = {N("restart", "microservices"), Dev("git"), Dev("test"), Dev("publish")}]

ReactorHost == [DockerHost EXCEPT
    !.menu = Clearing \union {Select("native"), D("stop", "all", ""), D("start", "all", "default"), Dev("build")}]

\* Where a second dispatch meets the first: under its name, or to resume it.
ResumeHost == [GateHost EXCEPT
    !.typed = MaxCommands, !.moves = MaxMoves - 2, !.trains = 0,
    !.menu = @ \ {N("restart", "microservices")}]

MCHosts == {Fresh, HybridHost, DockerHost, NativeHost, GateHost, ResumeHost, ReactorHost}
===============================================================================
