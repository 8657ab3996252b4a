------------------------------ MODULE TrainGate ------------------------------
(***************************************************************************)
(* What a build train may carry: the whole-stack smoke (smoke_gate.py) run *)
(* against the native stack of Deployment, the record it leaves, and the   *)
(* dispatch of a train that only a record of the same source lets through  *)
(* (train_support/).  Meanwhile developers commit, pull and build, other   *)
(* operators restart services, and GitHub moves.                           *)
(*                                                                         *)
(* External: git and the builds as developers use them, GitHub, and the    *)
(* build-train workflow, which captures its source when it starts.  Every  *)
(* repository of a train is checked out: the gate refuses the others.      *)
(***************************************************************************)
EXTENDS Deployment

CONSTANTS
    Repos,          \* the repositories a train captures
    Served,         \* those whose microservice runs from a jar
    MaxMoves,       \* commits, pulls, builds and edits
    MaxSmokes,      \* smoke runs asked for
    MaxTrains       \* trains asked for, and the names they can be given

ASSUME TrainGateAssumption ==
    /\ Served \subseteq Repos /\ Served # {}
    /\ MaxMoves \in Nat /\ MaxSmokes \in Nat /\ MaxTrains \in Nat
    /\ \A host \in Hosts : /\ host.moves \in 0 .. MaxMoves /\ host.smokes \in 0 .. MaxSmokes
                           /\ host.trains \in 0 .. MaxTrains

VARIABLES
    clock,          \* time stamps: of commits, which it also names, and of jars
    develop, remote,\* per repository the head of local and of GitHub develop
    sync,           \* "same", "ahead", "behind" or "diverged", of the two
    tree,           \* what is checked out: "develop", with untracked files
                    \* ("untracked") or changed ones ("dirty"), or "elsewhere"
    jar, process,   \* per service [of, at]: the jar on disk, the jar that runs
    late,           \* the services whose jar is newer than the head and may not hold it
    localStack,     \* the holder of local-stack.lock
    smoke,          \* per operator Idle or the smoke run in progress
    reports, latest,\* the records by source heads, and the last one written
    train,          \* per operator Idle or the dispatch in progress
    sources,        \* per train the heads recorded on GitHub, or Missing
    runs,           \* the workflow runs on GitHub
    moves, smokes, trains   \* what was spent of the bounds

source == <<clock, develop, remote, sync, tree, jar, late>>
gate == <<localStack, smoke, reports, latest, smokes>>
line == <<train, sources, runs, trains>>
vars == <<deploymentVars, source, process, gate, line, moves>>

Nobody == "nobody"
Trees == {"develop", "untracked", "dirty", "elsewhere"}
Syncs == {"same", "ahead", "behind", "diverged"}
Names == 1 .. MaxTrains
Tiers == {"rest", "browser", "split", "search"}
Free(o) == job[o] = Idle /\ smoke[o] = Idle /\ train[o] = Idle
Offered(surface) == \E c \in menu : c.surface = surface

---------------------------------------------------------------------------
(* The source. *)

\* What was compared with the source before it moved is no longer `steady`.
Disturbed(item) ==
    IF item # Idle /\ "steady" \in DOMAIN item THEN [item EXCEPT !.steady = FALSE] ELSE item

Move ==
    /\ Offered("git") /\ ~recovering /\ moves < MaxMoves
    /\ moves' = moves + 1
    /\ smoke' = [o \in Operators |-> Disturbed(smoke[o])]
    /\ train' = [o \in Operators |-> Disturbed(train[o])]
    /\ runs' = [i \in DOMAIN runs |-> Disturbed(runs[i])]
    /\ UNCHANGED <<deploymentVars, process, localStack, reports, latest, smokes, sources, trains>>

Commit(r) ==
    /\ Move
    /\ tree[r] # "elsewhere"
    /\ clock' = clock + 1
    /\ develop' = [develop EXCEPT ![r] = clock']
    /\ sync' = [sync EXCEPT ![r] = IF @ \in {"same", "ahead"} THEN "ahead" ELSE "diverged"]
    /\ tree' = [tree EXCEPT ![r] = "develop"]
    /\ UNCHANGED <<remote, jar, late>>

Push(r) ==
    /\ Move
    /\ sync[r] = "ahead"
    /\ remote' = [remote EXCEPT ![r] = develop[r]]
    /\ sync' = [sync EXCEPT ![r] = "same"]
    /\ UNCHANGED <<clock, develop, tree, jar, late>>

ColleaguePushes(r) ==
    /\ Move
    /\ clock' = clock + 1
    /\ remote' = [remote EXCEPT ![r] = clock']
    /\ sync' = [sync EXCEPT ![r] = IF @ \in {"same", "behind"} THEN "behind" ELSE "diverged"]
    /\ UNCHANGED <<develop, tree, jar, late>>

\* A fast forward brings a commit that may be older than the jar; a merge is new.
Pull(r) ==
    /\ Move
    /\ tree[r] = "develop" /\ sync[r] \in {"behind", "diverged"}
    /\ IF sync[r] = "behind"
       THEN /\ develop' = [develop EXCEPT ![r] = remote[r]]
            /\ sync' = [sync EXCEPT ![r] = "same"]
            /\ late' = IF r \in Served /\ remote[r] <= jar[r].at
                       THEN late \union {r} ELSE late
            /\ UNCHANGED clock
       ELSE /\ clock' = clock + 1
            /\ develop' = [develop EXCEPT ![r] = clock']
            /\ sync' = [sync EXCEPT ![r] = "ahead"]
            /\ UNCHANGED late
    /\ UNCHANGED <<remote, tree, jar>>

Edit(r) ==
    /\ Move
    /\ \E now \in (IF tree[r] = "develop" THEN Trees \ {"develop"} ELSE {"develop"}) :
          tree' = [tree EXCEPT ![r] = now]
    /\ UNCHANGED <<clock, develop, remote, sync, jar, late>>

\* A build compiles the working tree, whatever that is; 0 is no commit.
Build(r) ==
    /\ Move
    /\ r \in Served
    /\ clock' = clock + 1
    /\ jar' = [jar EXCEPT ![r] = [of |-> IF tree[r] = "develop" THEN develop[r] ELSE 0,
                                  at |-> clock']]
    /\ late' = IF tree[r] = "develop" THEN late \ {r} ELSE late \union {r}
    /\ UNCHANGED <<develop, remote, sync, tree>>

SourceMoves ==
    \E r \in Repos : \/ Commit(r) \/ Push(r) \/ ColleaguePushes(r)
                     \/ Pull(r) \/ Edit(r) \/ Build(r)

\* A microservice that comes up runs the jar of that moment.
Serve(restarted) ==
    process' = [r \in Served |->
        IF "microservices" \notin native'.apps THEN Missing
        ELSE IF restarted \/ process[r] = Missing THEN jar[r] ELSE process[r]]

StackStep(o) ==
    /\ Step(o)
    /\ Serve(Working(o, "restart apps") /\ "microservices" \in Selected(Target(o)))
    /\ UNCHANGED <<source, gate, line, moves>>

---------------------------------------------------------------------------
(* The whole-stack smoke. *)

\* Mutant: a jar is not compared with the head it is taken to hold.
SourceCurrencyUnasked(r) == TRUE

SourceCurrency(r) == jar[r].at >= develop[r]

\* stack_findings: every application healthy and served natively, no process
\* older than its jar, no jar older than the head of its repository, as far as
\* git answers for the head.
StackCanStand(read) ==
    /\ native.apps = Groups
    /\ \A r \in Served : process[r] = jar[r]
    /\ \A r \in Served \intersect read : SourceCurrency(r)

InSmoke(o, at) == smoke[o] # Idle /\ smoke[o].at = at

SmokeGoes(o, run) == smoke' = [smoke EXCEPT ![o] = run]

\* Ending releases the lock, also when the process dies.
SmokeEnds(o) ==
    /\ SmokeGoes(o, Idle)
    /\ localStack' = IF localStack = o THEN Nobody ELSE localStack

\* `test e2e` runs the smoke; `build frontends` deploys the frontends first.
AskSmoke(o) ==
    /\ Free(o) /\ smokes < MaxSmokes /\ ~recovering
    /\ \E kind \in {"test", "build"} :
          /\ Offered(kind) /\ Bootstrap(kind, "run")
          /\ SmokeGoes(o, [at |-> "wait", deploys |-> kind = "build"])
    /\ smokes' = smokes + 1
    /\ UNCHANGED <<deploymentVars, source, process, localStack, reports, latest, line, moves>>

HoldStack(o) ==
    /\ InSmoke(o, "wait") /\ localStack = Nobody
    /\ localStack' = o
    /\ SmokeGoes(o, [at |-> IF smoke[o].deploys THEN "deploy" ELSE "judge"])
    /\ UNCHANGED <<deploymentVars, source, process, reports, latest, smokes, line, moves>>

\* The reactor restarts the native frontends, asking neither for the mode nor
\* what Docker runs, as a native command would be asked.
DeployFrontends(o) ==
    /\ InSmoke(o, "deploy")
    /\ \E came \in SUBSET {"frontends"} :
          /\ native' = [native EXCEPT !.apps = (@ \ {"frontends"}) \union came]
          /\ IF came = {} THEN SmokeEnds(o)
             ELSE SmokeGoes(o, [at |-> "judge"]) /\ UNCHANGED localStack
    /\ blind' = IF daemon /\ Bootstrap("native", "restart") THEN blind ELSE blind \union {"reactor"}
    /\ raced' = (raced \/ ~Quiet)
    /\ UNCHANGED <<mode, record, docker, daemon, provisioned, images, job, menu, typed, faults,
                   recovering, source, process, reports, latest, smokes, line, moves>>

\* A stack that is only warming up is judged again, for five minutes.  An old jar
\* that was not compared with its head is without it, as a late one may be.
JudgeStack(o) ==
    /\ InSmoke(o, "judge")
    /\ \E unread \in SUBSET Served :
          /\ StackCanStand(Repos \ unread)
          /\ SmokeGoes(o, [at |-> "heads", steady |-> TRUE,
                           late |-> late \union {r \in unread : ~SourceCurrency(r)}])
    /\ UNCHANGED <<deploymentVars, source, process, localStack, reports, latest, smokes, line, moves>>

DevelopIsCheckedOut(read) == \A r \in read : tree[r] # "elsewhere"

\* A working tree of which git does not answer counts as clean and as develop.
RecordHeads(o) ==
    /\ InSmoke(o, "heads")
    /\ \E unread \in SUBSET Repos :
          /\ DevelopIsCheckedOut(Repos \ unread)
          /\ SmokeGoes(o, [at |-> "run", heads |-> develop,
                           dirty |-> {r \in Repos \ unread : tree[r] # "develop"},
                           steady |-> smoke[o].steady, late |-> smoke[o].late])
    /\ UNCHANGED <<deploymentVars, source, process, localStack, reports, latest, smokes, line, moves>>

RefuseSmoke(o) ==
    /\ \E at \in {"judge", "heads"} : InSmoke(o, at)
    /\ SmokeEnds(o)
    /\ UNCHANGED <<deploymentVars, source, process, reports, latest, smokes, line, moves>>

\* The REST and search tiers must also leave complete evidence of their checks.
Verdict(failed, unproven) ==
    IF failed = {} /\ unproven \intersect {"rest", "search"} = {} THEN "pass" ELSE "fail"

RunTiers(o) ==
    /\ InSmoke(o, "run")
    /\ \E failed \in SUBSET Tiers, unproven \in SUBSET {"rest", "search"} :
          /\ Cardinality(failed) + Cardinality(unproven) <= 1
          /\ native.apps = Groups \/ failed # {}
          /\ SmokeGoes(o, [at |-> "record",
                report |-> [heads |-> smoke[o].heads, dirty |-> smoke[o].dirty,
                            verdict |-> Verdict(failed, unproven),
                            ran |-> process, late |-> smoke[o].late,
                            still |-> smoke[o].steady]])
    /\ UNCHANGED <<deploymentVars, source, process, localStack, reports, latest, smokes, line, moves>>

\* One file per set of heads, and a copy of the last.
Filed(report) == {other \in reports : other.heads # report.heads} \union {report}

RecordRun(o) ==
    /\ InSmoke(o, "record")
    /\ reports' = Filed(smoke[o].report)
    /\ SmokeGoes(o, [at |-> "latest", report |-> smoke[o].report])
    /\ UNCHANGED <<deploymentVars, source, process, localStack, latest, smokes, line, moves>>

RecordLatest(o) ==
    /\ InSmoke(o, "latest")
    /\ latest' = smoke[o].report
    /\ SmokeEnds(o)
    /\ UNCHANGED <<deploymentVars, source, process, reports, smokes, line, moves>>

Torn(report) == [report EXCEPT !.verdict = "unreadable"]

\* Both files are written in place: a process killed meanwhile tears one.
KillSmoke(o) ==
    /\ smoke[o] # Idle
    /\ SmokeEnds(o)
    /\ reports' \in {reports} \union
          (IF InSmoke(o, "record") THEN {Filed(Torn(smoke[o].report))} ELSE {})
    /\ latest' \in {latest} \union
          (IF InSmoke(o, "latest") THEN {Torn(smoke[o].report)} ELSE {})
    /\ UNCHANGED <<deploymentVars, source, process, smokes, line, moves>>

Smoke(o) ==
    \/ AskSmoke(o) \/ HoldStack(o) \/ DeployFrontends(o) \/ JudgeStack(o) \/ RecordHeads(o)
    \/ RefuseSmoke(o) \/ RunTiers(o) \/ RecordRun(o) \/ RecordLatest(o) \/ KillSmoke(o)

---------------------------------------------------------------------------
(* The dispatch of a train. *)

Evaluate(report, expected) ==
    /\ report.heads = expected
    /\ report.dirty = {}
    /\ report.verdict = "pass"

\* The run recorded for exactly these heads, else the last one.
ReportFor(expected) ==
    IF \E report \in reports : report.heads = expected
    THEN CHOOSE report \in reports : report.heads = expected
    ELSE latest

InTrain(o, at) == train[o] # Idle /\ train[o].at = at

TrainGoes(o, dispatch) == train' = [train EXCEPT ![o] = dispatch]

ActiveRuns == {i \in DOMAIN runs : runs[i].state # "ended"}
Given ==
    {train[o].id : o \in {p \in Operators : train[p] # Idle}}
        \union {runs[i].id : i \in ActiveRuns} \union {id \in Names : sources[id] # Missing}

\* A new train is named after the minute, so two operators can get one name.
AskTrain(o) ==
    /\ Free(o) /\ trains < MaxTrains /\ ~recovering
    /\ Offered("publish") /\ Bootstrap("publish", "run")
    /\ \E id \in {trains + 1} \union Given :
          TrainGoes(o, [at |-> "local", id |-> id, resume |-> sources[id] # Missing])
    /\ trains' = trains + 1
    /\ UNCHANGED <<deploymentVars, source, process, gate, sources, runs, moves>>

\* Work GitHub has not got refuses the train before GitHub is asked anything.
\* Where git does not count the commits, there are none.
OpenWork(counted) ==
    {r \in Repos : tree[r] = "dirty" \/ (r \in counted /\ sync[r] \in {"ahead", "diverged"})}

LocalPhase(o) ==
    /\ InTrain(o, "local")
    /\ \E counted \in SUBSET Repos : OpenWork(counted) = {}
    /\ TrainGoes(o, [train[o] EXCEPT !.at = "slot"])
    /\ UNCHANGED <<deploymentVars, source, process, gate, sources, runs, trains, moves>>

IdleSlot(o) ==
    /\ InTrain(o, "slot")
    /\ ActiveRuns = {}
    /\ TrainGoes(o, [train[o] EXCEPT !.at = "align"])
    /\ UNCHANGED <<deploymentVars, source, process, gate, sources, runs, trains, moves>>

\* A repository whose checkout git does not name is not compared with GitHub.
SourceAlignment(o) ==
    /\ InTrain(o, "align")
    /\ \E unread \in SUBSET Repos :
          /\ DevelopIsCheckedOut(Repos \ unread)
          /\ \A r \in Repos \ unread : develop[r] = remote[r]
          /\ TrainGoes(o, [at |-> "gate", id |-> train[o].id, resume |-> train[o].resume,
                           steady |-> develop = remote])
    /\ UNCHANGED <<deploymentVars, source, process, gate, sources, runs, trains, moves>>

\* A resumed train has its recorded heads, a new one those of local develop; what
\* else is checked out refuses it like another check, when git names that.
SmokeGate(o) ==
    /\ InTrain(o, "gate")
    /\ LET expected == IF train[o].resume THEN sources[train[o].id] ELSE develop
       IN /\ ReportFor(expected) # Missing
          /\ Evaluate(ReportFor(expected), expected)
          /\ TrainGoes(o, [at |-> "dispatch", id |-> train[o].id, resume |-> train[o].resume,
                           steady |-> train[o].steady, evidence |-> ReportFor(expected)])
    /\ UNCHANGED <<deploymentVars, source, process, gate, sources, runs, trains, moves>>

\* The other checks (components, npm, packaging, GitHub, CI, contracts, Nexus)
\* change nothing here; each may refuse.
RefuseTrain(o) ==
    /\ train[o] # Idle
    /\ TrainGoes(o, Idle)
    /\ UNCHANGED <<deploymentVars, source, process, gate, sources, runs, trains, moves>>

Dispatch(o) ==
    /\ InTrain(o, "dispatch")
    /\ runs' = Append(runs, [state |-> "queued", id |-> train[o].id, resume |-> train[o].resume,
                             steady |-> train[o].steady, evidence |-> train[o].evidence])
    /\ TrainGoes(o, Idle)
    /\ UNCHANGED <<deploymentVars, source, process, gate, sources, trains, moves>>

Train(o) ==
    \/ AskTrain(o) \/ LocalPhase(o) \/ IdleSlot(o) \/ SourceAlignment(o) \/ SmokeGate(o)
    \/ Dispatch(o) \/ RefuseTrain(o)

\* The workflow records the heads of GitHub develop, once per train; `aligned` says
\* that no source moved since the dispatch compared the local heads with them.
Capture(i) ==
    /\ runs[i].state = "queued"
    /\ runs[i].resume \/ sources[runs[i].id] = Missing
    /\ sources' = IF runs[i].resume THEN sources ELSE [sources EXCEPT ![runs[i].id] = remote]
    /\ runs' = [runs EXCEPT ![i] = [state |-> "captured", id |-> runs[i].id, evidence |-> runs[i].evidence,
                    captured |-> sources'[runs[i].id],
                    aligned |-> runs[i].resume \/ runs[i].steady]]
    /\ UNCHANGED <<deploymentVars, source, process, gate, train, trains, moves>>

RunEnds(i) ==
    /\ runs[i].state # "ended"
    /\ runs' = [runs EXCEPT ![i] = [state |-> "ended"]]
    /\ UNCHANGED <<deploymentVars, source, process, gate, train, sources, trains, moves>>

Workflow == \E i \in DOMAIN runs : Capture(i) \/ RunEnds(i)

---------------------------------------------------------------------------
(* Specification and properties. *)

Init ==
    /\ \E host \in Hosts :
          StartsOn(host) /\ moves = host.moves /\ smokes = host.smokes /\ trains = host.trains
    /\ clock = 2
    /\ develop = [r \in Repos |-> 1] /\ remote = develop
    /\ sync = [r \in Repos |-> "same"] /\ tree = [r \in Repos |-> "develop"]
    /\ jar = [r \in Served |-> [of |-> 1, at |-> 2]]
    /\ process = [r \in Served |-> IF "microservices" \in native.apps THEN jar[r] ELSE Missing]
    /\ late = {}
    /\ localStack = Nobody /\ smoke = [o \in Operators |-> Idle]
    /\ reports = {} /\ latest = Missing
    /\ train = [o \in Operators |-> Idle]
    /\ sources = [id \in Names |-> Missing] /\ runs = <<>>

AtRest == \A o \in Operators : smoke[o] = Idle /\ train[o] = Idle

\* The commands of Deployment, of which only a step changes what is served.
HostCommand(o) ==
    /\ (Free(o) /\ \E c \in menu : Type(o, c)) \/ Kill(o)
    /\ UNCHANGED <<source, process, gate, line, moves>>

HostMoves ==
    /\ DaemonStops \/ DaemonReturns \/ (GiveUp /\ AtRest) \/ Recover
    /\ UNCHANGED <<source, process, gate, line, moves>>

Next ==
    \/ \E o \in Operators : HostCommand(o) \/ StackStep(o) \/ Smoke(o) \/ Train(o)
    \/ HostMoves \/ SourceMoves \/ Workflow

\* Once they recover, the operators go on until the host is clean, and the daemon
\* is brought back.
GateFairness ==
    WF_vars(recovering /\ (\/ (DaemonReturns \/ Recover) /\ UNCHANGED <<source, process, gate, line, moves>>
                           \/ \E o \in Operators : StackStep(o)))

Spec == Init /\ [][Next]_vars /\ GateFairness

Jar == [of : Nat, at : Nat]
Verdicts == {"pass", "fail", "unreadable"}
ReportOK(report) ==
    /\ DOMAIN report.heads = Repos /\ report.dirty \subseteq Repos /\ report.late \subseteq Served
    /\ report.verdict \in Verdicts /\ report.still \in BOOLEAN

\* Type correctness of the host, the source, the records and the trains.
TypeOK ==
    /\ DeploymentTypeOK
    /\ develop \in [Repos -> 0 .. clock] /\ remote \in [Repos -> 0 .. clock]
    /\ sync \in [Repos -> Syncs] /\ tree \in [Repos -> Trees]
    /\ \A r \in Served : jar[r] \in Jar /\ (process[r] = Missing \/ process[r] \in Jar)
    /\ late \subseteq Served
    /\ localStack \in Operators \union {Nobody}
    /\ localStack # Nobody => smoke[localStack] # Idle
    /\ \A report \in reports : ReportOK(report)
    /\ latest # Missing => ReportOK(latest)
    /\ \A id \in Names : sources[id] # Missing => sources[id] \in [Repos -> 0 .. clock]
    /\ moves \in 0 .. MaxMoves /\ smokes \in 0 .. MaxSmokes /\ trains \in 0 .. MaxTrains

\* A train carries only source that a whole-stack smoke passed: every captured
\* head is the one the record names, the record names nothing uncommitted, and
\* every service the tiers talked to ran a jar built from that head. It takes that
\* no source moved between the comparison with GitHub and the capture, or during
\* the smoke, that no jar newer than its head was built without it, and that git
\* answered for every repository: those are the windows that smoke_gate.py,
\* survey.py and dispatch.py leave open.
TrainIsCovered ==
    \A i \in DOMAIN runs :
        runs[i].state = "captured" /\ runs[i].aligned =>
            LET evidence == runs[i].evidence
            IN /\ evidence.heads = runs[i].captured
               /\ evidence.verdict = "pass" /\ evidence.dirty = {}
               /\ evidence.still /\ evidence.late = {} =>
                     \A r \in Served : evidence.ran[r].of = runs[i].captured[r]

===============================================================================
