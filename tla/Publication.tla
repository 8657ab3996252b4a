------------------------------ MODULE Publication ------------------------------
(***************************************************************************)
(* What a release does once its refs are prepared: deploy the snapshots,   *)
(* integrate the remotes (RemoteIntegration), publish the artifacts, see   *)
(* the CI of the integrated commits pass, and read everything back.        *)
(* release_support/publication.py, development.py, acceptance.py and the   *)
(* GitHub probe github_ci.py.  A registry shows a package some time after  *)
(* it was stored; an upload or a dispatch may take effect although its     *)
(* answer is lost, also after the controller is gone.                      *)
(***************************************************************************)
EXTENDS Integers, FiniteSets, Sequences

CONSTANTS
  Repos,            \* the repositories with an integrated commit
  Aggregators,      \* AGGREGATORS: their CI is dispatched, and builds siblings
  DevelopmentOnly,  \* develop alone was advanced: not gated, free to move
  Workflowless,     \* no workflow in the prepared source
  Files,            \* the paths of the Maven release, in upload order
  MaxRuns, MaxOthers, MaxFaults   \* bounds: runs of a commit, acts of others, faults

ASSUME ReposAssumption ==
  /\ Aggregators \subseteq Repos /\ DevelopmentOnly \subseteq Repos /\ Workflowless \subseteq Repos
  /\ Aggregators \cap (DevelopmentOnly \cup Workflowless) = {}
\* There is a Maven release, at places of its own.
ASSUME FilesAssumption ==
  /\ Files \in Seq({Files[n] : n \in DOMAIN Files}) /\ Files # <<>>
  /\ \A n \in DOMAIN Files : Files[n] \notin {"snapshot", "train", "retained"}
ASSUME BoundsAssumption == MaxRuns \in Nat \ {0} /\ MaxOthers \in Nat /\ MaxFaults \in Nat

VARIABLES
  phase,      \* the stage that the ledger's phase leads to
  completed,  \* the publication tasks the ledger records
  requested,  \* the aggregators whose dispatch intent the ledger holds
  evidence,   \* the run that answered for each repository, and with what result
  pc, mem,    \* the controller and its locals
  registry,   \* what is stored at each place
  visible,    \* the places that the search index or the npm metadata show
  inflight,   \* uploads that may still be stored
  asked,      \* dispatches that may still start a run
  remote,     \* whether each develop still is the integrated commit
  runs,       \* GitHub's runs at each integrated commit, oldest first
  accepted,   \* the red run an operator accepted, 0 for none
  restored,   \* history: a gated develop was put back while CI was being verified
  others, faults

ledger == <<phase, completed, requested, evidence>>
control == <<pc, mem>>
nexus == <<registry, visible, inflight>>
github == <<asked, remote, runs>>
bounds == <<others, faults>>
vars == <<ledger, control, nexus, github, accepted, restored, bounds>>

----------------------------------------------------------------------------
(* The plan. *)

Snapshots == {"snapshot"}
FilePlaces == {Files[n] : n \in DOMAIN Files}
Packages == {"train", "retained"}
Places == Snapshots \cup FilePlaces \cup Packages

\* tasks and snapshot_tasks, in order; what each one uploads, and what the
\* inventory of each must show.
SnapshotTasks == <<"deploy", "snapshotsIndexed">>
ReleaseTasks == <<"maven", "filesIndexed", "npm">>
AllTasks == {"deploy", "snapshotsIndexed", "maven", "filesIndexed", "npm"}
Tasks == IF phase = "snapshots" THEN SnapshotTasks ELSE ReleaseTasks
Uploads(task) == CASE task = "deploy" -> <<"snapshot">>
                   [] task = "maven" -> Files
                   [] task = "npm" -> <<"train", "retained">>
                   [] OTHER -> <<>>
Inventory(task) == CASE task = "snapshotsIndexed" -> Snapshots
                     [] task = "filesIndexed" -> FilePlaces
                     [] OTHER -> {}

\* The repositories whose refs must stay, and those whose CI must answer.
Gated == Repos \ DevelopmentOnly
Judged == Gated \ Workflowless

Stages == <<"snapshots", "remotes", "artifacts", "development", "acceptance", "accepted">>
NextPhase == Stages[1 + CHOOSE n \in 1..5 : Stages[n] = phase]

\* A run: created in or after the second of the request; the event; the result;
\* and (history) whether every release repository was at its integrated commit
\* while it ran.
Run(late, event, result, pure) == [late |-> late, event |-> event, result |-> result, pure |-> pure]
Runs == [late: BOOLEAN, event: {"push", "dispatch", "pull_request"},
         result: {"running", "success", "failure", "cancelled"}, pure: BOOLEAN]

NoAnswer == [run |-> 0, result |-> "none"]
Fresh == [task |-> 1, upload |-> 1, answer |-> "none", repo |-> "none",
          complete |-> {}, looked |-> {}, pending |-> FALSE, failed |-> FALSE]

Init ==
  /\ phase = "snapshots"
  /\ completed = {} /\ requested = {} /\ evidence = [r \in Repos |-> NoAnswer]
  /\ pc = "idle" /\ mem = Fresh
  /\ registry = [p \in Places |-> "none"] /\ visible = {} /\ inflight = {}
  /\ asked = {}
  /\ remote = [r \in Repos |-> TRUE]
  /\ runs = [r \in Repos |-> <<>>]
  /\ accepted = [r \in Repos |-> 0] /\ restored = FALSE
  /\ others = 0 /\ faults = 0

----------------------------------------------------------------------------
(* Reading back: what a resumed stage, the development verification and the *)
(* acceptance all do first.                                                 *)

Goto(place) == pc' = place /\ mem' = mem
Fail == pc' = "idle" /\ mem' = Fresh

\* release start or resume reaches the stage again.
Begin ==
  /\ pc = "idle" /\ phase # "accepted"
  /\ pc' = CASE phase = "snapshots" -> "records"
             [] phase = "remotes" -> "integrate"
             [] OTHER -> "refs"
  /\ mem' = Fresh
  /\ UNCHANGED <<ledger, nexus, github, accepted, restored, bounds>>

\* The remotes are pushed (RemoteIntegration), and GitHub starts the CI of
\* the pushes.  An aggregator may have been dispatched at its commit before
\* its siblings had theirs.
Integrate ==
  /\ pc = "integrate"
  /\ \E early \in SUBSET Aggregators :
       runs' = [r \in Repos |->
                  IF r \in early THEN <<Run(FALSE, "dispatch", "success", FALSE)>>
                  ELSE IF r \notin Judged \/ r \in Aggregators THEN <<>>
                  ELSE <<Run(FALSE, "push", "running", TRUE)>>]
  /\ phase' = NextPhase
  /\ Fail
  /\ UNCHANGED <<completed, requested, evidence, nexus, asked, remote, accepted, restored, bounds>>

\* ReleaseRemoteIntegrator.verify_record of every repository: the refs of a
\* release are exact, a develop that was only advanced contains its commit.
RemotesHold == \A r \in Gated : remote[r]

ReadRemotes ==
  /\ pc = "refs"
  /\ IF RemotesHold THEN Goto("records") ELSE Fail
  /\ UNCHANGED <<ledger, nexus, github, accepted, restored, bounds>>

\* verify_record of a publication task, against the registry itself.
Shows(p) == p \in visible /\ registry[p] = "ours"
Holds(task) == CASE task = "maven" -> \A p \in FilePlaces : registry[p] = "ours"
                 [] task = "npm" -> \A p \in Packages : Shows(p)
                 [] OTHER -> Inventory(task) \subseteq visible

ReadRecords ==
  /\ pc = "records"
  /\ IF \A task \in completed : Holds(task)
     THEN Goto(CASE phase = "development" -> "intents"
                 [] phase = "acceptance" -> "accept"
                 [] OTHER -> "task")
     ELSE Fail
  /\ UNCHANGED <<ledger, nexus, github, accepted, restored, bounds>>

----------------------------------------------------------------------------
(* The publication of the tasks of a stage, in order. *)

Task == Tasks[mem.task]
Upload == Uploads(Task)[mem.upload]
AtUpload(place) ==
  pc = place /\ mem.task <= Len(Tasks) /\ Task \notin completed /\ mem.upload <= Len(Uploads(Task))

NextUpload == pc' = "task" /\ mem' = [mem EXCEPT !.upload = @ + 1]

SkipRecorded ==
  /\ pc = "task" /\ mem.task <= Len(Tasks) /\ Task \in completed
  /\ mem' = [mem EXCEPT !.task = @ + 1]
  /\ UNCHANGED <<ledger, pc, nexus, github, accepted, restored, bounds>>

\* Mutant: npm is not asked what it has.
CheckFilesOnly ==
  /\ AtUpload("task")
  /\ CASE Task = "maven" /\ registry[Upload] = "ours" -> NextUpload
       [] Task = "maven" /\ registry[Upload] = "other" -> Fail
       [] OTHER -> Goto("put")
  /\ UNCHANGED <<ledger, nexus, github, accepted, restored, bounds>>

\* What is there already?  mvn deploy does not ask; a Maven file is read and
\* compared; an npm version that the metadata name is not published again.
Check ==
  /\ AtUpload("task")
  /\ CASE Task = "deploy" -> Goto("put")
       [] Task = "maven" -> (CASE registry[Upload] = "none" -> Goto("put")
                               [] registry[Upload] = "ours" -> NextUpload
                               [] OTHER -> Fail)
       [] Task = "npm" -> Goto(IF Upload \in visible THEN "confirm" ELSE "put")
  /\ UNCHANGED <<ledger, nexus, github, accepted, restored, bounds>>

\* _upload, npm publish, mvn deploy: the request leaves.
Put ==
  /\ AtUpload("put")
  /\ inflight' = inflight \cup {<<Upload, "live">>}
  /\ mem' = [mem EXCEPT !.answer = "none"]
  /\ pc' = "answer"
  /\ UNCHANGED <<ledger, registry, visible, github, accepted, restored, bounds>>

\* The answer: stored, or refused because the place is taken.  Only npm is
\* read back; a PUT that succeeded is believed.
Answer ==
  /\ AtUpload("answer") /\ mem.answer # "none"
  /\ IF mem.answer = "refused" THEN Fail
     ELSE (IF Task = "npm" THEN Goto("confirm") ELSE NextUpload)
  /\ UNCHANGED <<ledger, nexus, github, accepted, restored, bounds>>

\* Mutant: the read-back asks only whether the version is there.
ConfirmByName ==
  /\ AtUpload("confirm")
  /\ IF Upload \in visible THEN NextUpload ELSE Fail
  /\ UNCHANGED <<ledger, nexus, github, accepted, restored, bounds>>

\* _verify_npm_package: wait until the metadata show the version, within
\* twelve attempts, and compare it with what was packed.
Confirm ==
  /\ AtUpload("confirm")
  /\ IF Shows(Upload) THEN NextUpload ELSE Fail
  /\ UNCHANGED <<ledger, nexus, github, accepted, restored, bounds>>

\* Every upload is through; an inventory waits for the search index.  The
\* task is recorded.
Record ==
  /\ pc = "task" /\ mem.task <= Len(Tasks) /\ Task \notin completed
  /\ mem.upload > Len(Uploads(Task))
  /\ IF Inventory(Task) \subseteq visible
     THEN /\ completed' = completed \cup {Task}
          /\ mem' = [mem EXCEPT !.task = @ + 1, !.upload = 1]
          /\ pc' = pc
     ELSE Fail /\ completed' = completed
  /\ UNCHANGED <<phase, requested, evidence, nexus, github, accepted, restored, bounds>>

StageDone ==
  /\ pc = "task" /\ mem.task > Len(Tasks)
  /\ phase' = NextPhase
  /\ Fail
  /\ UNCHANGED <<completed, requested, evidence, nexus, github, accepted, restored, bounds>>

----------------------------------------------------------------------------
(* DevelopmentVerifier.run. *)

Undispatched == {r \in Aggregators : r \notin requested}

\* Mutant: the intent is kept in memory only.
IntendUnsaved(r) ==
  /\ pc = "intents" /\ r \in Undispatched
  /\ pc' = "dispatch" /\ mem' = [mem EXCEPT !.repo = r]
  /\ UNCHANGED <<ledger, nexus, github, accepted, restored, bounds>>

\* The intent is durable before the dispatch ...
Intend(r) ==
  /\ pc = "intents" /\ r \in Undispatched
  /\ requested' = requested \cup {r}
  /\ pc' = "dispatch" /\ mem' = [mem EXCEPT !.repo = r]
  /\ UNCHANGED <<phase, completed, evidence, nexus, github, accepted, restored, bounds>>

\* ... which gh workflow run may have made although it reports a failure.
Dispatch ==
  /\ pc = "dispatch"
  /\ asked' = asked \cup {mem.repo}
  /\ Goto("intents")
  /\ UNCHANGED <<ledger, nexus, remote, runs, accepted, restored, bounds>>

DispatchRefused ==
  /\ pc = "dispatch" /\ faults < MaxFaults
  /\ faults' = faults + 1
  /\ Fail
  /\ UNCHANGED <<ledger, nexus, github, accepted, restored, others>>

Intended ==
  /\ pc = "intents" /\ Undispatched = {}
  /\ Goto("poll")
  /\ UNCHANGED <<ledger, nexus, github, accepted, restored, bounds>>

\* develop_runs, finished_runs, and for an aggregator those asked for.
Answers(r) ==
  {n \in DOMAIN runs[r] :
     /\ runs[r][n].event \in {"push", "dispatch"}
     /\ runs[r][n].result # "cancelled"
     /\ r \in Aggregators => runs[r][n].event = "dispatch" /\ runs[r][n].late}

\* latest_runs_by_name: the newest of them.
Latest(r) == CHOOSE n \in Answers(r) \cup {0} : \A m \in Answers(r) : m <= n

Passed(r, n) == \/ runs[r][n].result = "success"
                \/ (runs[r][n].result = "failure" /\ accepted[r] = n)

\* One repository in one poll.  Repositories that have passed are not read again.
Poll(r) ==
  /\ pc = "poll" /\ r \in Judged \ (mem.complete \cup mem.looked)
  /\ LET n == Latest(r) IN
       /\ mem' = [mem EXCEPT !.looked = @ \cup {r},
                             !.complete = IF n # 0 /\ Passed(r, n) THEN @ \cup {r} ELSE @,
                             !.pending = @ \/ n = 0 \/ runs[r][n].result = "running",
                             !.failed = @ \/ (n # 0 /\ runs[r][n].result = "failure" /\ ~Passed(r, n))]
       /\ evidence' = [evidence EXCEPT ![r] = IF n = 0 THEN NoAnswer ELSE [run |-> n, result |-> runs[r][n].result]]
  /\ UNCHANGED <<phase, completed, requested, pc, nexus, github, accepted, restored, bounds>>

Polled == pc = "poll" /\ Judged \subseteq mem.complete \cup mem.looked

\* Mutant: a sibling that moved meanwhile is not noticed.
VerifiedWithoutRefs ==
  /\ Polled /\ ~mem.failed /\ ~mem.pending
  /\ phase' = NextPhase
  /\ Fail
  /\ UNCHANGED <<completed, requested, evidence, nexus, github, accepted, restored, bounds>>

\* Nothing failed and nothing is pending: the remotes are read once more,
\* since a sibling's move during an aggregator's run invalidates its proof.
Verified ==
  /\ Polled /\ ~mem.failed /\ ~mem.pending
  /\ phase' = IF RemotesHold THEN NextPhase ELSE phase
  /\ Fail
  /\ UNCHANGED <<completed, requested, evidence, nexus, github, accepted, restored, bounds>>

\* A failure ends the verification; so does the time limit while CI is pending.
CIFails ==
  /\ Polled /\ (mem.failed \/ mem.pending)
  /\ Fail
  /\ UNCHANGED <<ledger, nexus, github, accepted, restored, bounds>>

PollAgain ==
  /\ Polled /\ ~mem.failed /\ mem.pending
  /\ mem' = [mem EXCEPT !.looked = {}, !.pending = FALSE]
  /\ UNCHANGED <<ledger, pc, nexus, github, accepted, restored, bounds>>

\* ReleaseAcceptance.run, after everything was read back.
Accept ==
  /\ pc = "accept"
  /\ phase' = NextPhase
  /\ Fail
  /\ UNCHANGED <<completed, requested, evidence, nexus, github, accepted, restored, bounds>>

----------------------------------------------------------------------------
(* The world. *)

\* The controller is killed, or the answer of what it waits for is lost
\* (transport.py: a failure that may be retried).  The upload goes on.
Interrupt ==
  /\ pc # "idle" /\ faults < MaxFaults
  /\ faults' = faults + 1
  /\ inflight' = {<<u[1], "orphan">> : u \in inflight}
  /\ Fail
  /\ UNCHANGED <<ledger, registry, visible, github, accepted, restored, others>>

\* The registry stores an upload, unless the place is taken: only a snapshot
\* may be deployed twice.
Land(u) ==
  /\ u \in inflight
  /\ inflight' = inflight \ {u}
  /\ LET free == registry[u[1]] = "none" \/ u[1] \in Snapshots IN
       /\ registry' = IF free THEN [registry EXCEPT ![u[1]] = "ours"] ELSE registry
       /\ mem' = IF u[2] = "live" THEN [mem EXCEPT !.answer = IF free THEN "stored" ELSE "refused"] ELSE mem
  /\ UNCHANGED <<ledger, pc, visible, github, accepted, restored, bounds>>

\* An upload whose answer was lost may also never arrive.
Vanish(u) ==
  /\ u \in inflight /\ u[2] = "orphan"
  /\ inflight' = inflight \ {u}
  /\ UNCHANGED <<ledger, control, registry, visible, github, accepted, restored, bounds>>

Index(p) ==
  /\ registry[p] # "none" /\ p \notin visible
  /\ visible' = visible \cup {p}
  /\ UNCHANGED <<ledger, control, registry, inflight, github, accepted, restored, bounds>>

AllAtCommit == RemotesHold /\ phase \notin {"snapshots", "remotes"}

\* A dispatch starts a run at the head of develop.
StartRun(r) ==
  /\ r \in asked
  /\ asked' = asked \ {r}
  /\ runs' = IF remote[r] /\ Len(runs[r]) < MaxRuns
             THEN [runs EXCEPT ![r] = Append(@, Run(TRUE, "dispatch", "running", AllAtCommit))]
             ELSE runs
  /\ UNCHANGED <<ledger, control, nexus, remote, accepted, restored, bounds>>

EndRun(r, n, result) ==
  /\ n \in DOMAIN runs[r] /\ runs[r][n].result = "running"
  /\ result \in {"success", "failure", "cancelled"}
  /\ runs' = [runs EXCEPT ![r][n].result = result]
  /\ UNCHANGED <<ledger, control, nexus, asked, remote, accepted, restored, bounds>>

Other == others < MaxOthers /\ others' = others + 1

\* Somebody publishes at one of our places.
Publish(p) ==
  /\ Other /\ p \notin Snapshots /\ registry[p] = "none"
  /\ registry' = [registry EXCEPT ![p] = "other"]
  /\ UNCHANGED <<ledger, control, visible, inflight, github, accepted, restored, faults>>

\* The train registry's cleanup policy removes a package after thirty days.
CleanUp ==
  /\ Other /\ registry["train"] = "ours" /\ "npm" \in completed
  /\ registry' = [registry EXCEPT !["train"] = "none"]
  /\ visible' = visible \ {"train"}
  /\ UNCHANGED <<ledger, control, inflight, github, accepted, restored, faults>>

\* Somebody pushes to develop; what runs then may have built the new commit.
Move(r) ==
  /\ Other /\ remote[r] /\ phase \notin {"snapshots", "remotes"}
  /\ remote' = [remote EXCEPT ![r] = FALSE]
  /\ runs' = IF r \in DevelopmentOnly \/ phase # "development" THEN runs
             ELSE [s \in Repos |-> [n \in DOMAIN runs[s] |->
                     IF runs[s][n].result = "running" THEN [runs[s][n] EXCEPT !.pure = FALSE] ELSE runs[s][n]]]
  /\ UNCHANGED <<ledger, control, nexus, asked, accepted, restored, faults>>

\* An operator forces a gated develop back to its integrated commit, without which
\* no stage reads the refs as exact again.  What ran meanwhile stays what it was.
Restore(r) ==
  /\ r \in Gated /\ ~remote[r]
  /\ remote' = [remote EXCEPT ![r] = TRUE]
  /\ restored' = (restored \/ phase = "development")
  /\ UNCHANGED <<ledger, control, nexus, asked, runs, accepted, bounds>>

\* Somebody starts a run at the commit, reruns one, or dispatches one.
PullRequest(r) ==
  /\ Other /\ phase = "development" /\ Len(runs[r]) < MaxRuns
  /\ runs' = [runs EXCEPT ![r] = Append(@, Run(r \in requested, "pull_request", "success", FALSE))]
  /\ UNCHANGED <<ledger, control, nexus, asked, remote, accepted, restored, faults>>

DispatchByHand(r) ==
  /\ Other /\ phase = "development" /\ remote[r] /\ Len(runs[r]) < MaxRuns
  /\ runs' = [runs EXCEPT ![r] = Append(@, Run(r \in requested, "dispatch", "running", AllAtCommit))]
  /\ UNCHANGED <<ledger, control, nexus, asked, remote, accepted, restored, faults>>

Rerun(r, n) ==
  /\ Other /\ phase = "development" /\ n \in DOMAIN runs[r] /\ runs[r][n].result # "running"
  /\ runs' = [runs EXCEPT ![r][n].result = "running", ![r][n].pure = AllAtCommit]
  /\ UNCHANGED <<ledger, control, nexus, asked, remote, accepted, restored, faults>>

\* release resume --accept-red-development.
AcceptRed(r) ==
  /\ pc = "idle" /\ phase = "development"
  /\ evidence[r].result = "failure"
  /\ accepted' = [accepted EXCEPT ![r] = evidence[r].run]
  /\ UNCHANGED <<ledger, control, nexus, github, restored, bounds>>

Controller ==
  \/ Begin \/ Integrate \/ ReadRemotes \/ ReadRecords
  \/ SkipRecorded \/ Check \/ Put \/ Answer \/ Confirm \/ Record \/ StageDone
  \/ (\E r \in Aggregators : Intend(r)) \/ Dispatch \/ Intended
  \/ (\E r \in Judged : Poll(r)) \/ Verified \/ CIFails \/ PollAgain \/ Accept

Outside ==
  \/ (\E u \in inflight : Land(u) \/ Vanish(u))
  \/ (\E p \in Places : Index(p) \/ Publish(p))
  \/ CleanUp
  \/ \E r \in Repos :
       \/ Move(r) \/ Restore(r)
       \/ r \in Judged /\ (StartRun(r) \/ PullRequest(r) \/ DispatchByHand(r) \/ AcceptRed(r))
       \/ \E n \in 1..MaxRuns :
            Rerun(r, n) \/ \E result \in {"success", "failure", "cancelled"} : EndRun(r, n, result)

Next == Controller \/ DispatchRefused \/ Interrupt \/ Outside

\* The operator resumes and the controller goes on; uploads end, indexes catch
\* up, dispatches arrive and runs end.  Others and faults are not fair.
Fairness ==
  /\ WF_vars(Controller)
  /\ \A p \in Places : WF_vars(\E u \in inflight : u[1] = p /\ Land(u)) /\ WF_vars(Index(p))
  /\ \A r \in Repos :
       /\ WF_vars(StartRun(r))
       /\ \A n \in 1..MaxRuns : WF_vars(\E result \in {"success", "failure", "cancelled"} : EndRun(r, n, result))

Spec == Init /\ [][Next]_vars
FairSpec == Spec /\ Fairness

----------------------------------------------------------------------------
(* Properties. *)

\* The type of every variable; a recorded intent is an aggregator's, and an
\* upload is awaited only by the controller that made it.
TypeOK ==
  /\ phase \in {Stages[n] : n \in DOMAIN Stages}
  /\ completed \subseteq AllTasks /\ requested \subseteq Aggregators
  /\ evidence \in [Repos -> [run: 0..MaxRuns, result: {"none", "running", "success", "failure"}]]
  /\ pc \in {"idle", "integrate", "refs", "records", "task", "put", "answer", "confirm",
             "intents", "dispatch", "poll", "accept"}
  /\ mem.task \in 1..4 /\ mem.upload \in 1..(Len(Files) + 2)
  /\ mem.complete \subseteq Judged /\ mem.looked \subseteq Judged
  /\ registry \in [Places -> {"none", "ours", "other"}]
  /\ visible \subseteq {p \in Places : registry[p] # "none"}
  /\ inflight \subseteq Places \X {"live", "orphan"}
  /\ (\E p \in Places : <<p, "live">> \in inflight) => pc = "answer"
  /\ asked \subseteq requested
  /\ remote \in [Repos -> BOOLEAN]
  /\ \A r \in Repos : Len(runs[r]) <= MaxRuns /\ \A n \in DOMAIN runs[r] : runs[r][n] \in Runs
  /\ accepted \in [Repos -> 0..MaxRuns] /\ restored \in BOOLEAN

\* What the ledger records as published is what was built: whoever else
\* publishes at the same moment and whichever answers are lost, the registries
\* that nothing is removed from hold our bytes at every path of a recorded task
\* (_publish_maven_release, _publish_npm).
RecordedIsPublished ==
  /\ "maven" \in completed => \A p \in FilePlaces : registry[p] = "ours"
  /\ "npm" \in completed => registry["retained"] = "ours"

\* A verified release is proven by CI of exactly its commits: each gated
\* repository's newest run on develop passed or was accepted by name, and an
\* aggregator's was asked for by the release and built every sibling at its
\* integrated commit (DevelopmentVerifier.run), whatever was moved, rerun,
\* cancelled or dispatched meanwhile, unless a gated develop that had moved was put
\* back before the run was judged: the refs are read when CI has passed, not while it
\* runs (development.py:164), so a run of the sibling's other commit then counts.
VerifiedIsProven ==
  phase \in {"acceptance", "accepted"} =>
    \A r \in Judged :
      LET answer == evidence[r] IN
        /\ answer.run # 0 /\ runs[r][answer.run].event # "pull_request"
        /\ \/ answer.result = "success"
           \/ answer.result = "failure" /\ accepted[r] = answer.run
        /\ r \in Aggregators =>
             /\ runs[r][answer.run].late
             /\ runs[r][answer.run].pure \/ restored

\* What only an operator repairs: a place that a stage still reads and somebody
\* else took, a release ref that moved, a package the train registry has removed,
\* and, while CI is verified, CI that is red or that nobody started, such as a
\* dispatch whose intent alone is durable.
Unanswered(r) ==
  /\ r \notin asked
  /\ r \in Aggregators => r \in requested
  /\ \/ Answers(r) = {}
     \/ runs[r][Latest(r)].result = "failure" /\ ~Passed(r, Latest(r))
NeedsOperator ==
  \/ phase \notin {"snapshots", "remotes"} /\ \E p \in Places : registry[p] = "other"
  \/ ~RemotesHold
  \/ ("npm" \in completed /\ registry["train"] = "none")
  \/ phase = "development" /\ \E r \in Judged : Unanswered(r)

\* Otherwise a release that is resumed is accepted, whatever answers were lost:
\* no interrupted upload, late index or dispatch wedges it
\* (lifecycle.py publish_active_release, development.py).
Completes == []<>(phase = "accepted" \/ NeedsOperator)
================================================================================
