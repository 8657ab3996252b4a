--------------------------- MODULE PublicationProofs ---------------------------
(***************************************************************************)
(* What TLAPS proves of the publication of a release, for any repositories,*)
(* any Maven release and every number of runs, faults and acts of others:  *)
(* what the ledger records is stored, and what is verified is proven by CI *)
(* of exactly the integrated commits.                                      *)
(***************************************************************************)
EXTENDS Publication, TLAPS, FiniteSetTheorems, WellFoundedInduction

----------------------------------------------------------------------------
(* The inductive invariant.                                                 *)

Working == {"task", "put", "answer", "confirm"}

\* What TypeOK leaves open: mem is a record, and the runs are sequences.
LocalTypes ==
  /\ mem \in [task : Nat, upload : Nat, answer : {"none", "stored", "refused"}, repo : Repos \cup {"none"},
              complete : SUBSET Judged, looked : SUBSET Judged, pending : BOOLEAN, failed : BOOLEAN]
  /\ runs \in [Repos -> Seq(Runs)]

\* Where the controller can be in each phase, and what it knows there.
ControlInv ==
  /\ pc \in {"idle", "refs", "records"} => mem = Fresh
  /\ pc \in Working => phase \in {"snapshots", "artifacts"}
  /\ pc = "integrate" => phase = "remotes"
  /\ pc = "refs" => phase \in {"artifacts", "development", "acceptance"}
  /\ pc = "records" => phase \in {"snapshots", "artifacts", "development", "acceptance"}
  /\ pc \in {"intents", "dispatch", "poll"} => phase = "development"
  /\ pc = "accept" => phase = "acceptance"
  /\ pc = "dispatch" => mem.repo \in requested
  /\ phase \in {"snapshots", "remotes"} => requested = {} /\ evidence = [r \in Repos |-> NoAnswer]

\* The one upload whose answer is awaited is of the place that the controller is
\* at, and has no answer yet.
LiveInv ==
  \A u \in inflight : u[2] = "live" =>
    /\ mem.answer = "none" /\ mem.task <= Len(Tasks) /\ mem.upload <= Len(Uploads(Task)) /\ u[1] = Upload

\* Everything before the place the controller is at is stored.
StoredInv ==
  pc \in Working /\ mem.task <= Len(Tasks) =>
    /\ mem.upload <= Len(Uploads(Task)) + 1
    /\ Task \in completed => mem.upload = 1
    /\ Task = "maven" =>
         /\ \A n \in 1..(mem.upload - 1) : registry[Files[n]] = "ours"
         /\ pc = "answer" /\ mem.answer = "stored" /\ mem.upload <= Len(Files) => registry[Upload] = "ours"
    /\ Task = "npm" /\ mem.upload > 2 => registry["retained"] = "ours"

\* What a poll has found so far.
PollInv ==
  /\ mem.looked # {} \/ mem.complete # {} => pc = "poll"
  /\ ~mem.pending /\ ~mem.failed => mem.looked \subseteq mem.complete
  /\ \A r \in mem.complete :
       /\ evidence[r].run # 0
       /\ \/ evidence[r].result = "success"
          \/ evidence[r].result = "failure" /\ accepted[r] = evidence[r].run

\* A run that answered is one that may: of develop, and of the release's request.
EvidenceInv ==
  \A r \in Repos : evidence[r].run # 0 =>
    /\ evidence[r].run \in DOMAIN runs[r]
    /\ runs[r][evidence[r].run].event \in {"push", "dispatch"}
    /\ r \in Aggregators => runs[r][evidence[r].run].event = "dispatch" /\ runs[r][evidence[r].run].late

\* No run is one the release asked for before its CI is verified.  From then on, as
\* long as no gated repository is away or was put back, every one it asked for built
\* every sibling at its integrated commit.
Undisturbed == phase = "development" /\ RemotesHold /\ ~restored
Honest(run) == run.event = "dispatch" /\ run.late => run.pure

PureInv ==
  /\ phase \in {"snapshots", "remotes", "artifacts"} =>
       requested = {} /\ \A r \in Repos : \A n \in DOMAIN runs[r] : ~runs[r][n].late
  /\ Undisturbed => \A r \in Repos : \A n \in DOMAIN runs[r] : Honest(runs[r][n])

IInv ==
  /\ TypeOK /\ LocalTypes
  /\ ControlInv /\ LiveInv /\ StoredInv /\ RecordedIsPublished
  /\ PollInv /\ EvidenceInv /\ PureInv /\ VerifiedIsProven

----------------------------------------------------------------------------
(* The plan.                                                                *)

LEMMA IInvParts ==
  IInv <=> /\ TypeOK /\ LocalTypes
           /\ ControlInv /\ LiveInv /\ StoredInv /\ RecordedIsPublished
           /\ PollInv /\ EvidenceInv /\ PureInv /\ VerifiedIsProven
BY DEF IInv

LEMMA PhaseNames ==
  {Stages[n] : n \in DOMAIN Stages} =
    {"snapshots", "remotes", "artifacts", "development", "acceptance", "accepted"}
BY DEF Stages

\* The stages follow each other.
LEMMA NextPhases ==
  /\ phase = "snapshots" => NextPhase = "remotes"
  /\ phase = "remotes" => NextPhase = "artifacts"
  /\ phase = "artifacts" => NextPhase = "development"
  /\ phase = "development" => NextPhase = "acceptance"
  /\ phase = "acceptance" => NextPhase = "accepted"
<1>1. \A n, m \in 1..5 : Stages[n] = Stages[m] => n = m
  BY DEF Stages
<1>2. ASSUME NEW n \in 1..5, phase = Stages[n] PROVE NextPhase = Stages[1 + n]
  BY <1>1, <1>2 DEF NextPhase
<1>3. /\ Stages[1] = "snapshots" /\ Stages[2] = "remotes" /\ Stages[3] = "artifacts"
      /\ Stages[4] = "development" /\ Stages[5] = "acceptance" /\ Stages[6] = "accepted"
  BY DEF Stages
<1>4. phase = Stages[1] => NextPhase = Stages[2]
  BY <1>2
<1>5. phase = Stages[2] => NextPhase = Stages[3]
  BY <1>2
<1>6. phase = Stages[3] => NextPhase = Stages[4]
  BY <1>2
<1>7. phase = Stages[4] => NextPhase = Stages[5]
  BY <1>2
<1>8. phase = Stages[5] => NextPhase = Stages[6]
  BY <1>2
<1> QED BY <1>3, <1>4, <1>5, <1>6, <1>7, <1>8

\* The tasks of a stage, and what each one uploads.
LEMMA TasksOf ==
  /\ phase = "snapshots" => Len(Tasks) = 2 /\ Tasks[1] = "deploy" /\ Tasks[2] = "snapshotsIndexed"
  /\ phase # "snapshots" => Len(Tasks) = 3 /\ Tasks[1] = "maven" /\ Tasks[2] = "filesIndexed" /\ Tasks[3] = "npm"
BY DEF Tasks, SnapshotTasks, ReleaseTasks

LEMMA UploadsOf ==
  /\ Len(Uploads("deploy")) = 1 /\ Uploads("deploy")[1] = "snapshot"
  /\ Len(Uploads("maven")) = Len(Files) /\ Uploads("maven") = Files
  /\ Len(Uploads("npm")) = 2 /\ Uploads("npm")[1] = "train" /\ Uploads("npm")[2] = "retained"
  /\ Len(Uploads("snapshotsIndexed")) = 0 /\ Len(Uploads("filesIndexed")) = 0
BY DEF Uploads

LEMMA FilesFacts ==
  /\ Len(Files) \in Nat \ {0} /\ DOMAIN Files = 1..Len(Files)
  /\ \A n \in 1..Len(Files) : Files[n] \in FilePlaces
  /\ \A p \in FilePlaces : p \in Places /\ p \notin {"snapshot", "train", "retained"}
                           /\ \E n \in 1..Len(Files) : Files[n] = p
<1>1. Len(Files) \in Nat \ {0} /\ DOMAIN Files = 1..Len(Files)
  BY FilesAssumption
<1> QED BY <1>1, FilesAssumption DEF FilePlaces, Places

\* A place that the controller is at is a place of its task.
LEMMA UploadFacts ==
  ASSUME LocalTypes, mem.task >= 1, mem.task <= Len(Tasks)
  PROVE  /\ Task \in AllTasks
         /\ Len(Uploads(Task)) \in 0..(Len(Files) + 1)
         /\ mem.upload \in 1..Len(Uploads(Task)) =>
              /\ Upload \in Places /\ Task \in {"deploy", "maven", "npm"}
              /\ Task = "maven" => Upload = Files[mem.upload] /\ mem.upload <= Len(Files)
              /\ Task = "npm" => Upload = (IF mem.upload = 1 THEN "train" ELSE "retained") /\ mem.upload <= 2
<1>1. mem.task \in {1, 2, 3} /\ mem.upload \in Nat /\ Len(Files) \in Nat \ {0}
  <2>1. mem.task \in Nat /\ mem.upload \in Nat
    BY DEF LocalTypes
  <2>2. Len(Tasks) \in {2, 3}
    BY TasksOf
  <2>3. Len(Files) \in Nat \ {0}
    BY FilesFacts
  <2>4. CASE Len(Tasks) = 2
    BY <2>1, <2>3, <2>4
  <2>5. CASE Len(Tasks) = 3
    BY <2>1, <2>3, <2>5
  <2> QED BY <2>2, <2>4, <2>5
<1>2. Task \in AllTasks
  BY <1>1, TasksOf DEF Task, AllTasks
<1>3. Len(Uploads(Task)) \in 0..(Len(Files) + 1)
  <2>1. Len(Uploads(Task)) \in {0, 1, 2, Len(Files)}
    BY <1>2, UploadsOf DEF AllTasks
  <2>2. Len(Files) \in Nat /\ Len(Files) >= 1
    BY <1>1
  <2>3. {0, 1, 2, Len(Files)} \subseteq 0..(Len(Files) + 1)
    BY <2>2
  <2> QED BY <2>1, <2>3
<1>4. ASSUME mem.upload \in 1..Len(Uploads(Task))
      PROVE  /\ Upload \in Places /\ Task \in {"deploy", "maven", "npm"}
             /\ Task = "maven" => Upload = Files[mem.upload] /\ mem.upload <= Len(Files)
             /\ Task = "npm" => Upload = (IF mem.upload = 1 THEN "train" ELSE "retained") /\ mem.upload <= 2
  <2>1. CASE Task = "deploy"
    <3>1. Upload = "snapshot"
      BY <1>1, <1>4, <2>1, UploadsOf DEF Upload
    <3> QED BY <2>1, <3>1 DEF Places, Snapshots
  <2>2. CASE Task = "maven"
    BY <1>1, <1>4, <2>2, UploadsOf, FilesFacts DEF Upload
  <2>3. CASE Task = "npm"
    <3>1. mem.upload \in {1, 2} /\ Upload = (IF mem.upload = 1 THEN "train" ELSE "retained")
      BY <1>1, <1>4, <2>3, UploadsOf DEF Upload
    <3> QED BY <2>3, <3>1 DEF Places, Packages
  <2>4. CASE Task \in {"snapshotsIndexed", "filesIndexed"}
    BY <1>4, <2>4, UploadsOf
  <2> QED BY <1>2, <2>1, <2>2, <2>3, <2>4 DEF AllTasks
<1> QED BY <1>2, <1>3, <1>4

----------------------------------------------------------------------------
(* Runs.                                                                    *)

LEMMA RunFields ==
  \A late, pure \in BOOLEAN, event \in {"push", "dispatch", "pull_request"},
     result \in {"running", "success", "failure", "cancelled"} :
    LET run == Run(late, event, result, pure)
    IN  run \in Runs /\ run.late = late /\ run.event = event /\ run.result = result /\ run.pure = pure
BY DEF Run, Runs

\* There is a newest answer, when there is one.
LEMMA LatestIs ==
  ASSUME LocalTypes, NEW r \in Repos
  PROVE  Latest(r) \in Answers(r) \cup {0} /\ \A n \in Answers(r) : n <= Latest(r)
<1>1. runs[r] \in Seq(Runs) /\ Len(runs[r]) \in Nat /\ DOMAIN runs[r] = 1..Len(runs[r])
  BY DEF LocalTypes
<1> DEFINE N == Len(runs[r])
           S == Answers(r) \cup {0}
           T == {N - n : n \in S}
<1>2. S \subseteq 0..N /\ 0 \in S
  BY <1>1 DEF Answers
<1> HIDE DEF S
<1>3. T \in SUBSET Nat /\ T # {}
  BY <1>1, <1>2
<1>4. PICK x \in T : \A y \in T : ~(<<y, x>> \in OpToRel(<, Nat))
  BY <1>3, NatLessThanWellFounded, WFMin
<1>5. PICK n \in S : x = N - n
  BY <1>4
<1>6. ASSUME NEW m \in S PROVE m <= n
  <2>1. N - m \in T /\ N - m \in Nat /\ x \in Nat
    BY <1>1, <1>2, <1>3
  <2>2. ~(N - m < x)
    BY <1>4, <2>1 DEF OpToRel
  <2> QED BY <1>1, <1>2, <1>5, <2>2
<1>7. \A m \in Answers(r) : m <= n
  BY <1>6 DEF S
<1>8. n \in Answers(r) \cup {0}
  BY DEF S
<1> QED BY <1>7, <1>8 DEF Latest

\* One run of a sequence is replaced, or one is added.
LEMMA RunReplaced ==
  ASSUME NEW s \in Seq(Runs), NEW n \in DOMAIN s, NEW run \in Runs
  PROVE  LET t == [s EXCEPT ![n] = run]
         IN  t \in Seq(Runs) /\ Len(t) = Len(s) /\ DOMAIN t = DOMAIN s
             /\ \A m \in DOMAIN s : t[m] = IF m = n THEN run ELSE s[m]
OBVIOUS

LEMMA RunAdded ==
  ASSUME NEW s \in Seq(Runs), NEW run \in Runs
  PROVE  LET t == Append(s, run)
         IN  t \in Seq(Runs) /\ Len(t) = Len(s) + 1 /\ DOMAIN t = DOMAIN s \cup {Len(s) + 1}
             /\ t[Len(s) + 1] = run /\ \A m \in DOMAIN s : t[m] = s[m]
OBVIOUS

----------------------------------------------------------------------------
(* Types.                                                                   *)

\* The facts about the present state that the steps below need.
LEMMA StateFacts ==
  ASSUME IInv
  PROVE  /\ mem.task \in 1..4 /\ mem.upload \in 1..(Len(Files) + 2)
         /\ mem.answer \in {"none", "stored", "refused"} /\ mem.repo \in Repos \cup {"none"}
         /\ mem.complete \subseteq Judged /\ mem.looked \subseteq Judged
         /\ mem.pending \in BOOLEAN /\ mem.failed \in BOOLEAN
         /\ \A r \in Repos : /\ runs[r] \in Seq(Runs) /\ Len(runs[r]) \in 0..MaxRuns
                             /\ DOMAIN runs[r] = 1..Len(runs[r])
         /\ Judged \subseteq Repos /\ Aggregators \subseteq Judged
         /\ phase \in {"snapshots", "remotes", "artifacts", "development", "acceptance", "accepted"}
<1> USE IInvParts
<1>1. \A r \in Repos : /\ runs[r] \in Seq(Runs) /\ Len(runs[r]) \in 0..MaxRuns
                       /\ DOMAIN runs[r] = 1..Len(runs[r])
  BY BoundsAssumption DEF TypeOK, LocalTypes
<1>2. Judged \subseteq Repos /\ Aggregators \subseteq Judged
  BY ReposAssumption DEF Judged, Gated
<1>3. phase \in {"snapshots", "remotes", "artifacts", "development", "acceptance", "accepted"}
  BY PhaseNames DEF TypeOK
<1>4. /\ mem.task \in 1..4 /\ mem.upload \in 1..(Len(Files) + 2)
      /\ mem.complete \subseteq Judged /\ mem.looked \subseteq Judged
  BY DEF TypeOK
<1> QED BY <1>1, <1>2, <1>3, <1>4 DEF LocalTypes

\* The controller's locals, in a type of their own.
MemOK(m) ==
  /\ m \in [task : Nat, upload : Nat, answer : {"none", "stored", "refused"}, repo : Repos \cup {"none"},
            complete : SUBSET Judged, looked : SUBSET Judged, pending : BOOLEAN, failed : BOOLEAN]
  /\ m.task \in 1..4 /\ m.upload \in 1..(Len(Files) + 2)

LEMMA MemFresh == MemOK(Fresh)
<1>1. Len(Files) \in Nat
  BY FilesFacts
<1> QED BY <1>1 DEF MemOK, Fresh

LEMMA MemStep ==
  ASSUME IInv, Next
  PROVE  MemOK(mem')
<1> USE IInvParts
<1>0. MemOK(mem) /\ Len(Files) \in Nat \ {0}
  BY FilesFacts DEF MemOK, TypeOK, LocalTypes
<1>1. CASE mem' = mem
  BY <1>0, <1>1
<1>2. CASE mem' = Fresh
  BY <1>2, MemFresh
<1>3. CASE SkipRecorded
  <2>1. mem' = [mem EXCEPT !.task = @ + 1] /\ mem.task <= Len(Tasks)
    BY <1>3 DEF SkipRecorded
  <2>2. Len(Tasks) = 2 \/ Len(Tasks) = 3
    BY TasksOf
  <2>3. mem.task + 1 \in 1..4
    <3>1. mem.task \in 1..4
      BY <1>0 DEF MemOK
    <3>2. mem.task <= Len(Tasks)
      BY <2>1
    <3>3. mem.task <= 3
      <4> HIDE IInvParts
      <4> QED BY <2>2, <3>1, <3>2
    <3> QED BY <3>1, <3>3
  <2> QED BY <1>0, <2>1, <2>3 DEF MemOK
<1>4. CASE Record
  <2>1. mem.task <= Len(Tasks)
        /\ (mem' = Fresh \/ mem' = [mem EXCEPT !.task = @ + 1, !.upload = 1])
    BY <1>4 DEF Record, Fail
  <2>2. Len(Tasks) = 2 \/ Len(Tasks) = 3
    BY TasksOf
  <2>3. mem.task + 1 \in 1..4
    <3>1. mem.task \in 1..4
      BY <1>0 DEF MemOK
    <3>2. mem.task <= Len(Tasks)
      BY <2>1
    <3>3. mem.task <= 3
      <4> HIDE IInvParts
      <4> QED BY <2>2, <3>1, <3>2
    <3> QED BY <3>1, <3>3
  <2>4. ASSUME mem' = [mem EXCEPT !.task = @ + 1, !.upload = 1] PROVE MemOK(mem')
    <3> DEFINE next == mem.task + 1
    <3>1. next \in 1..4 /\ next \in Nat /\ 1 \in 1..(Len(Files) + 2) /\ 1 \in Nat
      BY <1>0, <2>3
    <3>2. mem' = [mem EXCEPT !.task = next, !.upload = 1]
      BY <2>4
    <3> HIDE DEF next
    <3> QED BY <1>0, <3>1, <3>2 DEF MemOK
  <2> QED BY <1>2, <2>1, <2>4
<1>5. ASSUME NEW place, AtUpload(place), NextUpload PROVE MemOK(mem')
  <2>1. mem' = [mem EXCEPT !.upload = @ + 1] /\ mem.upload <= Len(Uploads(Task)) /\ mem.task <= Len(Tasks)
    BY <1>5 DEF AtUpload, NextUpload
  <2>2. Len(Uploads(Task)) \in 0..(Len(Files) + 1)
    BY <1>0, <2>1, UploadFacts DEF MemOK
  <2>3. mem.upload + 1 \in 1..(Len(Files) + 2)
    BY <1>0, <2>1, <2>2 DEF MemOK
  <2> QED BY <1>0, <2>1, <2>3 DEF MemOK
<1>6. CASE Check \/ Answer \/ Confirm
  <2>1. mem' = mem \/ mem' = Fresh \/ (NextUpload /\ \E place : AtUpload(place))
    <3>1. CASE Check
      <4>1. AtUpload("task")
        BY <3>1 DEF Check
      <4>2. mem.task <= Len(Tasks) /\ mem.upload \in 1..Len(Uploads(Task))
        BY <1>0, <4>1 DEF AtUpload, MemOK
      <4>3. Task \in {"deploy", "maven", "npm"} /\ Upload \in Places
        BY <1>0, <4>2, UploadFacts DEF MemOK
      <4>4. registry[Upload] \in {"none", "ours", "other"}
        BY <4>3 DEF TypeOK
      <4> QED BY <3>1, <4>1, <4>3, <4>4 DEF Check, Goto, Fail
    <3>2. CASE Answer
      BY <3>2 DEF Answer, Goto, Fail
    <3>3. CASE Confirm
      BY <3>3 DEF Confirm, Fail
    <3> QED BY <1>6, <3>1, <3>2, <3>3
  <2> QED BY <1>1, <1>2, <1>5, <2>1
<1>7. CASE Put
  BY <1>0, <1>7 DEF Put, MemOK
<1>8. ASSUME NEW r \in Aggregators, Intend(r) PROVE MemOK(mem')
  <2>1. mem' = [mem EXCEPT !.repo = r] /\ r \in Repos
    BY <1>8, ReposAssumption DEF Intend
  <2> QED BY <1>0, <2>1 DEF MemOK
<1>9. ASSUME NEW r \in Judged, Poll(r) PROVE MemOK(mem')
  <2>1. mem.complete \cup {r} \in SUBSET Judged /\ mem.looked \cup {r} \in SUBSET Judged
    BY <1>0 DEF MemOK
  <2> DEFINE n == Latest(r)
             done == IF n # 0 /\ Passed(r, n) THEN mem.complete \cup {r} ELSE mem.complete
             more == mem.pending \/ n = 0 \/ runs[r][n].result = "running"
             red == mem.failed \/ (n # 0 /\ runs[r][n].result = "failure" /\ ~Passed(r, n))
  <2>2. mem' = [mem EXCEPT !.looked = mem.looked \cup {r}, !.complete = done, !.pending = more, !.failed = red]
    BY <1>9 DEF Poll
  <2>3. done \in SUBSET Judged /\ more \in BOOLEAN /\ red \in BOOLEAN
    BY <1>0, <2>1 DEF MemOK
  <2> HIDE DEF done, more, red
  <2> QED BY <1>0, <2>1, <2>2, <2>3 DEF MemOK
<1>10. CASE PollAgain
  BY <1>0, <1>10 DEF PollAgain, MemOK
<1>11. ASSUME NEW u \in inflight, Land(u) PROVE MemOK(mem')
  <2>1. mem' = mem \/ \E answer \in {"stored", "refused"} : mem' = [mem EXCEPT !.answer = answer]
    BY <1>11 DEF Land
  <2> QED BY <1>0, <2>1 DEF MemOK
<1>12. CASE Begin \/ Integrate \/ ReadRemotes \/ ReadRecords \/ StageDone \/ Dispatch \/ Intended \/ Verified
            \/ CIFails \/ Accept \/ DispatchRefused \/ Interrupt
  BY <1>1, <1>2, <1>12 DEF Begin, Integrate, ReadRemotes, ReadRecords, StageDone, Dispatch, Intended,
     Verified, CIFails, Accept, DispatchRefused, Interrupt, Goto, Fail
<1>13. ASSUME Outside, \A u \in inflight : ~Land(u) PROVE mem' = mem
  BY <1>13 DEF Outside, Vanish, Index, Publish, CleanUp, Move, Restore, StartRun, PullRequest, DispatchByHand,
     AcceptRed, Rerun, EndRun, control
<1> QED BY <1>1, <1>3, <1>4, <1>6, <1>7, <1>8, <1>9, <1>10, <1>11, <1>12, <1>13 DEF Next, Controller

\* The ledger: the phase advances by one stage, by one of four steps; a task is
\* recorded, an intent, or the answer of a repository.
LEMMA PhaseStep ==
  ASSUME IInv, Next
  PROVE  \/ phase' = phase
         \/ Integrate /\ phase = "remotes" /\ phase' = "artifacts"
         \/ StageDone /\ phase = "snapshots" /\ phase' = "remotes"
         \/ StageDone /\ phase = "artifacts" /\ phase' = "development"
         \/ Verified /\ RemotesHold /\ phase = "development" /\ phase' = "acceptance"
         \/ Accept /\ phase = "acceptance" /\ phase' = "accepted"
<1> USE IInvParts
<1>1. CASE Integrate
  BY <1>1, NextPhases DEF Integrate, ControlInv
<1>2. CASE StageDone
  BY <1>2, NextPhases DEF StageDone, ControlInv, Working
<1>3. CASE Verified
  BY <1>3, NextPhases DEF Verified, Polled, ControlInv
<1>4. CASE Accept
  BY <1>4, NextPhases DEF Accept, ControlInv
<1>5. CASE ~Integrate /\ ~StageDone /\ ~Verified /\ ~Accept
  BY <1>5 DEF Next, Controller, Outside, Begin, ReadRemotes, ReadRecords, SkipRecorded, Check, Put, Answer,
     Confirm, Record, Intend, Dispatch, Intended, Poll, CIFails, PollAgain, DispatchRefused, Interrupt, Land,
     Vanish, Index, Publish, CleanUp, Move, Restore, StartRun, PullRequest, DispatchByHand, AcceptRed, Rerun, EndRun,
     ledger
<1> QED BY <1>1, <1>2, <1>3, <1>4, <1>5

LEMMA LedgerStep ==
  ASSUME IInv, Next
  PROVE  /\ completed' = completed \/ (Record /\ Task \in AllTasks /\ completed' = completed \cup {Task})
         /\ requested' = requested
              \/ \E r \in Aggregators : Intend(r) /\ requested' = requested \cup {r}
         /\ evidence' = evidence \/ \E r \in Judged : Poll(r)
         /\ accepted' = accepted \/ \E r \in Repos : AcceptRed(r)
<1> USE IInvParts
<1>1. CASE Record
  <2>1. mem.task <= Len(Tasks) /\ mem.task >= 1
    BY <1>1, StateFacts DEF Record
  <2> QED BY <1>1, <2>1, UploadFacts DEF Record
<1>2. CASE ~Record
  BY <1>2 DEF Next, Controller, Outside, Begin, Integrate, ReadRemotes, ReadRecords, SkipRecorded, Check,
     Put, Answer, Confirm, StageDone, Intend, Dispatch, Intended, Poll, Verified, CIFails, PollAgain, Accept,
     DispatchRefused, Interrupt, Land, Vanish, Index, Publish, CleanUp, Move, Restore, StartRun, PullRequest,
     DispatchByHand, AcceptRed, Rerun, EndRun, ledger
<1> QED BY <1>1, <1>2

\* A run that answers is there and neither cancelled nor of a pull request.
LEMMA PollFacts ==
  ASSUME IInv, NEW r \in Judged, Poll(r)
  PROVE  /\ r \in Repos /\ phase = "development" /\ r \notin mem.complete
         /\ evidence' = [evidence EXCEPT ![r] = IF Latest(r) = 0 THEN NoAnswer
                                               ELSE [run |-> Latest(r), result |-> runs[r][Latest(r)].result]]
         /\ Latest(r) # 0 =>
              /\ Latest(r) \in DOMAIN runs[r] /\ Latest(r) \in 0..MaxRuns /\ runs[r][Latest(r)] \in Runs
              /\ runs[r][Latest(r)].event \in {"push", "dispatch"}
              /\ runs[r][Latest(r)].result \in {"running", "success", "failure"}
              /\ r \in Aggregators => runs[r][Latest(r)].event = "dispatch" /\ runs[r][Latest(r)].late
<1> USE IInvParts
<1>1. r \in Repos /\ phase = "development" /\ r \notin mem.complete
  BY StateFacts DEF Poll, ControlInv
<1>2. ASSUME Latest(r) # 0 PROVE Latest(r) \in Answers(r)
  BY <1>1, <1>2, LatestIs
<1>3. ASSUME NEW n \in Answers(r)
      PROVE  /\ n \in DOMAIN runs[r] /\ n \in 0..MaxRuns /\ runs[r][n] \in Runs
             /\ runs[r][n].event \in {"push", "dispatch"}
             /\ runs[r][n].result \in {"running", "success", "failure"}
             /\ r \in Aggregators => runs[r][n].event = "dispatch" /\ runs[r][n].late
  <2>1. n \in DOMAIN runs[r]
    BY DEF Answers
  <2>2. runs[r][n] \in Runs /\ n \in 0..MaxRuns
    BY <1>1, <2>1, StateFacts, BoundsAssumption
  <2> QED BY <2>1, <2>2 DEF Answers, Runs
<1> HIDE IInvParts
<1> QED BY <1>1, <1>2, <1>3 DEF Poll

LEMMA LedgerTypes ==
  ASSUME IInv, Next
  PROVE  /\ phase' \in {Stages[n] : n \in DOMAIN Stages}
         /\ completed' \subseteq AllTasks /\ requested' \subseteq Aggregators
         /\ evidence' \in [Repos -> [run: 0..MaxRuns, result: {"none", "running", "success", "failure"}]]
         /\ accepted' \in [Repos -> 0..MaxRuns]
<1> USE IInvParts
<1>1. phase' \in {Stages[n] : n \in DOMAIN Stages}
  BY PhaseStep, PhaseNames DEF TypeOK
<1>2. completed' \subseteq AllTasks /\ requested' \subseteq Aggregators
  BY LedgerStep DEF TypeOK
<1>3. evidence' \in [Repos -> [run: 0..MaxRuns, result: {"none", "running", "success", "failure"}]]
  <2>1. ASSUME NEW r \in Judged, Poll(r)
        PROVE  evidence' \in [Repos -> [run: 0..MaxRuns, result: {"none", "running", "success", "failure"}]]
    <3> DEFINE n == Latest(r)
               answer == IF n = 0 THEN NoAnswer ELSE [run |-> n, result |-> runs[r][n].result]
    <3>1. answer \in [run: 0..MaxRuns, result: {"none", "running", "success", "failure"}]
      <4>1. NoAnswer \in [run: 0..MaxRuns, result: {"none", "running", "success", "failure"}]
        BY BoundsAssumption DEF NoAnswer
      <4>2. n # 0 => n \in 0..MaxRuns /\ runs[r][n].result \in {"running", "success", "failure"}
        BY <2>1, PollFacts
      <4> HIDE DEF n
      <4> QED BY <4>1, <4>2
    <3>2. evidence' = [evidence EXCEPT ![r] = answer]
      BY <2>1, PollFacts
    <3> HIDE DEF answer
    <3> QED BY <3>1, <3>2 DEF TypeOK
  <2> QED BY <2>1, LedgerStep DEF TypeOK
<1>4. accepted' \in [Repos -> 0..MaxRuns]
  <2>1. ASSUME NEW r \in Repos, AcceptRed(r) PROVE accepted' \in [Repos -> 0..MaxRuns]
    <3>1. evidence[r].run \in 0..MaxRuns
      BY DEF TypeOK
    <3> QED BY <2>1, <3>1 DEF AcceptRed, TypeOK
  <2> QED BY <2>1, LedgerStep DEF TypeOK
<1> QED BY <1>1, <1>2, <1>3, <1>4

\* Where the controller goes.
LEMMA ControlStep ==
  ASSUME IInv, Next
  PROVE  /\ ControlInv'
         /\ pc' \in {"idle", "integrate", "refs", "records", "task", "put", "answer", "confirm",
                     "intents", "dispatch", "poll", "accept"}
<1> USE IInvParts DEF Working
<1>1. CASE Begin
  BY <1>1, StateFacts DEF Begin, ControlInv, ledger
<1>2. CASE Integrate \/ StageDone \/ Verified \/ Accept
  <2>1. pc' = "idle" /\ mem' = Fresh
    BY <1>2 DEF Integrate, StageDone, Verified, Accept, Fail
  <2>2. requested' = requested /\ evidence' = evidence
    BY <1>2 DEF Integrate, StageDone, Verified, Accept
  <2> QED BY <2>1, <2>2, PhaseStep DEF ControlInv
<1>3. CASE ReadRemotes
  BY <1>3 DEF ReadRemotes, Goto, Fail, ControlInv, ledger
<1>4. CASE ReadRecords
  BY <1>4 DEF ReadRecords, Goto, Fail, ControlInv, ledger
<1>5. CASE SkipRecorded \/ Put
  BY <1>5 DEF SkipRecorded, Put, AtUpload, ControlInv, ledger
<1>6. CASE Check \/ Answer \/ Confirm
  <2>1. (pc' = "idle" /\ mem' = Fresh) \/ (pc' \in Working /\ pc \in Working)
    <3>1. CASE Check
      <4>1. AtUpload("task") /\ pc = "task"
        BY <3>1 DEF Check, AtUpload
      <4>2. mem.task >= 1 /\ mem.task <= Len(Tasks) /\ mem.upload \in 1..Len(Uploads(Task))
        BY <4>1, StateFacts, FilesFacts DEF AtUpload
      <4>3. Task \in {"deploy", "maven", "npm"} /\ Upload \in Places
        BY <4>2, UploadFacts
      <4>4. registry[Upload] \in {"none", "ours", "other"}
        BY <4>3 DEF TypeOK
      <4> QED BY <3>1, <4>1, <4>3, <4>4 DEF Check, Goto, Fail, NextUpload
    <3>2. CASE Answer
      BY <3>2 DEF Answer, Goto, Fail, NextUpload, AtUpload
    <3>3. CASE Confirm
      BY <3>3 DEF Confirm, Fail, NextUpload, AtUpload
    <3> QED BY <1>6, <3>1, <3>2, <3>3
  <2>2. phase' = phase /\ requested' = requested /\ evidence' = evidence
    BY <1>6 DEF Check, Answer, Confirm, ledger
  <2> QED BY <2>1, <2>2 DEF ControlInv
<1>7. CASE Record
  BY <1>7 DEF Record, Fail, ControlInv
<1>8. ASSUME NEW r \in Aggregators, Intend(r) PROVE ControlInv' /\ pc' = "dispatch"
  <2>1. pc' = "dispatch" /\ mem'.repo = r /\ r \in requested' /\ phase' = phase /\ phase = "development"
    BY <1>8 DEF Intend, ControlInv, LocalTypes
  <2> QED BY <2>1 DEF ControlInv
<1>9. CASE Dispatch \/ Intended
  BY <1>9 DEF Dispatch, Intended, Goto, ControlInv, ledger
<1>10. CASE (\E r \in Judged : Poll(r)) \/ PollAgain
  <2>1. pc = "poll" /\ pc' = "poll" /\ phase' = phase /\ phase = "development"
    BY <1>10 DEF Poll, PollAgain, Polled, ControlInv, ledger
  <2> QED BY <2>1 DEF ControlInv
<1>11. CASE CIFails \/ DispatchRefused \/ Interrupt
  BY <1>11 DEF CIFails, DispatchRefused, Interrupt, Fail, ControlInv, ledger
<1>12. ASSUME NEW u \in inflight, Land(u) PROVE ControlInv' /\ pc' = pc
  <2>1. mem' = mem \/ (u[2] = "live" /\ mem'.repo = mem.repo)
    BY <1>12 DEF Land, LocalTypes
  <2>2. u[2] = "live" => pc = "answer"
    <3>1. u \in Places \X {"live", "orphan"} /\ u = <<u[1], u[2]>>
      BY DEF TypeOK
    <3>2. ASSUME u[2] = "live" PROVE \E p \in Places : <<p, "live">> \in inflight
      BY <3>1, <3>2
    <3> QED BY <3>2 DEF TypeOK
  <2> QED BY <1>12, <2>1, <2>2 DEF Land, ControlInv, ledger
<1>13. ASSUME Outside, \A u \in inflight : ~Land(u) PROVE UNCHANGED <<phase, requested, evidence, pc, mem>>
  BY <1>13 DEF Outside, Vanish, Index, Publish, CleanUp, Move, Restore, StartRun, PullRequest, DispatchByHand,
     AcceptRed, Rerun, EndRun, control, ledger
<1>14. UNCHANGED <<phase, requested, evidence, pc, mem>> => ControlInv'
  BY DEF ControlInv
<1>15. pc \in {"idle", "integrate", "refs", "records", "task", "put", "answer", "confirm",
               "intents", "dispatch", "poll", "accept"}
  BY DEF TypeOK
<1>16. ASSUME Begin \/ ReadRemotes \/ ReadRecords
      PROVE  pc' \in {"idle", "integrate", "refs", "records", "task", "put", "answer", "confirm",
                      "intents", "dispatch", "poll", "accept"}
  BY <1>16 DEF Begin, ReadRemotes, ReadRecords, Goto, Fail
<1>17. ASSUME SkipRecorded \/ Put \/ Record \/ Dispatch \/ Intended
      PROVE  pc' \in {"idle", "integrate", "refs", "records", "task", "put", "answer", "confirm",
                      "intents", "dispatch", "poll", "accept"}
  BY <1>15, <1>17 DEF SkipRecorded, Put, Record, Dispatch, Intended, Goto, Fail
<1>18. ASSUME CIFails \/ DispatchRefused \/ Interrupt \/ PollAgain \/ (\E r \in Judged : Poll(r))
            \/ Integrate \/ StageDone \/ Verified \/ Accept
      PROVE  pc' \in {"idle", "integrate", "refs", "records", "task", "put", "answer", "confirm",
                      "intents", "dispatch", "poll", "accept"}
  BY <1>15, <1>18 DEF CIFails, DispatchRefused, Interrupt, PollAgain, Poll, Fail, Integrate, StageDone,
     Verified, Accept
<1> QED BY <1>1, <1>2, <1>3, <1>4, <1>5, <1>6, <1>7, <1>8, <1>9, <1>10, <1>11, <1>12, <1>13, <1>14, <1>15,
           <1>16, <1>17, <1>18 DEF Next, Controller

----------------------------------------------------------------------------
(* The registry.                                                            *)

\* What is ours is never replaced; only the cleanup of the train registry
\* removes it, and only a package that the ledger already records.
LEMMA RegistryStep ==
  ASSUME IInv, Next
  PROVE  /\ registry' \in [Places -> {"none", "ours", "other"}]
         /\ visible' \subseteq {p \in Places : registry'[p] # "none"}
         /\ \A p \in Places : registry[p] = "ours" /\ p # "train" => registry'[p] = "ours"
<1> USE IInvParts
<1>0. registry \in [Places -> {"none", "ours", "other"}] /\ visible \subseteq {p \in Places : registry[p] # "none"}
  BY DEF TypeOK
<1>1. CASE UNCHANGED <<registry, visible>>
  BY <1>0, <1>1
<1>2. ASSUME NEW u \in inflight, Land(u)
      PROVE  /\ registry' \in [Places -> {"none", "ours", "other"}]
             /\ visible' \subseteq {p \in Places : registry'[p] # "none"}
             /\ \A p \in Places : registry[p] = "ours" => registry'[p] = "ours"
  <2>1. u[1] \in Places
    BY DEF TypeOK
  <2>2. (registry' = registry \/ registry' = [registry EXCEPT ![u[1]] = "ours"]) /\ visible' = visible
    BY <1>2 DEF Land
  <2> QED BY <1>0, <2>1, <2>2
<1>3. ASSUME NEW p \in Places, Index(p) \/ Publish(p)
      PROVE  /\ registry' \in [Places -> {"none", "ours", "other"}]
             /\ visible' \subseteq {q \in Places : registry'[q] # "none"}
             /\ \A q \in Places : registry[q] = "ours" => registry'[q] = "ours"
  BY <1>0, <1>3 DEF Index, Publish
<1>4. CASE CleanUp
  <2>1. registry' = [registry EXCEPT !["train"] = "none"] /\ visible' = visible \ {"train"}
    BY <1>4 DEF CleanUp
  <2> QED BY <1>0, <2>1
<1>5. CASE Controller \/ DispatchRefused \/ Interrupt
  BY <1>1, <1>5 DEF Controller, Begin, Integrate, ReadRemotes, ReadRecords, SkipRecorded, Check, Put, Answer,
     Confirm, Record, StageDone, Intend, Dispatch, Intended, Poll, Verified, CIFails, PollAgain, Accept,
     DispatchRefused, Interrupt, nexus
<1>6. ASSUME Outside, \A u \in inflight : ~Land(u), \A p \in Places : ~(Index(p) \/ Publish(p)), ~CleanUp
      PROVE  UNCHANGED <<registry, visible>>
  BY <1>6 DEF Outside, Vanish, Move, Restore, StartRun, PullRequest, DispatchByHand, AcceptRed, Rerun, EndRun, nexus
<1> QED BY <1>1, <1>2, <1>3, <1>4, <1>5, <1>6 DEF Next

\* An upload is awaited only by the controller that made it.
Live(u) == u[2] = "live"

\* While no answer is awaited the only new upload is the one that leaves now.
LEMMA InflightStep ==
  ASSUME IInv, Next, NEW u \in inflight', Live(u)
  PROVE  \/ /\ Put /\ u = <<Upload, "live">> /\ mem' = [mem EXCEPT !.answer = "none"] /\ phase' = phase
            /\ pc' = "answer" /\ mem.task <= Len(Tasks) /\ mem.upload <= Len(Uploads(Task))
         \/ u \in inflight /\ pc = "answer" /\ ~Interrupt
<1> USE IInvParts DEF Live
<1>1. CASE Put
  <2>1. AtUpload("put") /\ pc = "put"
    BY <1>1 DEF Put, AtUpload
  <2>2. ASSUME u \in inflight PROVE FALSE
    <3>1. u \in Places \X {"live", "orphan"}
      BY <2>2 DEF TypeOK
    <3>2. u = <<u[1], "live">> /\ u[1] \in Places
      BY <3>1
    <3> QED BY <2>1, <2>2, <3>2 DEF TypeOK
  <2> QED BY <1>1, <2>1, <2>2 DEF Put, AtUpload, ledger
<1>2. CASE Interrupt
  BY <1>2 DEF Interrupt
<1>3. CASE ~Put /\ ~Interrupt
  <2>1. inflight' \subseteq inflight
    BY <1>3 DEF Next, Controller, Outside, Begin, Integrate, ReadRemotes, ReadRecords, SkipRecorded, Check,
       Answer, Confirm, Record, StageDone, Intend, Dispatch, Intended, Poll, Verified, CIFails, PollAgain,
       Accept, DispatchRefused, Land, Vanish, Index, Publish, CleanUp, Move, Restore, StartRun, PullRequest,
       DispatchByHand, AcceptRed, Rerun, EndRun, nexus
  <2>2. u \in Places \X {"live", "orphan"} /\ u \in inflight
    BY <2>1 DEF TypeOK
  <2>3. u = <<u[1], "live">> /\ u[1] \in Places
    BY <2>2
  <2> QED BY <1>3, <2>2, <2>3 DEF TypeOK
<1> QED BY <1>1, <1>2, <1>3

\* What happens while an answer is awaited.
LEMMA AnswerStep ==
  ASSUME IInv, Next, pc = "answer"
  PROVE  \/ Answer
         \/ Interrupt
         \/ \E u \in inflight : Live(u) /\ Land(u)
         \/ UNCHANGED <<pc, mem, phase, completed>>
<1>1. CASE Controller
  BY <1>1 DEF Controller, Begin, Integrate, ReadRemotes, ReadRecords, SkipRecorded, Check, Put, Confirm, Record,
     StageDone, Intend, Dispatch, Intended, Poll, Verified, Polled, CIFails, PollAgain, Accept, AtUpload
<1>2. CASE DispatchRefused
  BY <1>2 DEF DispatchRefused
<1>3. ASSUME NEW u \in inflight, Land(u), ~Live(u) PROVE UNCHANGED <<pc, mem, phase, completed>>
  BY <1>3 DEF Land, Live, ledger
<1>4. ASSUME Outside, \A u \in inflight : ~Land(u) PROVE UNCHANGED <<pc, mem, phase, completed>>
  BY <1>4 DEF Outside, Vanish, Index, Publish, CleanUp, Move, Restore, StartRun, PullRequest, DispatchByHand,
     AcceptRed, Rerun, EndRun, control, ledger
<1> QED BY <1>1, <1>2, <1>3, <1>4 DEF Next

\* The place of the controller is named by its locals and the phase.
LEMMA PlaceKept ==
  ASSUME phase' = phase, mem'.task = mem.task, mem'.upload = mem.upload
  PROVE  Tasks' = Tasks /\ Task' = Task /\ Upload' = Upload
BY DEF Tasks, Task, Upload

LEMMA LiveStep ==
  ASSUME IInv, Next
  PROVE  /\ LiveInv'
         /\ inflight' \subseteq Places \X {"live", "orphan"}
         /\ (\E p \in Places : <<p, "live">> \in inflight') => pc' = "answer"
<1> USE IInvParts DEF Live
<1>1. ASSUME NEW u \in inflight', Live(u)
      PROVE  /\ mem'.answer = "none" /\ mem'.task <= Len(Tasks') /\ mem'.upload <= Len(Uploads(Task'))
             /\ u[1] = Upload' /\ pc' = "answer"
  <2>1. CASE /\ Put /\ u = <<Upload, "live">> /\ mem' = [mem EXCEPT !.answer = "none"] /\ phase' = phase
             /\ pc' = "answer" /\ mem.task <= Len(Tasks) /\ mem.upload <= Len(Uploads(Task))
    <3>1. mem'.answer = "none" /\ mem'.task = mem.task /\ mem'.upload = mem.upload
      BY <2>1 DEF LocalTypes
    <3> QED BY <2>1, <3>1, PlaceKept
  <2>2. CASE u \in inflight /\ pc = "answer" /\ ~Interrupt
    <3>1. /\ mem.answer = "none" /\ mem.task <= Len(Tasks) /\ mem.upload <= Len(Uploads(Task)) /\ u[1] = Upload
      BY <1>1, <2>2 DEF LiveInv
    <3>2. ~Answer
      BY <3>1 DEF Answer
    <3>3. ASSUME NEW v \in inflight, Live(v), Land(v) PROVE FALSE
      <4>1. v[1] = Upload /\ v \in Places \X {"live", "orphan"} /\ u \in Places \X {"live", "orphan"}
        BY <2>2, <3>3 DEF LiveInv, TypeOK
      <4>2. v = u
        BY <1>1, <3>1, <3>3, <4>1
      <4> QED BY <1>1, <3>3, <4>2 DEF Land
    <3>4. UNCHANGED <<pc, mem, phase>>
      BY <2>2, <3>2, <3>3, AnswerStep
    <3> QED BY <2>2, <3>1, <3>4, PlaceKept
  <2> QED BY <1>1, <2>1, <2>2, InflightStep
<1>2. ASSUME NEW u \in inflight' PROVE u \in Places \X {"live", "orphan"}
  <2>1. CASE Put
    <3>1. mem.task >= 1 /\ mem.task <= Len(Tasks) /\ mem.upload \in 1..Len(Uploads(Task))
      BY <2>1, StateFacts, FilesFacts DEF Put, AtUpload
    <3>2. Upload \in Places
      BY <3>1, UploadFacts
    <3> QED BY <2>1, <3>2 DEF Put, TypeOK
  <2>2. CASE Interrupt
    BY <2>2 DEF Interrupt, TypeOK
  <2>3. CASE ~Put /\ ~Interrupt
    BY <2>3 DEF Next, Controller, Outside, Begin, Integrate, ReadRemotes, ReadRecords, SkipRecorded, Check,
       Answer, Confirm, Record, StageDone, Intend, Dispatch, Intended, Poll, Verified, CIFails, PollAgain,
       Accept, DispatchRefused, Land, Vanish, Index, Publish, CleanUp, Move, Restore, StartRun, PullRequest,
       DispatchByHand, AcceptRed, Rerun, EndRun, nexus, TypeOK
  <2> QED BY <2>1, <2>2, <2>3
<1>3. LiveInv'
  BY <1>1 DEF LiveInv
<1>4. (\E p \in Places : <<p, "live">> \in inflight') => pc' = "answer"
  BY <1>1
<1> QED BY <1>2, <1>3, <1>4

\* The place that the controller is at, in numbers.
LEMMA AtUploadFacts ==
  ASSUME IInv, NEW place, AtUpload(place)
  PROVE  /\ mem.task \in 1..4 /\ mem.task <= Len(Tasks) /\ mem.upload \in 1..Len(Uploads(Task))
         /\ mem.upload \in Nat /\ pc = place /\ Task \notin completed
         /\ Upload \in Places /\ Task \in {"deploy", "maven", "npm"}
         /\ Task = "maven" => Upload = Files[mem.upload] /\ mem.upload \in 1..Len(Files) /\ Upload # "train"
         /\ Task = "npm" => mem.upload \in {1, 2} /\ Upload = (IF mem.upload = 1 THEN "train" ELSE "retained")
<1>1. mem.task \in 1..4 /\ mem.task <= Len(Tasks) /\ mem.upload \in 1..Len(Uploads(Task)) /\ mem.upload \in Nat
      /\ pc = place /\ Task \notin completed
  BY StateFacts, FilesFacts DEF AtUpload
<1>2. LocalTypes
  BY IInvParts
<1> QED BY <1>1, <1>2, UploadFacts, FilesFacts

\* Nothing before the controller's place is lost.
LEMMA StoredKept ==
  ASSUME IInv, Next, pc \in Working, mem.task <= Len(Tasks)
  PROVE  /\ Task = "maven" => /\ \A n \in 1..(mem.upload - 1) : registry'[Files[n]] = "ours"
                              /\ pc = "answer" /\ mem.answer = "stored" /\ mem.upload <= Len(Files) =>
                                   registry'[Upload] = "ours"
         /\ Task = "npm" /\ mem.upload > 2 => registry'["retained"] = "ours"
<1> USE IInvParts
<1>1. \A p \in Places : registry[p] = "ours" /\ p # "train" => registry'[p] = "ours"
  BY RegistryStep
<1>2. mem.upload \in Nat /\ Len(Files) \in Nat /\ mem.task \in 1..4 /\ mem.upload >= 1
  BY StateFacts, FilesFacts
<1>3. CASE Task = "maven"
  <2>1. mem.upload <= Len(Files) + 1
    BY <1>3, UploadsOf DEF StoredInv
  <2>2. ASSUME NEW n \in 1..(mem.upload - 1) PROVE registry'[Files[n]] = "ours"
    <3>1. n \in 1..Len(Files)
      BY <1>2, <2>1
    <3>2. Files[n] \in Places /\ Files[n] # "train"
      BY <3>1, FilesFacts
    <3>3. registry[Files[n]] = "ours"
      BY <1>3 DEF StoredInv
    <3> QED BY <1>1, <3>2, <3>3
  <2>3. ASSUME pc = "answer", mem.answer = "stored", mem.upload <= Len(Files) PROVE registry'[Upload] = "ours"
    <3>1. mem.upload \in 1..Len(Uploads(Task)) /\ mem.upload \in 1..Len(Files)
      BY <1>2, <1>3, <2>3, UploadsOf
    <3>2. Upload = Files[mem.upload] /\ Files[mem.upload] \in Places /\ Files[mem.upload] # "train"
      BY <1>2, <1>3, <3>1, UploadFacts, FilesFacts
    <3>3. registry[Upload] = "ours"
      BY <1>3, <2>3 DEF StoredInv
    <3> QED BY <1>1, <3>2, <3>3
  <2> QED BY <1>3, <2>2, <2>3
<1>4. "retained" \in Places
  BY DEF Places, Packages
<1> QED BY <1>1, <1>3, <1>4 DEF StoredInv

\* One more place of the task is through.
LEMMA StoredOneMore ==
  ASSUME IInv, Next, NEW place \in Working, AtUpload(place), NextUpload, UNCHANGED <<phase, completed, registry>>,
         Task # "deploy" => registry[Upload] = "ours"
  PROVE  StoredInv'
<1>1. /\ mem.task <= Len(Tasks) /\ mem.upload \in 1..Len(Uploads(Task)) /\ mem.upload \in Nat /\ pc = place
      /\ Task \notin completed
      /\ (Task = "maven" => Upload = Files[mem.upload])
      /\ (Task = "npm" => mem.upload \in {1, 2} /\ Upload = (IF mem.upload = 1 THEN "train" ELSE "retained"))
  BY AtUploadFacts
<1>2. pc' = "task" /\ mem'.upload = mem.upload + 1 /\ mem'.task = mem.task
  BY IInvParts DEF NextUpload, LocalTypes
<1>3. Tasks' = Tasks /\ Task' = Task
  BY <1>2 DEF Tasks, Task
<1>4. Len(Uploads(Task)) \in Nat
  BY <1>1, StateFacts, UploadFacts, FilesFacts, IInvParts
<1>5. ASSUME Task = "maven", NEW n \in 1..mem.upload PROVE registry[Files[n]] = "ours"
  <2>1. CASE n = mem.upload
    BY <1>1, <1>5, <2>1
  <2>2. CASE n # mem.upload
    <3>1. n \in 1..(mem.upload - 1)
      BY <1>1, <2>2
    <3> QED BY <1>1, <1>5, <3>1, IInvParts DEF StoredInv
  <2> QED BY <2>1, <2>2
<1>6. ASSUME Task = "npm", mem.upload + 1 > 2 PROVE registry["retained"] = "ours"
  BY <1>1, <1>6
<1> QED BY <1>1, <1>2, <1>3, <1>4, <1>5, <1>6 DEF StoredInv

LEMMA StoredStep ==
  ASSUME IInv, Next
  PROVE  StoredInv'
<1> USE IInvParts
<1>0. mem.upload \in Nat /\ mem.task \in 1..4 /\ Len(Files) \in Nat \ {0} /\ mem.upload >= 1
  BY StateFacts, FilesFacts
<1>1. CASE UNCHANGED <<pc, mem, phase, completed>>
  <2>1. Tasks' = Tasks /\ Task' = Task /\ Upload' = Upload
    BY <1>1, PlaceKept
  <2> QED BY <1>1, <2>1, StoredKept DEF StoredInv
<1>2. CASE pc' \notin Working
  BY <1>2 DEF StoredInv
<1>3. CASE ReadRecords
  <2>1. mem = Fresh /\ (mem' = mem \/ mem' = Fresh) /\ phase' = phase /\ pc' # "answer"
    BY <1>3 DEF ReadRecords, ControlInv, ledger, Goto, Fail
  <2>2. mem'.upload = 1 /\ mem'.task = 1
    BY <2>1 DEF Fresh
  <2>3. Len(Uploads(Task')) \in Nat
    <3>1. Task' = Tasks[1] /\ Tasks' = Tasks
      BY <2>1, <2>2 DEF Task, Tasks
    <3>2. Task' \in {"deploy", "maven"}
      BY <3>1, TasksOf
    <3> QED BY <1>0, <3>2, UploadsOf
  <2> QED BY <2>1, <2>2, <2>3 DEF StoredInv
<1>4. CASE SkipRecorded \/ Record
  <2>1. pc' \in Working => pc' = "task" /\ mem'.upload = 1 /\ phase' = phase /\ mem'.task = mem.task + 1
    <3>1. CASE SkipRecorded
      BY <3>1 DEF SkipRecorded, StoredInv, LocalTypes, Working, ledger
    <3>2. CASE Record
      BY <3>2 DEF Record, Fail, LocalTypes, Working
    <3> QED BY <1>4, <3>1, <3>2
  <2>2. ASSUME pc' \in Working, mem'.task <= Len(Tasks') PROVE Len(Uploads(Task')) \in Nat
    <3>1. Task' = Tasks[mem.task + 1] /\ mem.task + 1 <= Len(Tasks) /\ Tasks' = Tasks
      BY <2>1, <2>2 DEF Task, Tasks
    <3>2. mem.task + 1 \in {2, 3}
      BY <1>0, <3>1, TasksOf
    <3>3. Task' \in {"snapshotsIndexed", "filesIndexed", "npm"}
      BY <3>1, <3>2, TasksOf
    <3> QED BY <3>3, UploadsOf
  <2> QED BY <2>1, <2>2 DEF StoredInv
<1>5. CASE Check
  <2>1. AtUpload("task") /\ UNCHANGED <<phase, completed, registry>>
    BY <1>5 DEF Check, ledger, nexus
  <2>2. /\ mem.task <= Len(Tasks) /\ Task \in {"deploy", "maven", "npm"} /\ Upload \in Places
        /\ Task \notin completed /\ pc = "task"
    BY <2>1, AtUploadFacts
  <2>3. registry[Upload] \in {"none", "ours", "other"}
    BY <2>2 DEF TypeOK
  <2>4. \/ pc' = "idle"
        \/ pc' \in {"put", "confirm"} /\ mem' = mem
        \/ Task = "maven" /\ registry[Upload] = "ours" /\ NextUpload
    BY <1>5, <2>2, <2>3 DEF Check, Goto, Fail
  <2>5. ASSUME pc' \in {"put", "confirm"}, mem' = mem PROVE StoredInv'
    <3>1. Tasks' = Tasks /\ Task' = Task
      BY <2>1, <2>5, PlaceKept
    <3> QED BY <2>1, <2>2, <2>5, <3>1, StoredKept DEF StoredInv, Working
  <2> QED BY <1>2, <2>1, <2>4, <2>5, StoredOneMore DEF Working
<1>6. CASE Put
  <2>1. AtUpload("put") /\ UNCHANGED <<phase, completed>> /\ mem' = [mem EXCEPT !.answer = "none"]
    BY <1>6 DEF Put, ledger
  <2>2. mem'.task = mem.task /\ mem'.upload = mem.upload /\ mem'.answer = "none"
    BY <2>1 DEF LocalTypes
  <2>3. Tasks' = Tasks /\ Task' = Task /\ mem.task <= Len(Tasks) /\ pc = "put"
    BY <2>1, <2>2, PlaceKept, AtUploadFacts
  <2> QED BY <2>1, <2>2, <2>3, StoredKept DEF StoredInv, Working
<1>7. CASE Answer
  <2>1. AtUpload("answer") /\ mem.answer # "none" /\ UNCHANGED <<phase, completed, registry>>
    BY <1>7 DEF Answer, ledger, nexus
  <2>2. /\ mem.task <= Len(Tasks) /\ Task \in {"deploy", "maven", "npm"} /\ pc = "answer"
        /\ (Task = "maven" => mem.upload \in 1..Len(Files)) /\ Task \notin completed
    BY <2>1, AtUploadFacts
  <2>3. mem.answer \in {"none", "stored", "refused"}
    BY DEF LocalTypes
  <2>4. \/ pc' = "idle"
        \/ pc' = "confirm" /\ mem' = mem /\ Task = "npm"
        \/ Task # "npm" /\ mem.answer = "stored" /\ NextUpload
    BY <1>7, <2>1, <2>3 DEF Answer, Goto, Fail
  <2>5. ASSUME pc' = "confirm", mem' = mem PROVE StoredInv'
    <3>1. Tasks' = Tasks /\ Task' = Task
      BY <2>1, <2>5, PlaceKept
    <3> QED BY <2>1, <2>2, <2>5, <3>1, StoredKept DEF StoredInv, Working
  <2>6. ASSUME Task # "npm", mem.answer = "stored", NextUpload PROVE StoredInv'
    <3>1. Task # "deploy" => registry[Upload] = "ours"
      BY <2>2, <2>6 DEF StoredInv, Working
    <3> QED BY <2>1, <2>6, <3>1, StoredOneMore DEF Working
  <2> QED BY <1>2, <2>4, <2>5, <2>6 DEF Working
<1>8. CASE Confirm
  <2>1. AtUpload("confirm") /\ UNCHANGED <<phase, completed, registry>>
        /\ (pc' = "idle" \/ (NextUpload /\ registry[Upload] = "ours"))
    BY <1>8 DEF Confirm, Shows, Fail, ledger, nexus
  <2> QED BY <1>2, <2>1, StoredOneMore DEF Working
<1>9. ASSUME NEW u \in inflight, Live(u), Land(u), pc = "answer" PROVE StoredInv'
  <2>1. /\ mem.task <= Len(Tasks) /\ mem.upload <= Len(Uploads(Task)) /\ u[1] = Upload
        /\ u[1] \in Places /\ registry \in [Places -> {"none", "ours", "other"}]
    BY <1>9 DEF LiveInv, Live, TypeOK
  <2> DEFINE free == registry[u[1]] = "none" \/ u[1] \in Snapshots
  <2>2. /\ mem' = [mem EXCEPT !.answer = IF free THEN "stored" ELSE "refused"]
        /\ registry' = IF free THEN [registry EXCEPT ![u[1]] = "ours"] ELSE registry
        /\ UNCHANGED <<pc, phase, completed>>
    BY <1>9 DEF Land, Live, ledger
  <2>3. mem'.task = mem.task /\ mem'.upload = mem.upload
        /\ mem'.answer = (IF free THEN "stored" ELSE "refused")
    BY <2>2 DEF LocalTypes
  <2>4. mem'.answer = "stored" => registry'[Upload] = "ours"
    BY <2>1, <2>2, <2>3
  <2>5. Tasks' = Tasks /\ Task' = Task /\ Upload' = Upload
    BY <2>2, <2>3, PlaceKept
  <2> QED BY <1>9, <2>1, <2>2, <2>3, <2>4, <2>5, StoredKept DEF StoredInv, Working
<1>10. CASE pc = "answer" /\ ~Answer
  BY <1>1, <1>2, <1>9, <1>10, AnswerStep DEF Interrupt, Fail, Working
<1>11. ASSUME pc # "answer", NEW u \in inflight, Land(u) PROVE UNCHANGED <<pc, mem, phase, completed>>
  <2>1. u \in Places \X {"live", "orphan"}
    BY DEF TypeOK
  <2>2. u[2] # "live"
    <3>1. u = <<u[1], u[2]>> /\ u[1] \in Places
      BY <2>1
    <3>2. u[2] = "live" => <<u[1], "live">> \in inflight
      BY <3>1
    <3> QED BY <1>11, <3>1, <3>2 DEF TypeOK
  <2> QED BY <1>11, <2>2 DEF Land, ledger
<1>12. ASSUME Outside, \A u \in inflight : ~Land(u) PROVE UNCHANGED <<pc, mem, phase, completed>>
  BY <1>12 DEF Outside, Vanish, Index, Publish, CleanUp, Move, Restore, StartRun, PullRequest, DispatchByHand,
     AcceptRed, Rerun, EndRun, control, ledger
<1>13. ASSUME Begin \/ Integrate \/ ReadRemotes \/ StageDone \/ (\E r \in Aggregators : Intend(r)) \/ Dispatch
              \/ Intended \/ (\E r \in Judged : Poll(r)) \/ Verified \/ CIFails \/ PollAgain \/ Accept
              \/ DispatchRefused \/ Interrupt
       PROVE  pc' \notin Working
  BY <1>13, StateFacts DEF Begin, Integrate, ReadRemotes, StageDone, Intend, Dispatch, Intended, Poll, Verified,
     CIFails, PollAgain, Polled, Accept, DispatchRefused, Interrupt, Goto, Fail, Working
<1> QED BY <1>1, <1>2, <1>3, <1>4, <1>5, <1>6, <1>7, <1>8, <1>10, <1>11, <1>12, <1>13 DEF Next, Controller

LEMMA RecordedStep ==
  ASSUME IInv, Next
  PROVE  RecordedIsPublished'
<1> USE IInvParts
<1>1. \A p \in Places : registry[p] = "ours" /\ p # "train" => registry'[p] = "ours"
  BY RegistryStep
<1>2. "retained" \in Places /\ \A p \in FilePlaces : p \in Places /\ p # "train"
  BY FilesFacts DEF Places, Packages
<1>3. ASSUME Record, completed' = completed \cup {Task}
      PROVE  /\ Task = "maven" => \A p \in FilePlaces : registry[p] = "ours"
             /\ Task = "npm" => registry["retained"] = "ours"
  <2>1. pc = "task" /\ mem.task <= Len(Tasks) /\ mem.upload > Len(Uploads(Task)) /\ mem.upload \in Nat
    BY <1>3, StateFacts, FilesFacts DEF Record
  <2>2. ASSUME Task = "maven", NEW p \in FilePlaces PROVE registry[p] = "ours"
    <3>1. PICK n \in 1..Len(Files) : Files[n] = p
      BY FilesFacts
    <3>2. n \in 1..(mem.upload - 1)
      BY <2>1, <2>2, UploadsOf, FilesFacts
    <3> QED BY <2>1, <2>2, <3>1, <3>2 DEF StoredInv, Working
  <2>3. ASSUME Task = "npm" PROVE registry["retained"] = "ours"
    BY <2>1, <2>3, UploadsOf DEF StoredInv, Working
  <2> QED BY <2>2, <2>3
<1> QED BY <1>1, <1>2, <1>3, LedgerStep DEF RecordedIsPublished

----------------------------------------------------------------------------
(* GitHub.                                                                  *)

\* While CI is verified, a gated develop that moved is put back by an operator only.
LEMMA RemoteStep ==
  ASSUME IInv, Next
  PROVE  /\ remote' \in [Repos -> BOOLEAN] /\ restored' \in BOOLEAN
         /\ asked' \subseteq requested'
         /\ restored => restored'
         /\ phase = "development" /\ Undisturbed' => Undisturbed
<1> USE IInvParts
<1>1. (remote' = remote /\ restored' = restored) \/ \E r \in Repos : Move(r) \/ Restore(r)
  BY DEF Next, Controller, Outside, Begin, Integrate, ReadRemotes, ReadRecords, SkipRecorded, Check, Put, Answer,
     Confirm, Record, StageDone, Intend, Dispatch, Intended, Poll, Verified, CIFails, PollAgain, Accept,
     DispatchRefused, Interrupt, Land, Vanish, Index, Publish, CleanUp, StartRun, PullRequest, DispatchByHand,
     AcceptRed, Rerun, EndRun, github
<1>2. /\ remote' \in [Repos -> BOOLEAN] /\ restored' \in BOOLEAN
      /\ restored => restored'
      /\ phase = "development" /\ ~restored' => ~restored /\ \A r \in Repos : remote'[r] => remote[r]
  BY <1>1 DEF Move, Restore, TypeOK
<1>3. Gated \subseteq Repos
  BY DEF Gated
<1>4. asked' \subseteq asked \/ (Dispatch /\ asked' = asked \cup {mem.repo})
  BY DEF Next, Controller, Outside, Begin, Integrate, ReadRemotes, ReadRecords, SkipRecorded, Check, Put, Answer,
     Confirm, Record, StageDone, Intend, Dispatch, Intended, Poll, Verified, CIFails, PollAgain, Accept,
     DispatchRefused, Interrupt, Land, Vanish, Index, Publish, CleanUp, Move, Restore, StartRun, PullRequest,
     DispatchByHand, AcceptRed, Rerun, EndRun, github
<1>5. requested \subseteq requested'
  BY LedgerStep
<1>6. Dispatch => mem.repo \in requested
  BY DEF Dispatch, ControlInv
<1> QED BY <1>2, <1>3, <1>4, <1>5, <1>6 DEF Undisturbed, RemotesHold, TypeOK

\* Integrate starts the CI of the pushes afresh.
LEMMA IntegrateRuns ==
  ASSUME IInv, Integrate
  PROVE  /\ runs' \in [Repos -> Seq(Runs)]
         /\ \A r \in Repos : Len(runs'[r]) <= MaxRuns /\ \A n \in DOMAIN runs'[r] : ~runs'[r][n].late
<1>1. PICK early \in SUBSET Aggregators :
        runs' = [r \in Repos |->
                   IF r \in early THEN <<Run(FALSE, "dispatch", "success", FALSE)>>
                   ELSE IF r \notin Judged \/ r \in Aggregators THEN <<>>
                   ELSE <<Run(FALSE, "push", "running", TRUE)>>]
  BY DEF Integrate
<1> DEFINE a == Run(FALSE, "dispatch", "success", FALSE)
           b == Run(FALSE, "push", "running", TRUE)
<1>2. a \in Runs /\ ~a.late /\ b \in Runs /\ ~b.late
  BY RunFields
<1>3. \A r \in Repos : runs'[r] \in {<<a>>, <<>>, <<b>>}
  BY <1>1
<1> HIDE DEF a, b
<1>4. ASSUME NEW s \in {<<a>>, <<>>, <<b>>}
      PROVE  s \in Seq(Runs) /\ Len(s) <= MaxRuns /\ \A n \in DOMAIN s : ~s[n].late
  <2>1. CASE s = <<>>
    BY <2>1, BoundsAssumption
  <2>2. ASSUME NEW run \in Runs, ~run.late, s = <<run>>
        PROVE  s \in Seq(Runs) /\ Len(s) <= MaxRuns /\ \A n \in DOMAIN s : ~s[n].late
    <3>1. Len(s) = 1 /\ DOMAIN s = {1} /\ s[1] = run
      BY <2>2
    <3> QED BY <2>2, <3>1, BoundsAssumption
  <2> QED BY <1>2, <2>1, <2>2
<1> QED BY <1>1, <1>3, <1>4

\* No other step forgets a run, or changes what it is a run of.  What the pure
\* ones built is as they say while no gated repository is away or was put back.
SameRun(old, new) == new.late = old.late /\ new.event = old.event /\ (new.pure = old.pure \/ phase = "development")

LEMMA RunsStep ==
  ASSUME IInv, Next, ~Integrate, NEW r \in Repos
  PROVE  /\ runs'[r] \in Seq(Runs) /\ Len(runs'[r]) <= MaxRuns
         /\ \A n \in DOMAIN runs[r] : n \in DOMAIN runs'[r] /\ SameRun(runs[r][n], runs'[r][n])
         /\ Undisturbed' => \A n \in DOMAIN runs'[r] : Honest(runs'[r][n])
<1> USE IInvParts
<1> DEFINE Goal == /\ runs'[r] \in Seq(Runs) /\ Len(runs'[r]) <= MaxRuns
                   /\ \A n \in DOMAIN runs[r] : n \in DOMAIN runs'[r] /\ SameRun(runs[r][n], runs'[r][n])
                   /\ Undisturbed' => \A n \in DOMAIN runs'[r] : Honest(runs'[r][n])
<1>0. /\ runs \in [Repos -> Seq(Runs)] /\ Len(runs[r]) \in 0..MaxRuns /\ MaxRuns \in Nat
      /\ \A n \in DOMAIN runs[r] : runs[r][n] \in Runs
      /\ Undisturbed' => \A n \in DOMAIN runs[r] : Honest(runs[r][n])
  <2>1. Undisturbed' => Undisturbed \/ phase \in {"snapshots", "remotes", "artifacts"}
    BY PhaseStep, RemoteStep DEF Undisturbed
  <2>2. Undisturbed' => \A n \in DOMAIN runs[r] : Honest(runs[r][n])
    BY <2>1 DEF PureInv, Honest
  <2> QED BY <2>2, StateFacts, BoundsAssumption DEF LocalTypes, TypeOK
<1>00. Undisturbed' /\ phase' = phase => RemotesHold /\ phase = "development"
  BY RemoteStep DEF Undisturbed
<1>1. ASSUME runs'[r] = runs[r] PROVE Goal
  BY <1>0, <1>1 DEF SameRun
<1>2. ASSUME NEW late \in BOOLEAN, NEW event \in {"push", "dispatch", "pull_request"},
             NEW result \in {"running", "success"}, NEW pure \in BOOLEAN,
             Len(runs[r]) < MaxRuns, runs'[r] = Append(runs[r], Run(late, event, result, pure)),
             Undisturbed' => (event = "dispatch" => pure)
      PROVE  Goal
  <2> DEFINE run == Run(late, event, result, pure)
  <2>1. run \in Runs /\ run.late = late /\ run.event = event /\ run.pure = pure
    BY RunFields
  <2> HIDE DEF run
  <2>2. /\ runs'[r] \in Seq(Runs) /\ Len(runs'[r]) = Len(runs[r]) + 1
        /\ DOMAIN runs'[r] = DOMAIN runs[r] \cup {Len(runs[r]) + 1}
        /\ runs'[r][Len(runs[r]) + 1] = run /\ \A n \in DOMAIN runs[r] : runs'[r][n] = runs[r][n]
    BY <1>0, <1>2, <2>1, RunAdded DEF run
  <2>3. Undisturbed' => Honest(run)
    BY <1>0, <1>2, <2>1 DEF Honest
  <2> QED BY <1>0, <1>2, <2>2, <2>3 DEF SameRun
<1>3. ASSUME NEW n \in DOMAIN runs[r], NEW run \in Runs, runs'[r] = [runs[r] EXCEPT ![n] = run],
             SameRun(runs[r][n], run), Undisturbed' => Honest(run)
      PROVE  Goal
  <2>1. /\ runs'[r] \in Seq(Runs) /\ Len(runs'[r]) = Len(runs[r]) /\ DOMAIN runs'[r] = DOMAIN runs[r]
        /\ \A m \in DOMAIN runs[r] : runs'[r][m] = IF m = n THEN run ELSE runs[r][m]
    BY <1>0, <1>3, RunReplaced
  <2> QED BY <1>0, <1>3, <2>1 DEF SameRun
<1>4. ASSUME NEW q \in Repos, StartRun(q) PROVE Goal
  <2>1. phase' = phase
    BY <1>4 DEF StartRun, ledger
  <2>2. Undisturbed' => AllAtCommit
    BY <1>00, <2>1 DEF AllAtCommit
  <2>3. AllAtCommit \in BOOLEAN
    BY DEF AllAtCommit, RemotesHold
  <2>4. CASE runs' = [runs EXCEPT ![q] = Append(@, Run(TRUE, "dispatch", "running", AllAtCommit))] /\ q = r
             /\ Len(runs[r]) < MaxRuns
    <3>1. runs'[r] = Append(runs[r], Run(TRUE, "dispatch", "running", AllAtCommit))
      BY <1>0, <2>4
    <3> QED BY <1>2, <2>2, <2>3, <2>4, <3>1
  <2>5. CASE runs' = [runs EXCEPT ![q] = Append(@, Run(TRUE, "dispatch", "running", AllAtCommit))] /\ q # r
    BY <1>0, <1>1, <2>5
  <2> QED BY <1>1, <1>4, <2>4, <2>5 DEF StartRun
<1>5. ASSUME NEW q \in Repos, PullRequest(q) \/ DispatchByHand(q) PROVE Goal
  <2>1. phase' = phase /\ Len(runs[q]) < MaxRuns
    BY <1>5 DEF PullRequest, DispatchByHand, ledger
  <2>2. (Undisturbed' => AllAtCommit) /\ AllAtCommit \in BOOLEAN /\ (q \in requested) \in BOOLEAN
    BY <1>00, <2>1 DEF AllAtCommit, RemotesHold
  <2>3. CASE q # r
    BY <1>0, <1>1, <1>5, <2>3 DEF PullRequest, DispatchByHand
  <2>4. CASE q = r /\ PullRequest(q)
    <3>1. runs'[r] = Append(runs[r], Run(q \in requested, "pull_request", "success", FALSE))
      BY <1>0, <2>4 DEF PullRequest
    <3> QED BY <1>2, <2>1, <2>2, <2>4, <3>1
  <2>5. CASE q = r /\ DispatchByHand(q)
    <3>1. runs'[r] = Append(runs[r], Run(q \in requested, "dispatch", "running", AllAtCommit))
      BY <1>0, <2>5 DEF DispatchByHand
    <3> QED BY <1>2, <2>1, <2>2, <2>5, <3>1
  <2> QED BY <1>5, <2>3, <2>4, <2>5
<1>6. ASSUME NEW q \in Repos, NEW n, Rerun(q, n) PROVE Goal
  <2>1. /\ phase = "development" /\ phase' = phase /\ n \in DOMAIN runs[q]
        /\ runs' = [runs EXCEPT ![q][n].result = "running", ![q][n].pure = AllAtCommit]
    BY <1>6 DEF Rerun, ledger
  <2>2. CASE q # r
    BY <1>0, <1>1, <2>1, <2>2
  <2>3. CASE q = r
    <3> DEFINE run == [runs[r][n] EXCEPT !.result = "running", !.pure = AllAtCommit]
    <3>1. runs'[r] = [runs[r] EXCEPT ![n] = run]
      BY <1>0, <2>1, <2>3
    <3>2. runs[r][n] \in Runs /\ AllAtCommit \in BOOLEAN /\ (Undisturbed' => AllAtCommit)
      BY <1>0, <1>00, <2>1, <2>3 DEF AllAtCommit, RemotesHold
    <3>3. run \in Runs /\ run.late = runs[r][n].late /\ run.event = runs[r][n].event /\ run.pure = AllAtCommit
      BY <3>2 DEF Runs
    <3> HIDE DEF run
    <3>4. SameRun(runs[r][n], run) /\ (Undisturbed' => Honest(run))
      BY <2>1, <3>2, <3>3 DEF SameRun, Honest
    <3> QED BY <1>3, <2>1, <2>3, <3>1, <3>3, <3>4
  <2> QED BY <2>2, <2>3
<1>7. ASSUME NEW q \in Repos, NEW n, NEW result, EndRun(q, n, result) PROVE Goal
  <2>1. /\ n \in DOMAIN runs[q] /\ result \in {"success", "failure", "cancelled"}
        /\ runs' = [runs EXCEPT ![q][n].result = result]
    BY <1>7 DEF EndRun
  <2>2. CASE q # r
    BY <1>0, <1>1, <2>1, <2>2
  <2>3. CASE q = r
    <3> DEFINE run == [runs[r][n] EXCEPT !.result = result]
    <3>1. runs'[r] = [runs[r] EXCEPT ![n] = run]
      BY <1>0, <2>1, <2>3
    <3>2. runs[r][n] \in Runs /\ (Undisturbed' => Honest(runs[r][n]))
      BY <1>0, <2>1, <2>3
    <3>3. run \in Runs /\ run.late = runs[r][n].late /\ run.event = runs[r][n].event
          /\ run.pure = runs[r][n].pure
      BY <2>1, <3>2 DEF Runs
    <3> HIDE DEF run
    <3>4. SameRun(runs[r][n], run) /\ (Undisturbed' => Honest(run))
      BY <3>2, <3>3 DEF SameRun, Honest
    <3> QED BY <1>3, <2>1, <2>3, <3>1, <3>3, <3>4
  <2> QED BY <2>2, <2>3
<1>8. ASSUME NEW q \in Repos, Move(q) PROVE Goal
  <2>1. CASE q \in DevelopmentOnly \/ phase # "development"
    BY <1>1, <1>8, <2>1 DEF Move
  <2>2. CASE q \notin DevelopmentOnly /\ phase = "development"
    <3>1. ~Undisturbed'
      BY <1>8, <2>2 DEF Move, Undisturbed, RemotesHold, Gated, TypeOK
    <3>2. runs'[r] = [n \in DOMAIN runs[r] |->
                        IF runs[r][n].result = "running" THEN [runs[r][n] EXCEPT !.pure = FALSE] ELSE runs[r][n]]
      BY <1>8, <2>2 DEF Move
    <3>3. ASSUME NEW n \in DOMAIN runs[r]
          PROVE  runs'[r][n] \in Runs /\ SameRun(runs[r][n], runs'[r][n])
      <4> DEFINE run == runs[r][n]
      <4>1. run \in Runs
        BY <1>0
      <4>2. runs'[r][n] = IF run.result = "running" THEN [run EXCEPT !.pure = FALSE] ELSE run
        BY <3>2
      <4> HIDE DEF run
      <4>3. runs'[r][n] \in Runs /\ runs'[r][n].late = run.late /\ runs'[r][n].event = run.event
        BY <4>1, <4>2 DEF Runs
      <4> QED BY <2>2, <4>3 DEF SameRun, run
    <3>4. runs'[r] \in Seq(Runs) /\ Len(runs'[r]) = Len(runs[r]) /\ DOMAIN runs'[r] = DOMAIN runs[r]
      BY <1>0, <3>2, <3>3
    <3> QED BY <1>0, <3>1, <3>3, <3>4
  <2> QED BY <2>1, <2>2
<1>9. ASSUME Controller \/ DispatchRefused \/ Interrupt PROVE Goal
  <2>1. runs' = runs
    BY <1>9 DEF Controller, Begin, ReadRemotes, ReadRecords, SkipRecorded, Check, Put, Answer, Confirm, Record,
       StageDone, Intend, Dispatch, Intended, Poll, Verified, CIFails, PollAgain, Accept, DispatchRefused,
       Interrupt, github
  <2> QED BY <1>1, <2>1
<1>10. ASSUME \/ \E u \in inflight : Land(u) \/ Vanish(u)
              \/ \E p \in Places : Index(p) \/ Publish(p)
              \/ CleanUp
              \/ \E q \in Repos : AcceptRed(q) \/ Restore(q)
       PROVE  runs' = runs
  BY <1>10 DEF Land, Vanish, Index, Publish, CleanUp, AcceptRed, Restore, github
<1> HIDE DEF Goal
<1>11. ASSUME Outside PROVE Goal
  <2>1. runs' = runs => Goal
    BY <1>1
  <2>2. ASSUME NEW q \in Repos, Move(q) \/ Restore(q) \/ StartRun(q) \/ PullRequest(q) \/ DispatchByHand(q) \/ AcceptRed(q)
        PROVE  Goal
    BY <1>4, <1>5, <1>8, <1>10, <2>1, <2>2
  <2>3. ASSUME NEW q \in Repos, NEW n \in 1..MaxRuns,
               Rerun(q, n) \/ \E result \in {"success", "failure", "cancelled"} : EndRun(q, n, result)
        PROVE  Goal
    BY <1>6, <1>7, <2>3
  <2>4. ASSUME \/ \E u \in inflight : Land(u) \/ Vanish(u)
               \/ \E p \in Places : Index(p) \/ Publish(p)
               \/ CleanUp
        PROVE  Goal
    BY <1>10, <2>1, <2>4
  <2> QED BY <1>11, <2>2, <2>3, <2>4 DEF Outside
<1>12. Goal
  BY <1>9, <1>11 DEF Next
<1> QED BY <1>12 DEF Goal

\* Before the verification no run is one the release asked for.
LEMMA EarlyStep ==
  ASSUME IInv, Next, phase' \in {"snapshots", "remotes", "artifacts"}
  PROVE  requested' = {} /\ \A r \in Repos : \A n \in DOMAIN runs'[r] : ~runs'[r][n].late
<1> USE IInvParts
<1>1. phase \in {"snapshots", "remotes", "artifacts"}
  BY PhaseStep
<1>2. requested = {} /\ asked = {} /\ \A r \in Repos : \A n \in DOMAIN runs[r] : ~runs[r][n].late
  BY <1>1 DEF PureInv, TypeOK
<1>3. requested' = {}
  BY <1>1, <1>2, LedgerStep DEF Intend, ControlInv
<1>4. ~(\E q \in Repos : StartRun(q) \/ PullRequest(q) \/ DispatchByHand(q) \/ \E n \in 1..MaxRuns : Rerun(q, n))
  BY <1>1, <1>2 DEF StartRun, PullRequest, DispatchByHand, Rerun
<1>5. runs' = runs \/ Integrate \/ \E q \in Repos : \E n \in 1..MaxRuns :
        \E result \in {"success", "failure", "cancelled"} : EndRun(q, n, result)
  BY <1>1, <1>4 DEF Next, Controller, Outside, Begin, ReadRemotes, ReadRecords, SkipRecorded, Check, Put, Answer,
     Confirm, Record, StageDone, Intend, Dispatch, Intended, Poll, Verified, CIFails, PollAgain, Accept,
     DispatchRefused, Interrupt, Land, Vanish, Index, Publish, CleanUp, Move, Restore, AcceptRed, github
<1>6. ASSUME NEW q \in Repos, NEW m, NEW result, EndRun(q, m, result), NEW r \in Repos, NEW n \in DOMAIN runs'[r]
      PROVE  ~runs'[r][n].late
  <2>1. m \in DOMAIN runs[q] /\ runs' = [runs EXCEPT ![q][m].result = result] /\ runs \in [Repos -> Seq(Runs)]
    BY <1>6 DEF EndRun, LocalTypes
  <2>2. n \in DOMAIN runs[r] /\ runs[r][n] \in Runs
    BY <2>1, <1>6
  <2>3. runs'[r][n] = runs[r][n] \/ runs'[r][n] = [runs[r][n] EXCEPT !.result = result]
    BY <2>1, <2>2
  <2> QED BY <1>2, <2>2, <2>3 DEF Runs
<1> QED BY <1>2, <1>3, <1>5, <1>6, IntegrateRuns

LEMMA PureStep ==
  ASSUME IInv, Next
  PROVE  PureInv'
<1>1. CASE Integrate
  BY <1>1, IntegrateRuns, EarlyStep DEF PureInv, Honest
<1>2. CASE ~Integrate
  BY <1>2, RunsStep, EarlyStep DEF PureInv
<1> QED BY <1>1, <1>2

LEMMA EvidenceStep ==
  ASSUME IInv, Next
  PROVE  EvidenceInv'
<1> USE IInvParts
<1> SUFFICES ASSUME NEW r \in Repos, evidence'[r].run # 0
             PROVE  LET n == evidence'[r].run
                    IN  /\ n \in DOMAIN runs'[r]
                        /\ runs'[r][n].event \in {"push", "dispatch"}
                        /\ r \in Aggregators => runs'[r][n].event = "dispatch" /\ runs'[r][n].late
  BY DEF EvidenceInv
<1>1. CASE Integrate
  <2>1. phase = "remotes" /\ evidence' = evidence
    BY <1>1 DEF Integrate, ControlInv
  <2>2. evidence'[r] = NoAnswer
    BY <2>1 DEF ControlInv
  <2> QED BY <2>2 DEF NoAnswer
<1>2. CASE ~Integrate
  <2>1. \A n \in DOMAIN runs[r] : n \in DOMAIN runs'[r] /\ SameRun(runs[r][n], runs'[r][n])
    BY <1>2, RunsStep
  <2>2. ASSUME NEW q \in Judged, Poll(q)
        PROVE  LET n == evidence'[r].run
               IN  /\ n \in DOMAIN runs[r]
                   /\ runs[r][n].event \in {"push", "dispatch"}
                   /\ r \in Aggregators => runs[r][n].event = "dispatch" /\ runs[r][n].late
    <3>1. CASE q = r
      <4>1. evidence'[r] = IF Latest(r) = 0 THEN NoAnswer
                           ELSE [run |-> Latest(r), result |-> runs[r][Latest(r)].result]
        BY <2>2, <3>1, PollFacts DEF TypeOK
      <4>2. Latest(r) # 0 /\ evidence'[r].run = Latest(r)
        BY <4>1 DEF NoAnswer
      <4> QED BY <2>2, <3>1, <4>2, PollFacts
    <3>2. CASE q # r
      <4>1. evidence'[r] = evidence[r]
        BY <2>2, <3>2, PollFacts DEF TypeOK
      <4> QED BY <4>1 DEF EvidenceInv
    <3> QED BY <3>1, <3>2
  <2>3. LET n == evidence'[r].run
        IN  /\ n \in DOMAIN runs[r]
            /\ runs[r][n].event \in {"push", "dispatch"}
            /\ r \in Aggregators => runs[r][n].event = "dispatch" /\ runs[r][n].late
    BY <2>2, LedgerStep DEF EvidenceInv
  <2> QED BY <2>1, <2>3 DEF SameRun
<1> QED BY <1>1, <1>2

\* What a poll has found is kept until the poll ends.
LEMMA FoundStep ==
  ASSUME IInv, Next
  PROVE  \/ pc' = "idle" /\ mem' = Fresh
         \/ \E r \in Judged : Poll(r)
         \/ PollAgain
         \/ /\ mem'.looked = mem.looked /\ mem'.complete = mem.complete /\ mem'.pending = mem.pending
            /\ mem'.failed = mem.failed /\ evidence' = evidence
            /\ pc = "poll" => pc' = "poll" /\ accepted' = accepted
         \/ pc = "idle" /\ mem' = Fresh
<1> USE IInvParts
<1>1. CASE Begin
  BY <1>1 DEF Begin
<1>2. CASE Integrate \/ StageDone \/ Verified \/ CIFails \/ Accept \/ DispatchRefused \/ Interrupt
  BY <1>2 DEF Integrate, StageDone, Verified, CIFails, Accept, DispatchRefused, Interrupt, Fail
<1>3. CASE ReadRemotes \/ ReadRecords \/ Dispatch \/ Intended
  BY <1>3 DEF ReadRemotes, ReadRecords, Dispatch, Intended, Goto, Fail, ledger
<1>4. CASE SkipRecorded \/ Put \/ (\E r \in Aggregators : Intend(r))
  BY <1>4 DEF SkipRecorded, Put, AtUpload, Intend, LocalTypes, ledger
<1>5. CASE Check
  <2>1. AtUpload("task") /\ evidence' = evidence
    BY <1>5 DEF Check, ledger
  <2>2. pc = "task" /\ Task \in {"deploy", "maven", "npm"} /\ Upload \in Places
    BY <2>1, AtUploadFacts
  <2>3. registry[Upload] \in {"none", "ours", "other"}
    BY <2>2 DEF TypeOK
  <2>4. mem' = mem \/ NextUpload \/ (pc' = "idle" /\ mem' = Fresh)
    BY <1>5, <2>2, <2>3 DEF Check, Goto, Fail
  <2> QED BY <2>1, <2>2, <2>4 DEF NextUpload, LocalTypes
<1>6. CASE Answer \/ Confirm
  BY <1>6 DEF Answer, Confirm, AtUpload, NextUpload, Goto, Fail, LocalTypes, ledger
<1>7. CASE Record
  BY <1>7 DEF Record, Fail, LocalTypes
<1>8. ASSUME NEW u \in inflight, Land(u)
      PROVE  /\ mem'.looked = mem.looked /\ mem'.complete = mem.complete /\ mem'.pending = mem.pending
             /\ mem'.failed = mem.failed /\ UNCHANGED <<pc, evidence, accepted>>
  <2>1. mem' = mem \/ \E answer : mem' = [mem EXCEPT !.answer = answer]
    BY <1>8 DEF Land
  <2> QED BY <1>8, <2>1 DEF Land, LocalTypes, ledger
<1>9. ASSUME Outside, \A u \in inflight : ~Land(u)
      PROVE  UNCHANGED <<pc, mem, evidence>> /\ (pc = "poll" => accepted' = accepted)
  BY <1>9 DEF Outside, Vanish, Index, Publish, CleanUp, Move, Restore, StartRun, PullRequest, DispatchByHand,
     AcceptRed, Rerun, EndRun, control, ledger
<1> QED BY <1>1, <1>2, <1>3, <1>4, <1>5, <1>6, <1>7, <1>8, <1>9 DEF Next, Controller

Found(r) ==
  /\ evidence[r].run # 0
  /\ \/ evidence[r].result = "success"
     \/ evidence[r].result = "failure" /\ accepted[r] = evidence[r].run

LEMMA PollStep ==
  ASSUME IInv, Next
  PROVE  PollInv'
<1> USE IInvParts
<1>1. CASE mem' = Fresh
  BY <1>1 DEF PollInv, Fresh
<1>2. ASSUME NEW r \in Judged, Poll(r) PROVE PollInv'
  <2> DEFINE n == Latest(r)
             passed == n # 0 /\ Passed(r, n)
             more == mem.pending \/ n = 0 \/ runs[r][n].result = "running"
             red == mem.failed \/ (n # 0 /\ runs[r][n].result = "failure" /\ ~Passed(r, n))
  <2>1. /\ mem' = [mem EXCEPT !.looked = mem.looked \cup {r},
                             !.complete = IF passed THEN mem.complete \cup {r} ELSE mem.complete,
                             !.pending = more, !.failed = red]
        /\ pc' = "poll" /\ accepted' = accepted
    BY <1>2 DEF Poll, bounds
  <2>2. /\ mem'.looked = mem.looked \cup {r} /\ mem'.pending = more /\ mem'.failed = red
        /\ mem'.complete = (IF passed THEN mem.complete \cup {r} ELSE mem.complete)
    BY <2>1 DEF LocalTypes
  <2>3. /\ r \in Repos /\ r \notin mem.complete
        /\ evidence'[r] = IF n = 0 THEN NoAnswer ELSE [run |-> n, result |-> runs[r][n].result]
        /\ \A q \in mem.complete : evidence'[q] = evidence[q]
        /\ n # 0 => runs[r][n].result \in {"running", "success", "failure"}
    <3>1. \A q \in mem.complete : q \in Repos
      BY StateFacts
    <3> QED BY <1>2, <3>1, PollFacts DEF TypeOK
  <2>4. ~more /\ ~red => ~mem.pending /\ ~mem.failed /\ passed
    BY <2>3 DEF Passed
  <2>5. passed => /\ evidence'[r].run = n
                  /\ \/ evidence'[r].result = "success"
                     \/ evidence'[r].result = "failure" /\ accepted[r] = n
    BY <2>3 DEF Passed
  <2>6. ~mem'.pending /\ ~mem'.failed => mem'.looked \subseteq mem'.complete
    BY <2>2, <2>4 DEF PollInv
  <2>7. \A q \in mem'.complete : Found(q)'
    BY <2>1, <2>2, <2>3, <2>5 DEF PollInv, Found
  <2> QED BY <2>1, <2>6, <2>7 DEF PollInv, Found
<1>3. CASE PollAgain
  BY <1>3 DEF PollAgain, PollInv, LocalTypes, Polled, ledger
<1>4. CASE /\ mem'.looked = mem.looked /\ mem'.complete = mem.complete /\ mem'.pending = mem.pending
           /\ mem'.failed = mem.failed /\ evidence' = evidence
           /\ pc = "poll" => pc' = "poll" /\ accepted' = accepted
  BY <1>4 DEF PollInv
<1> QED BY <1>1, <1>2, <1>3, <1>4, FoundStep

LEMMA ProvenStep ==
  ASSUME IInv, Next
  PROVE  VerifiedIsProven'
<1> USE IInvParts
<1>1. CASE phase \in {"acceptance", "accepted"}
  <2>1. evidence' = evidence /\ accepted' = accepted /\ ~Integrate
    <3>1. \A r \in Judged : ~Poll(r)
      BY <1>1, PollFacts
    <3>2. \A r \in Repos : ~AcceptRed(r)
      BY <1>1 DEF AcceptRed
    <3>3. ~Integrate
      BY <1>1 DEF Integrate, ControlInv
    <3> QED BY <3>1, <3>2, <3>3, LedgerStep
  <2>2. ASSUME NEW r \in Judged
        PROVE  /\ r \in Repos /\ evidence[r].run \in DOMAIN runs[r]
               /\ SameRun(runs[r][evidence[r].run], runs'[r][evidence[r].run])
    <3>1. r \in Repos
      BY StateFacts
    <3>2. evidence[r].run \in DOMAIN runs[r]
      BY <1>1, <3>1 DEF VerifiedIsProven, EvidenceInv
    <3> QED BY <2>1, <3>1, <3>2, RunsStep
  <2> QED BY <1>1, <2>1, <2>2, RemoteStep DEF VerifiedIsProven, SameRun
<1>2. CASE Verified /\ RemotesHold /\ phase = "development"
  <2>1. /\ Judged \subseteq mem.complete \cup mem.looked /\ ~mem.failed /\ ~mem.pending
        /\ UNCHANGED <<evidence, accepted, restored, runs>>
    BY <1>2 DEF Verified, Polled, github
  <2>2. Judged \subseteq mem.complete
    BY <2>1 DEF PollInv
  <2>3. ASSUME NEW r \in Judged
        PROVE  /\ evidence[r].run # 0 /\ runs[r][evidence[r].run].event # "pull_request"
               /\ \/ evidence[r].result = "success"
                  \/ evidence[r].result = "failure" /\ accepted[r] = evidence[r].run
               /\ r \in Aggregators => /\ runs[r][evidence[r].run].late
                                       /\ runs[r][evidence[r].run].pure \/ restored
    <3>1. r \in Repos
      BY StateFacts
    <3>2. Found(r)
      BY <2>2 DEF PollInv, Found
    <3>3. /\ evidence[r].run \in DOMAIN runs[r]
          /\ runs[r][evidence[r].run].event \in {"push", "dispatch"}
          /\ r \in Aggregators => runs[r][evidence[r].run].event = "dispatch" /\ runs[r][evidence[r].run].late
      BY <3>1, <3>2 DEF Found, EvidenceInv
    <3>4. r \in Aggregators => runs[r][evidence[r].run].pure \/ restored
      BY <1>2, <3>1, <3>3 DEF PureInv, Undisturbed, Honest
    <3> QED BY <3>2, <3>3, <3>4 DEF Found
  <2> QED BY <2>1, <2>3 DEF VerifiedIsProven
<1>3. CASE phase' \notin {"acceptance", "accepted"}
  BY <1>3 DEF VerifiedIsProven
<1> QED BY <1>1, <1>2, <1>3, PhaseStep

----------------------------------------------------------------------------
(* The theorems.                                                            *)

LEMMA TypeStep ==
  ASSUME IInv, Next
  PROVE  TypeOK' /\ LocalTypes'
<1> USE IInvParts
<1>1. runs' \in [Repos -> Seq(Runs)] /\ \A r \in Repos : Len(runs'[r]) <= MaxRuns
  <2>1. CASE Integrate
    BY <2>1, IntegrateRuns
  <2>2. CASE ~Integrate
    <3>1. \A r \in Repos : runs'[r] \in Seq(Runs) /\ Len(runs'[r]) <= MaxRuns
      BY <2>2, RunsStep
    <3>2. runs' = runs \/ \E r \in Repos : Move(r) \/ StartRun(r) \/ PullRequest(r) \/ DispatchByHand(r)
                            \/ \E n \in 1..MaxRuns : Rerun(r, n)
                                 \/ \E result \in {"success", "failure", "cancelled"} : EndRun(r, n, result)
      BY <2>2 DEF Next, Controller, Outside, Begin, ReadRemotes, ReadRecords, SkipRecorded, Check, Put, Answer,
         Confirm, Record, StageDone, Intend, Dispatch, Intended, Poll, Verified, CIFails, PollAgain, Accept,
         DispatchRefused, Interrupt, Land, Vanish, Index, Publish, CleanUp, Restore, AcceptRed, github
    <3>3. DOMAIN runs' = Repos /\ runs' = [r \in Repos |-> runs'[r]]
      BY <3>2 DEF Move, Restore, StartRun, PullRequest, DispatchByHand, Rerun, EndRun, LocalTypes
    <3> QED BY <3>1, <3>3
  <2> QED BY <2>1, <2>2
<1>2. \A r \in Repos : \A n \in DOMAIN runs'[r] : runs'[r][n] \in Runs
  BY <1>1
<1>3. MemOK(mem')
  BY MemStep
<1>4. LocalTypes'
  BY <1>1, <1>3 DEF LocalTypes, MemOK, Judged, Gated
<1>5. mem'.task \in 1..4 /\ mem'.upload \in 1..(Len(Files) + 2) /\ mem'.complete \subseteq Judged /\ mem'.looked \subseteq Judged
  BY <1>3 DEF MemOK
<1>6. /\ registry' \in [Places -> {"none", "ours", "other"}]
      /\ visible' \subseteq {p \in Places : registry'[p] # "none"}
  BY RegistryStep
<1> QED BY <1>1, <1>2, <1>4, <1>5, <1>6, LedgerTypes, ControlStep, LiveStep, RemoteStep
        DEF TypeOK, Judged, Gated

LEMMA IInvInit ==
  ASSUME Init PROVE IInv
<1> USE BoundsAssumption
<1>1. MemOK(mem) /\ mem = Fresh
  BY MemFresh DEF Init
<1>2. runs \in [Repos -> Seq(Runs)] /\ \A r \in Repos : Len(runs[r]) <= MaxRuns /\ DOMAIN runs[r] = {}
  BY DEF Init
<1>3. evidence \in [Repos -> [run: 0..MaxRuns, result: {"none", "running", "success", "failure"}]]
  BY DEF Init, NoAnswer
<1>4. phase = "snapshots" /\ phase \in {Stages[n] : n \in DOMAIN Stages}
  BY PhaseNames DEF Init
<1>5. mem.task \in 1..4 /\ mem.upload \in 1..(Len(Files) + 2) /\ mem.complete \subseteq Judged /\ mem.looked \subseteq Judged
  BY <1>1 DEF MemOK
<1>11. accepted \in [Repos -> 0..MaxRuns] /\ restored \in BOOLEAN
  <2>1. accepted = [r \in Repos |-> 0] /\ restored = FALSE
    BY DEF Init
  <2>2. 0 \in 0..MaxRuns
    BY BoundsAssumption
  <2>3. accepted \in [Repos -> 0..MaxRuns]
    BY <2>1, <2>2
  <2> QED BY <2>1, <2>3
<1>12. remote \in [Repos -> BOOLEAN] /\ registry \in [Places -> {"none", "ours", "other"}]
  BY DEF Init
<1>6. TypeOK
  BY <1>2, <1>3, <1>4, <1>5, <1>11, <1>12 DEF Init, TypeOK
<1>7. LocalTypes
  BY <1>1, <1>2 DEF LocalTypes, MemOK
<1>8. ControlInv /\ LiveInv /\ RecordedIsPublished /\ VerifiedIsProven
  BY DEF Init, ControlInv, Working, LiveInv, RecordedIsPublished, VerifiedIsProven
<1>9. StoredInv /\ PollInv
  BY <1>1 DEF Init, Working, StoredInv, PollInv, Fresh
<1>10. EvidenceInv /\ PureInv
  BY <1>2 DEF Init, EvidenceInv, NoAnswer, PureInv, Undisturbed
<1> QED BY <1>6, <1>7, <1>8, <1>9, <1>10 DEF IInv

LEMMA IInvStep ==
  ASSUME IInv, [Next]_vars PROVE IInv'
<1>1. CASE Next
  BY <1>1, TypeStep, ControlStep, LiveStep, StoredStep, RecordedStep, PollStep, EvidenceStep, PureStep, ProvenStep
     DEF IInv
<1>2. CASE UNCHANGED vars
  <2>1. /\ phase' = phase /\ completed' = completed /\ requested' = requested /\ evidence' = evidence
        /\ pc' = pc /\ mem' = mem /\ registry' = registry /\ visible' = visible /\ inflight' = inflight
        /\ asked' = asked /\ remote' = remote /\ runs' = runs /\ accepted' = accepted
        /\ restored' = restored /\ others' = others /\ faults' = faults
    BY <1>2 DEF vars, ledger, control, nexus, github, bounds
  <2>2. Tasks' = Tasks /\ Task' = Task /\ Upload' = Upload /\ (RemotesHold <=> RemotesHold')
    BY <2>1 DEF Tasks, Task, Upload, RemotesHold
  <2>3. TypeOK'
    BY <2>1 DEF IInv, TypeOK
  <2>4. LocalTypes'
    BY <2>1 DEF IInv, LocalTypes
  <2>5. ControlInv'
    BY <2>1 DEF IInv, ControlInv
  <2>6. LiveInv'
    BY <2>1, <2>2 DEF IInv, LiveInv
  <2>7. StoredInv'
    BY <2>1, <2>2 DEF IInv, StoredInv
  <2>8. RecordedIsPublished'
    BY <2>1 DEF IInv, RecordedIsPublished
  <2>9. PollInv'
    BY <2>1 DEF IInv, PollInv
  <2>10. EvidenceInv'
    BY <2>1 DEF IInv, EvidenceInv
  <2>11. PureInv' /\ VerifiedIsProven'
    BY <2>1, <2>2 DEF IInv, PureInv, Undisturbed, VerifiedIsProven
  <2> QED BY <2>3, <2>4, <2>5, <2>6, <2>7, <2>8, <2>9, <2>10, <2>11 DEF IInv
<1> QED BY <1>1, <1>2

LEMMA Invariance == Spec => []IInv
BY IInvInit, IInvStep, PTL DEF Spec

\* Every variable keeps its type; an upload is awaited only by the controller
\* that made it, and a dispatch is only made with its intent recorded.
THEOREM TypeCorrect == Spec => []TypeOK
BY Invariance, PTL DEF IInv

\* What the ledger records as published is stored as it was built, whoever else
\* publishes meanwhile, whichever answers are lost and whichever uploads land
\* after the controller is gone (_publish_maven_release, _publish_npm).
THEOREM Published == Spec => []RecordedIsPublished
BY Invariance, PTL DEF IInv

\* A verified release is proven by CI of exactly its commits, whatever is moved,
\* rerun, cancelled or dispatched meanwhile, as long as no gated develop that had
\* moved was put back before the run was judged (DevelopmentVerifier.run).
THEOREM Proven == Spec => []VerifiedIsProven
BY Invariance, PTL DEF IInv
=============================================================================
