--------------------------- MODULE RemoteIntegration ---------------------------
(***************************************************************************)
(* One repository of the stages "local-refs" and "remotes" of a release:   *)
(* release_support/refs.py prepares commits in the workspace clones, and   *)
(* release_support/integration.py pushes them to a remote that others push *)
(* to as well.  A push is a child process: its answer may be lost, and it  *)
(* may outlive the controller that started it.                             *)
(***************************************************************************)
EXTENDS Integers, FiniteSets, Sequences, SequencesExt

CONSTANTS
  PushAttempts,   \* DEVELOPMENT_PUSH_ATTEMPTS
  MaxOthers,      \* bound on what others do to the remote
  MaxFaults       \* bound on crashes and lost answers

ASSUME BoundsAssumption ==
  PushAttempts \in Nat \ {0} /\ MaxOthers \in Nat /\ MaxFaults \in Nat

VARIABLES
  kind,       \* what the release does to the repository; never changes
  remote,     \* the remote's branches and refs
  prepared,   \* how far each prepared commit's branch and tag are, locally
  clone,      \* the local integration branches, <<>> for none
  pc,         \* where the controller is
  mem,        \* its local variables
  inflight,   \* pushes some child process is performing
  recorded,   \* the ledger holds the task's record
  accepted,   \* the remote was verified again for acceptance
  made,       \* integration commits written so far
  rewritten,  \* somebody has forced develop back
  others, faults

vars == <<kind, remote, prepared, clone, pc, mem, inflight, recorded, accepted, made, rewritten, others, faults>>

----------------------------------------------------------------------------
(* Git.  A commit of a branch is its first-parent history; the train's      *)
(* source is the commit <<past, captured>> of develop.                      *)

By(who, n) == [by |-> who, n |-> n]
Captured == <<By("past", 0), By("train", 0)>>
OldMain == <<By("past", 0)>>

\* "release": a stable and no next version; "both"; "development": develop
\* advances alone.
Variants == IF kind = "release" THEN {"release"}
            ELSE IF kind = "both" THEN {"release", "next"} ELSE {"next"}

\* The prepared refs, in the order they are pushed.
PreparedRefs == IF kind = "release" THEN <<"pre", "tag">>
                ELSE IF kind = "both" THEN <<"pre", "tag", "post">> ELSE <<"post">>
RefNames == {PreparedRefs[n] : n \in DOMAIN PreparedRefs}

\* The files the release advances, last changed or restored by somebody else.
Edits(history) == SelectSeq(history, LAMBDA c : c.by \in {"edit", "restore"})
Edited(history) == Edits(history) # <<>> /\ Last(Edits(history)).by = "edit"

Written(base) == Append(base, By("release", made + 1))

Init ==
  /\ kind \in {"release", "both", "development"}
  /\ remote = [main |-> OldMain, develop |-> Captured, pre |-> <<>>, tag |-> <<>>, post |-> <<>>]
  /\ prepared = [v \in {"release", "next"} |-> "files"]
  /\ clone = [main |-> <<>>, develop |-> <<>>]
  /\ pc = "idle"
  /\ mem = [seen |-> remote, base |-> <<>>, next |-> 1, try |-> 1]
  /\ inflight = {}
  /\ recorded = FALSE /\ accepted = FALSE
  /\ rewritten = FALSE
  /\ made = 0 /\ others = 0 /\ faults = 0

----------------------------------------------------------------------------
(* The controller. *)

Goto(place) == pc' = place
Fault == faults < MaxFaults /\ faults' = faults + 1
Fail == pc' = "idle"

\* release resume: local refs, then integration, then acceptance.
Begin ==
  /\ pc = "idle" /\ ~accepted
  /\ Goto(IF recorded THEN "verify" ELSE "refs")
  /\ UNCHANGED <<kind, remote, prepared, clone, mem, inflight, recorded, accepted, made, rewritten, others, faults>>

\* ReleaseRefCreator.create: the branch at the source, the commit on it, the
\* tag.  Each is found again after a crash.
RefsReady(v) == prepared[v] = IF v = "release" THEN "tagged" ELSE "committed"

PrepareRef(v) ==
  /\ pc = "refs"
  /\ v \in Variants /\ ~RefsReady(v)
  /\ prepared' = [prepared EXCEPT ![v] = CASE prepared[v] = "files"     -> "branched"
                                           [] prepared[v] = "branched"  -> "committed"
                                           [] prepared[v] = "committed" -> "tagged"]
  /\ UNCHANGED <<kind, remote, clone, pc, mem, inflight, recorded, accepted, made, rewritten, others, faults>>

Integrate ==
  /\ pc = "refs"
  /\ \A v \in Variants : RefsReady(v)
  /\ Goto(IF kind = "development" THEN "fetch" ELSE "look")
  /\ mem' = [mem EXCEPT !.try = 1]
  /\ UNCHANGED <<kind, remote, prepared, clone, inflight, recorded, accepted, made, rewritten, others, faults>>

----------------------------------------------------------------------------
(* integrate: a repository with a release commit.                           *)

\* Mutant: a main that already carries the commit is taken for its base.
MainBaseTip == remote.main

\* The commit main's integration is based on.
MainBase == IF clone.main # <<>> /\ remote.main = clone.main THEN Front(clone.main) ELSE remote.main

\* Read the remote's refs once; all later decisions are taken from what was
\* seen.  Then the integration commit of main, written or found.
Look ==
  /\ pc = "look"
  /\ mem' = [mem EXCEPT !.seen = remote, !.base = MainBase]
  /\ IF (clone.develop = <<>> /\ remote.develop # Captured)
          \/ (clone.main # <<>> /\ Front(clone.main) # MainBase)
     THEN Fail /\ UNCHANGED <<clone, made>>
     ELSE /\ Goto("commit")
          /\ IF clone.main = <<>>
             THEN clone' = [clone EXCEPT !.main = Written(MainBase)] /\ made' = made + 1
             ELSE UNCHANGED <<clone, made>>
  /\ UNCHANGED <<kind, remote, prepared, inflight, recorded, accepted, rewritten, others, faults>>

\* ... and of develop, on the train's source whatever develop is.
CommitDevelop ==
  /\ pc = "commit"
  /\ IF clone.develop = <<>>
     THEN clone' = [clone EXCEPT !.develop = Written(Captured)] /\ made' = made + 1
     ELSE UNCHANGED <<clone, made>>
  /\ mem' = [mem EXCEPT !.next = 1]
  /\ Goto("push")
  /\ UNCHANGED <<kind, remote, prepared, inflight, recorded, accepted, rewritten, others, faults>>

----------------------------------------------------------------------------
(* _integrate_development: develop alone, which may move.                   *)

\* Mutant: a commit that landed under a lost answer is not recognised.
LandedNever == FALSE

Landed == clone.develop # <<>> /\ IsPrefix(clone.develop, remote.develop)

\* Mutant: the captured files are not compared.
FollowableUnread == IsPrefix(Captured, remote.develop)

Followable == IsPrefix(Captured, remote.develop) /\ ~Edited(remote.develop)

\* Fetch develop; keep the commit that landed or that was written on this tip,
\* or write one on the tip.
Fetch ==
  /\ pc = "fetch"
  /\ LET base == IF Landed THEN Front(clone.develop) ELSE remote.develop
         kept == clone.develop # <<>> /\ Front(clone.develop) = base
     IN  IF Landed \/ Followable
         THEN /\ clone' = IF kept THEN clone ELSE [clone EXCEPT !.develop = Written(base)]
              /\ made' = IF kept THEN made ELSE made + 1
              /\ mem' = [mem EXCEPT !.base = base, !.next = 1,
                                    !.seen.develop = IF Landed THEN clone.develop ELSE base]
              /\ Goto("post")
         ELSE Fail /\ UNCHANGED <<clone, made, mem>>
  /\ UNCHANGED <<kind, remote, prepared, inflight, recorded, accepted, rewritten, others, faults>>

\* The post branch is read only now.
LookPost ==
  /\ pc = "post"
  /\ mem' = [mem EXCEPT !.seen.post = remote.post]
  /\ Goto("push")
  /\ UNCHANGED <<kind, remote, prepared, clone, inflight, recorded, accepted, made, rewritten, others, faults>>

\* Mutant: one attempt too many.
FollowOneMore ==
  /\ pc = "refused"
  /\ IF remote.develop # mem.base /\ mem.try <= PushAttempts
     THEN Goto("fetch") /\ mem' = [mem EXCEPT !.try = @ + 1]
     ELSE Fail /\ mem' = mem
  /\ UNCHANGED <<kind, remote, prepared, clone, inflight, recorded, accepted, made, rewritten, others, faults>>

\* The push of develop failed: follow a develop that moved, a bounded number of
\* times.
Follow ==
  /\ pc = "refused"
  /\ IF remote.develop # mem.base /\ mem.try < PushAttempts
     THEN Goto("fetch") /\ mem' = [mem EXCEPT !.try = @ + 1]
     ELSE Fail /\ mem' = mem
  /\ UNCHANGED <<kind, remote, prepared, clone, inflight, recorded, accepted, made, rewritten, others, faults>>

----------------------------------------------------------------------------
(* Pushing, and the answer of the remote.                                   *)

\* What is pushed, in order.
PushOrder ==
  PreparedRefs \o (IF kind = "development" THEN <<"develop">> ELSE <<"main", "develop">>)

NextRef == PushOrder[mem.next]

\* The commit a ref is pushed to, and the one it must have been at.
Target(ref) == IF ref \in {"main", "develop"} THEN clone[ref] ELSE <<By("prepared", 0)>>
Before(ref) ==
  CASE ref = "develop" /\ kind # "development" -> Captured
    [] ref \in RefNames                        -> <<>>
    [] OTHER                                   -> mem.base

\* The next ref is seen in place, or elsewhere, or it is pushed.
Push ==
  /\ pc = "push"
  /\ mem.next \in DOMAIN PushOrder
  /\ IF mem.seen[NextRef] = Target(NextRef)
     THEN mem' = [mem EXCEPT !.next = @ + 1] /\ UNCHANGED <<pc, inflight>>
     ELSE /\ IF mem.seen[NextRef] = Before(NextRef)
             THEN Goto("pushing") /\ inflight' = inflight \union {<<NextRef, Target(NextRef)>>}
             ELSE Fail /\ UNCHANGED inflight
          /\ mem' = mem
  /\ UNCHANGED <<kind, remote, prepared, clone, recorded, accepted, made, rewritten, others, faults>>

Pushed ==
  /\ pc = "push"
  /\ mem.next \notin DOMAIN PushOrder
  /\ Goto("verify")
  /\ UNCHANGED <<kind, remote, prepared, clone, mem, inflight, recorded, accepted, made, rewritten, others, faults>>

Awaiting(p) == pc = "pushing" /\ p = <<NextRef, Target(NextRef)>>

\* Where a failed push leaves the controller.
PushFails == Goto(IF kind = "development" /\ NextRef = "develop" THEN "refused" ELSE "idle")

\* No push is forced: the remote takes a new ref, or a descendant of a branch.
Accepts(p) == IsPrefix(remote[p[1]], p[2])

Land(p) ==
  /\ p \in inflight
  /\ Accepts(p)
  /\ remote' = [remote EXCEPT ![p[1]] = p[2]]
  /\ inflight' = inflight \ {p}
  /\ IF Awaiting(p)
     THEN Goto("push") /\ mem' = [mem EXCEPT !.seen[p[1]] = p[2]]
     ELSE UNCHANGED <<pc, mem>>
  /\ UNCHANGED <<kind, prepared, clone, recorded, accepted, made, rewritten, others, faults>>

Reject(p) ==
  /\ p \in inflight
  /\ ~Accepts(p)
  /\ inflight' = inflight \ {p}
  /\ IF Awaiting(p) THEN PushFails ELSE UNCHANGED pc
  /\ UNCHANGED <<kind, remote, prepared, clone, mem, recorded, accepted, made, rewritten, others, faults>>

\* The answer is lost; the push may still arrive, or not.
LoseAnswer(p) ==
  /\ Awaiting(p)
  /\ Fault
  /\ inflight' \in {inflight, inflight \ {p}}
  /\ PushFails
  /\ UNCHANGED <<kind, remote, prepared, clone, mem, recorded, accepted, made, rewritten, others>>

----------------------------------------------------------------------------
(* Verification and the record.                                             *)

Verified ==
  /\ \A r \in RefNames : remote[r] = Target(r)
  /\ IF kind = "development" THEN Landed
     ELSE remote.main = clone.main /\ remote.develop = clone.develop

\* verify_record before the task is recorded, and again at acceptance.
Verify ==
  /\ pc = "verify"
  /\ IF Verified /\ ~recorded THEN Goto("save") ELSE Goto("idle")
  /\ accepted' = (Verified /\ recorded)
  /\ UNCHANGED <<kind, remote, prepared, clone, mem, inflight, recorded, made, rewritten, others, faults>>

Save ==
  /\ pc = "save"
  /\ recorded' = TRUE
  /\ Goto("idle")
  /\ UNCHANGED <<kind, remote, prepared, clone, mem, inflight, accepted, made, rewritten, others, faults>>

Crash ==
  /\ pc # "idle"
  /\ Fault
  /\ Goto("idle")
  /\ UNCHANGED <<kind, remote, prepared, clone, mem, inflight, recorded, accepted, made, rewritten, others>>

----------------------------------------------------------------------------
(* What others do to the remote.                                            *)

Others(ref, commit) ==
  /\ others < MaxOthers
  /\ others' = others + 1
  /\ remote' = [remote EXCEPT ![ref] = commit]
  /\ UNCHANGED <<kind, prepared, clone, pc, mem, inflight, recorded, accepted, made, faults>>

OthersPush ==
  /\ rewritten' = rewritten
  /\ \/ Others("main", Append(remote.main, By("other", others + 1)))
     \/ \E who \in {"other", "edit", "restore"} :
          /\ who = "restore" => Edited(remote.develop)
          /\ Others("develop", Append(remote.develop, By(who, others + 1)))

\* Somebody forces develop back to an earlier commit of it.
OthersRewrite ==
  /\ rewritten' = TRUE
  /\ \E n \in 1..(Len(remote.develop) - 1) : Others("develop", SubSeq(remote.develop, 1, n))

\* A ref of the release's name is made by somebody else.
OthersTake ==
  /\ rewritten' = rewritten
  /\ \E ref \in RefNames : remote[ref] = <<>> /\ Others(ref, <<By("other", others + 1)>>)

----------------------------------------------------------------------------

Controller ==
  \/ (\E v \in Variants : PrepareRef(v)) \/ Integrate
  \/ Look \/ CommitDevelop \/ Fetch \/ LookPost \/ Follow
  \/ Push \/ Pushed \/ Verify \/ Save

Next ==
  \/ Begin \/ Controller \/ Crash
  \/ (\E p \in inflight : Land(p) \/ Reject(p) \/ LoseAnswer(p))
  \/ OthersPush \/ OthersRewrite \/ OthersTake

Spec == Init /\ [][Next]_vars

\* A push ends, a running command goes on, and the operator resumes.
FairSpec ==
  /\ Spec
  /\ WF_vars(Begin) /\ WF_vars(Controller)
  /\ WF_vars(\E p \in inflight : Land(p) \/ Reject(p))

----------------------------------------------------------------------------
(* Properties. *)

Commits == [by : {"past", "train", "prepared", "release", "other", "edit", "restore"}, n : Nat]

Histories == Seq(Commits)

\* No more attempts to follow develop than the code allows are ever made.
TypeOK ==
  /\ kind \in {"release", "both", "development"}
  /\ remote \in [{"main", "develop", "pre", "tag", "post"} -> Histories]
  /\ prepared \in [{"release", "next"} -> {"files", "branched", "committed", "tagged"}]
  /\ clone \in [{"main", "develop"} -> Histories]
  /\ pc \in {"idle", "refs", "look", "commit", "fetch", "post", "push", "pushing", "refused",
              "verify", "save"}
  /\ mem.seen \in [{"main", "develop", "pre", "tag", "post"} -> Histories] /\ mem.base \in Histories
  /\ mem.next \in 1..(Len(PushOrder) + 1) /\ mem.try \in 1..PushAttempts
  /\ inflight \subseteq {"main", "develop", "pre", "tag", "post"} \X Histories
  /\ recorded \in BOOLEAN /\ accepted \in BOOLEAN /\ rewritten \in BOOLEAN
  /\ made \in Nat /\ others \in 0..MaxOthers /\ faults \in 0..MaxFaults

Ours(history) == {n \in DOMAIN history : history[n].by = "release"}

\* A branch moves to the release only after the refs that identify it exist,
\* and develop only after main.
EvidenceFirst ==
  /\ Ours(remote.main) \union Ours(remote.develop) # {} =>
       \A r \in RefNames : remote[r] = Target(r)
  /\ kind # "development" /\ Ours(remote.develop) # {} => Ours(remote.main) # {}

\* Whatever answers are lost and however often the release is resumed, a branch
\* carries at most one integration commit, unless somebody forces it back, and
\* the refs are moved in the order that identifies what happened.
IntegratedOnce ==
  /\ ~rewritten => \A ref \in {"main", "develop"} : Cardinality(Ours(remote[ref])) <= 1
  /\ EvidenceFirst

\* Nothing somebody else pushed is lost.  Neither does the release's tree replace
\* what it has not seen: on develop it is written on exactly the train's source,
\* or, where develop is followed, on files that are as the train captured them.
NothingIsOverwritten ==
  /\ ~rewritten => \A n \in 1..others : \E ref \in DOMAIN remote, who \in {"other", "edit", "restore"} :
       Contains(remote[ref], By(who, n))
  /\ \A n \in Ours(remote.develop) :
       LET base == SubSeq(remote.develop, 1, n - 1)
       IN  IF kind = "development" THEN IsPrefix(Captured, base) /\ ~Edited(base)
                                   ELSE base = Captured

\* What the code refuses and leaves to the operator: a ref of its name that is
\* somebody else's, a branch of a release repository that moved, a followed
\* develop that lost the source or changed the captured files, and anything that
\* no longer is as it was recorded.
Obstructed ==
  \/ \E r \in RefNames : remote[r] \notin {<<>>, Target(r)}
  \/ recorded /\ ~Verified
  \/ kind = "development" /\ ~Landed /\ ~Followable
  \/ /\ kind # "development"
     /\ \/ remote.develop \notin {Captured, clone.develop}
        \/ clone.main # <<>> /\ remote.main \notin {clone.main, Front(clone.main)}

\* Nothing else holds a release up: no crash and no lost answer of its own.
Completes == <>[]~Obstructed => <>accepted
=============================================================================
