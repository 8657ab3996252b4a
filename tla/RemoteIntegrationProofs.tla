------------------------ MODULE RemoteIntegrationProofs ------------------------
(***************************************************************************)
(* What TLAPS proves of the integration of one remote, for every number of *)
(* attempts, of crashes and lost answers, and of pushes by others: a       *)
(* branch is integrated once, after the refs that identify it, and nothing *)
(* somebody else pushed is lost.                                           *)
(***************************************************************************)
EXTENDS RemoteIntegration, TLAPS, SequenceTheorems, FiniteSetTheorems

----------------------------------------------------------------------------
(* The inductive invariant.                                                 *)

RemoteRefs == {"main", "develop", "pre", "tag", "post"}
Branches == {"main", "develop"}
PreparedAt == <<By("prepared", 0)>>

\* What TypeOK leaves open: mem is a record, and the next version has no tag.
LocalTypes ==
  /\ mem \in [seen : [RemoteRefs -> Histories], base : Histories, next : Nat, try : Nat]
  /\ prepared["next"] # "tagged"

\* A branch of the clone is the remote's and one commit of ours.  Every push in
\* flight carries it, or can no longer be accepted, and the remote has a commit
\* of ours only by having that one.
BranchInv(ref) ==
  /\ clone[ref] # <<>> =>
       /\ Ours(clone[ref]) = {Len(clone[ref])}
       /\ IsPrefix(Front(clone[ref]), remote[ref])
  /\ \A p \in inflight : p[1] = ref =>
       p[2] # <<>> /\ (p[2] = clone[ref] \/ ~IsPrefix(remote[ref], p[2]))
  /\ Ours(remote[ref]) # {} =>
       clone[ref] # <<>> /\ IsPrefix(clone[ref], remote[ref]) /\ Ours(remote[ref]) = {Len(clone[ref])}

\* ... main always, develop while nobody forces it back.
BranchesInv ==
  /\ BranchInv("main")
  /\ ~rewritten => BranchInv("develop") /\ IsPrefix(Captured, remote.develop)

\* A commit of ours is written on the train's source, or on files unchanged since.
WrittenOn(base) ==
  IF kind = "development" THEN IsPrefix(Captured, base) /\ ~Edited(base) ELSE base = Captured
GoodHistory(history) == \A n \in Ours(history) : WrittenOn(SubSeq(history, 1, n - 1))

WrittenInv ==
  /\ GoodHistory(remote.develop) /\ GoodHistory(clone.develop)
  /\ \A p \in inflight : p[1] = "develop" => GoodHistory(p[2])

\* What the controller has seen in place is in place: refs of the release's name
\* never move again, and a main that was seen with our commit keeps it.
AllPrepared == \A r \in RefNames : remote[r] = PreparedAt
SeenInv ==
  /\ \A r \in RefNames : mem.seen[r] = PreparedAt => remote[r] = PreparedAt
  /\ Ours(mem.seen.main) # {} => Ours(remote.main) # {}

\* A push in flight was preceded by those it depends on.
InflightInv ==
  \A p \in inflight :
    /\ p[1] \in RefNames => p[2] = PreparedAt
    /\ p[1] \in Branches => AllPrepared
    /\ p[1] = "develop" /\ kind # "development" => Ours(remote.main) # {}

\* Everything before the next ref was seen in place; what is to be pushed exists.
PushInv ==
  /\ pc = "commit" => kind # "development" /\ clone.main # <<>>
  /\ pc = "look" => kind # "development"
  /\ pc = "post" => clone.develop # <<>> /\ mem.next = 1
  /\ pc \in {"fetch", "post", "refused"} => kind = "development"
  /\ pc \in {"push", "pushing"} =>
       /\ \A j \in 1..(mem.next - 1) : mem.seen[PushOrder[j]] = Target(PushOrder[j])
       /\ clone.develop # <<>> /\ (kind # "development" => clone.main # <<>>)
  /\ pc = "pushing" => mem.next \in DOMAIN PushOrder

\* What others pushed is still there.
OthersInv ==
  ~rewritten => \A n \in 1..others : \E ref \in RemoteRefs, who \in {"other", "edit", "restore"} :
    Contains(remote[ref], By(who, n))

IInv ==
  /\ TypeOK /\ LocalTypes
  /\ BranchesInv /\ WrittenInv /\ SeenInv /\ InflightInv /\ EvidenceFirst /\ PushInv /\ OthersInv

----------------------------------------------------------------------------
(* Histories.                                                               *)

\* One history is a prefix of another when it is as long at most and agrees
\* with it.
LEMMA PrefixAgrees ==
  ASSUME NEW s \in Histories, NEW t \in Histories
  PROVE  IsPrefix(s, t) <=> Len(s) <= Len(t) /\ \A n \in 1..Len(s) : s[n] = t[n]
<1>1. Len(s) \in Nat /\ Len(t) \in Nat
  BY DEF Histories
<1>2. CASE Len(s) <= Len(t)
  <2>1. /\ SubSeq(s, 1, Len(s)) = [n \in 1..Len(s) |-> s[n]]
        /\ SubSeq(t, 1, Len(s)) = [n \in 1..Len(s) |-> t[n]]
    BY <1>1, <1>2, SubSeqProperties DEF Histories
  <2>2. IsPrefix(s, t) <=> SubSeq(s, 1, Len(s)) = SubSeq(t, 1, Len(s))
    BY <1>2 DEF IsPrefix
  <2>3. ([n \in 1..Len(s) |-> s[n]] = [n \in 1..Len(s) |-> t[n]])
           <=> \A n \in 1..Len(s) : s[n] = t[n]
    OBVIOUS
  <2> QED BY <1>2, <2>1, <2>2, <2>3
<1> QED BY <1>1, <1>2 DEF IsPrefix

LEMMA PrefixReflexive ==
  ASSUME NEW s \in Histories PROVE IsPrefix(s, s)
BY PrefixAgrees DEF Histories

LEMMA PrefixTransitive ==
  ASSUME NEW s \in Histories, NEW t \in Histories, NEW u \in Histories,
         IsPrefix(s, t), IsPrefix(t, u)
  PROVE  IsPrefix(s, u)
<1>1. Len(s) \in Nat /\ Len(t) \in Nat /\ Len(u) \in Nat
  BY DEF Histories
<1>2. Len(s) <= Len(t) /\ Len(t) <= Len(u)
  BY PrefixAgrees
<1>3. \A n \in 1..Len(s) : s[n] = t[n] /\ t[n] = u[n]
  BY <1>1, <1>2, PrefixAgrees
<1> QED BY <1>1, <1>2, <1>3, PrefixAgrees

\* A prefix that is as long is the history itself.
LEMMA PrefixAsLong ==
  ASSUME NEW s \in Histories, NEW t \in Histories, IsPrefix(s, t), Len(t) <= Len(s)
  PROVE  s = t
<1>1. Len(s) = Len(t) /\ Len(s) \in Nat /\ \A n \in 1..Len(s) : s[n] = t[n]
  BY PrefixAgrees DEF Histories
<1> QED BY <1>1, SeqEqual DEF Histories

LEMMA PrefixOfAppend ==
  ASSUME NEW s \in Histories, NEW c \in Commits
  PROVE  /\ Append(s, c) \in Histories /\ Append(s, c) # <<>>
         /\ Len(Append(s, c)) = Len(s) + 1 /\ Append(s, c)[Len(s) + 1] = c
         /\ IsPrefix(s, Append(s, c)) /\ Front(Append(s, c)) = s
<1>1. Append(s, c) \in Histories /\ Append(s, c) # <<>> /\ Len(Append(s, c)) = Len(s) + 1
      /\ Append(s, c)[Len(s) + 1] = c /\ \A n \in 1..Len(s) : Append(s, c)[n] = s[n]
  BY AppendProperties DEF Histories
<1>2. IsPrefix(s, Append(s, c))
  <2>1. Len(s) \in Nat /\ Len(s) <= Len(Append(s, c))
    BY <1>1 DEF Histories
  <2>2. \A n \in 1..Len(s) : s[n] = Append(s, c)[n]
    BY <1>1
  <2> DEFINE t == Append(s, c)
  <2>3. t \in Histories /\ Len(s) <= Len(t) /\ \A n \in 1..Len(s) : s[n] = t[n]
    BY <1>1, <2>1, <2>2
  <2> HIDE DEF t
  <2>4. IsPrefix(s, t)
    BY <2>3, PrefixAgrees
  <2> QED BY <2>4 DEF t
<1>3. Front(Append(s, c)) = s
  BY <1>1, SeqEqual, SubSeqProperties DEF Front, Histories
<1> QED BY <1>1, <1>2, <1>3

\* The first n commits.
LEMMA FirstCommits ==
  ASSUME NEW s \in Histories, NEW n \in 0..Len(s)
  PROVE  /\ SubSeq(s, 1, n) \in Histories /\ Len(SubSeq(s, 1, n)) = n
         /\ \A k \in 1..n : SubSeq(s, 1, n)[k] = s[k]
         /\ IsPrefix(SubSeq(s, 1, n), s)
<1>1. Len(s) \in Nat
  BY DEF Histories
<1>2. SubSeq(s, 1, n) \in Histories
  BY <1>1, SubSeqProperties DEF Histories
<1>3. Len(SubSeq(s, 1, n)) = n /\ \A k \in 1..n : SubSeq(s, 1, n)[k] = s[k]
  BY <1>1, SubSeqProperties DEF Histories
<1> DEFINE t == SubSeq(s, 1, n)
<1>4. t \in Histories /\ Len(t) = n /\ \A k \in 1..n : t[k] = s[k]
  BY <1>2, <1>3
<1> HIDE DEF t
<1>5. IsPrefix(t, s)
  BY <1>1, <1>4, PrefixAgrees
<1> QED BY <1>4, <1>5 DEF t

LEMMA FrontIsPrefix ==
  ASSUME NEW s \in Histories, s # <<>>
  PROVE  Front(s) \in Histories /\ Len(Front(s)) = Len(s) - 1 /\ IsPrefix(Front(s), s)
<1>1. Len(s) \in Nat /\ Len(s) # 0
  BY EmptySeq DEF Histories
<1>2. Len(s) - 1 \in 0..Len(s)
  BY <1>1
<1> QED BY <1>2, FirstCommits DEF Front

\* What was pushed before one of the first commits of s is what was before it
\* in every history that s is a prefix of.
LEMMA SameBefore ==
  ASSUME NEW s \in Histories, NEW t \in Histories, IsPrefix(s, t), NEW n \in 1..Len(s)
  PROVE  n \in 1..Len(t) /\ t[n] = s[n] /\ SubSeq(t, 1, n - 1) = SubSeq(s, 1, n - 1)
<1>1. Len(s) \in Nat /\ Len(t) \in Nat /\ Len(s) <= Len(t) /\ \A k \in 1..Len(s) : s[k] = t[k]
  BY PrefixAgrees DEF Histories
<1>2. n - 1 \in 0..Len(s) /\ n - 1 \in 0..Len(t)
  BY <1>1
<1> DEFINE u == SubSeq(s, 1, n - 1)
           v == SubSeq(t, 1, n - 1)
<1>3. u \in Histories /\ v \in Histories /\ Len(u) = n - 1 /\ Len(v) = n - 1
      /\ \A k \in 1..(n - 1) : u[k] = s[k] /\ v[k] = t[k]
  BY <1>2, FirstCommits
<1>4. \A k \in 1..(n - 1) : u[k] = v[k]
  BY <1>1, <1>3
<1>5. u = v
  <2> HIDE DEF u, v
  <2> QED BY <1>3, <1>4, SeqEqual DEF Histories
<1> QED BY <1>1, <1>5

\* The commits of the release in a history that somebody adds a commit to.
LEMMA OursOfAppend ==
  ASSUME NEW s \in Histories, NEW c \in Commits
  PROVE  Ours(Append(s, c)) = Ours(s) \union (IF c.by = "release" THEN {Len(s) + 1} ELSE {})
<1> DEFINE t == Append(s, c)
<1>1. Len(s) \in Nat /\ Len(t) = Len(s) + 1 /\ t[Len(s) + 1] = c /\ DOMAIN t = 1..(Len(s) + 1)
      /\ DOMAIN s = 1..Len(s) /\ \A n \in 1..Len(s) : t[n] = s[n]
  BY AppendProperties DEF Histories
<1> HIDE DEF t
<1>2. ASSUME NEW n \in DOMAIN t
      PROVE  t[n].by = "release" <=> (n \in DOMAIN s /\ s[n].by = "release")
                                       \/ (n = Len(s) + 1 /\ c.by = "release")
  BY <1>1
<1>3. DOMAIN s \subseteq DOMAIN t /\ Len(s) + 1 \in DOMAIN t
  BY <1>1
<1>4. Ours(t) = Ours(s) \union (IF c.by = "release" THEN {Len(s) + 1} ELSE {})
  BY <1>2, <1>3 DEF Ours
<1> QED BY <1>4 DEF t

LEMMA OursOfPrefix ==
  ASSUME NEW s \in Histories, NEW t \in Histories, IsPrefix(s, t)
  PROVE  Ours(s) \subseteq Ours(t)
<1>1. DOMAIN s = 1..Len(s) /\ DOMAIN t = 1..Len(t)
  BY DEF Histories
<1> QED BY <1>1, SameBefore DEF Ours

LEMMA ContainsKept ==
  ASSUME NEW s \in Histories, NEW t \in Histories, IsPrefix(s, t), NEW c, Contains(s, c)
  PROVE  Contains(t, c)
<1>1. PICK n \in 1..Len(s) : s[n] = c
  BY DEF Contains
<1>2. n \in 1..Len(t) /\ t[n] = c
  BY <1>1, SameBefore
<1> QED BY <1>2 DEF Contains

\* The histories that the program itself names.
LEMMA NamedHistories ==
  /\ \A who \in {"past", "train", "prepared", "release", "other", "edit", "restore"}, n \in Nat :
       By(who, n) \in Commits /\ By(who, n).by = who
  /\ Captured \in Histories /\ OldMain \in Histories /\ PreparedAt \in Histories /\ <<>> \in Histories
  /\ Ours(Captured) = {} /\ Ours(OldMain) = {} /\ Ours(<<>>) = {} /\ PreparedAt # <<>>
<1>1. \A who \in {"past", "train", "prepared", "release", "other", "edit", "restore"}, n \in Nat :
        By(who, n) \in Commits /\ By(who, n).by = who
  BY DEF By, Commits
<1>2. Captured \in Histories /\ OldMain \in Histories /\ PreparedAt \in Histories /\ <<>> \in Histories
  BY <1>1 DEF Captured, OldMain, PreparedAt, Histories
<1>3. Ours(Captured) = {} /\ Ours(OldMain) = {} /\ Ours(<<>>) = {} /\ PreparedAt # <<>>
  BY DEF Captured, OldMain, PreparedAt, Ours, By
<1> QED BY <1>1, <1>2, <1>3

\* What is pushed, in order, for each kind.
LEMMA Orders ==
  /\ kind = "release" => PushOrder = <<"pre", "tag", "main", "develop">> /\ RefNames = {"pre", "tag"}
  /\ kind = "both" => PushOrder = <<"pre", "tag", "post", "main", "develop">>
                      /\ RefNames = {"pre", "tag", "post"}
  /\ kind = "development" => PushOrder = <<"post", "develop">> /\ RefNames = {"post"}
<1>1. ASSUME NEW s \in Seq(RemoteRefs), NEW t \in Seq(RemoteRefs), NEW u \in Seq(RemoteRefs),
             Len(u) = Len(s) + Len(t),
             \A n \in 1..Len(s) : u[n] = s[n], \A n \in 1..Len(t) : u[Len(s) + n] = t[n]
      PROVE  s \o t = u
  <2> DEFINE v == s \o t
  <2>1. v \in Seq(RemoteRefs) /\ Len(v) = Len(s) + Len(t)
        /\ \A n \in 1..(Len(s) + Len(t)) : v[n] = IF n <= Len(s) THEN s[n] ELSE t[n - Len(s)]
    BY ConcatProperties
  <2> HIDE DEF v
  <2>2. ASSUME NEW n \in 1..Len(v) PROVE v[n] = u[n]
    <3>1. Len(s) \in Nat /\ Len(t) \in Nat
      OBVIOUS
    <3>2. CASE n <= Len(s)
      BY <1>1, <2>1, <3>1, <3>2
    <3>3. CASE n > Len(s)
      <4>1. n - Len(s) \in 1..Len(t) /\ v[n] = t[n - Len(s)] /\ Len(s) + (n - Len(s)) = n
        BY <2>1, <3>1, <3>3
      <4> QED BY <1>1, <4>1
    <3> QED BY <3>1, <3>2, <3>3, <2>1
  <2>3. v = u
    BY <1>1, <2>1, <2>2, SeqEqual
  <2> QED BY <2>3 DEF v
<1>2. CASE kind = "release"
  <2>1. <<"pre", "tag">> \o <<"main", "develop">> = <<"pre", "tag", "main", "develop">>
    <3> DEFINE s == <<"pre", "tag">>  t == <<"main", "develop">>  u == <<"pre", "tag", "main", "develop">>
    <3>1. s \in Seq(RemoteRefs) /\ t \in Seq(RemoteRefs) /\ u \in Seq(RemoteRefs)
      BY DEF RemoteRefs
    <3>2. /\ Len(u) = Len(s) + Len(t)
          /\ \A n \in 1..Len(s) : u[n] = s[n]
          /\ \A n \in 1..Len(t) : u[Len(s) + n] = t[n]
      OBVIOUS
    <3> QED BY <1>1, <3>1, <3>2
  <2> QED BY <1>2, <2>1 DEF PushOrder, PreparedRefs, RefNames
<1>3. CASE kind = "both"
  <2>1. <<"pre", "tag", "post">> \o <<"main", "develop">> = <<"pre", "tag", "post", "main", "develop">>
    <3> DEFINE s == <<"pre", "tag", "post">>  t == <<"main", "develop">>  u == <<"pre", "tag", "post", "main", "develop">>
    <3>1. s \in Seq(RemoteRefs) /\ t \in Seq(RemoteRefs) /\ u \in Seq(RemoteRefs)
      BY DEF RemoteRefs
    <3>2. /\ Len(u) = Len(s) + Len(t)
          /\ \A n \in 1..Len(s) : u[n] = s[n]
          /\ \A n \in 1..Len(t) : u[Len(s) + n] = t[n]
      OBVIOUS
    <3> QED BY <1>1, <3>1, <3>2
  <2> QED BY <1>3, <2>1 DEF PushOrder, PreparedRefs, RefNames
<1>4. CASE kind = "development"
  <2>1. <<"post">> \o <<"develop">> = <<"post", "develop">>
    <3> DEFINE s == <<"post">>  t == <<"develop">>  u == <<"post", "develop">>
    <3>1. s \in Seq(RemoteRefs) /\ t \in Seq(RemoteRefs) /\ u \in Seq(RemoteRefs)
      BY DEF RemoteRefs
    <3>2. /\ Len(u) = Len(s) + Len(t)
          /\ \A n \in 1..Len(s) : u[n] = s[n]
          /\ \A n \in 1..Len(t) : u[Len(s) + n] = t[n]
      OBVIOUS
    <3> QED BY <1>1, <3>1, <3>2
  <2> QED BY <1>4, <2>1 DEF PushOrder, PreparedRefs, RefNames
<1> QED BY <1>2, <1>3, <1>4

\* Every ref of the release is pushed before a branch, and main before develop.
LEMMA OrderIsSafe ==
  ASSUME TypeOK
  PROVE  /\ RefNames \subseteq RemoteRefs \ Branches
         /\ Len(PushOrder) \in Nat /\ DOMAIN PushOrder = 1..Len(PushOrder)
         /\ \A n \in DOMAIN PushOrder :
              /\ PushOrder[n] \in RefNames \union Branches
              /\ PushOrder[n] = "main" => kind # "development"
              /\ PushOrder[n] \in Branches => \A r \in RefNames : \E j \in 1..(n - 1) : PushOrder[j] = r
              /\ PushOrder[n] = "develop" /\ kind # "development" =>
                   \E j \in 1..(n - 1) : PushOrder[j] = "main"
<1>1. CASE kind = "release"
  <2>1. /\ RefNames = {"pre", "tag"} /\ Len(PushOrder) = 4 /\ DOMAIN PushOrder = 1..4
        /\ PushOrder[1] = "pre" /\ PushOrder[2] = "tag" /\ PushOrder[3] = "main"
        /\ PushOrder[4] = "develop"
    BY <1>1, Orders
  <2> QED BY <1>1, <2>1 DEF RemoteRefs, Branches
<1>2. CASE kind = "both"
  <2>1. /\ RefNames = {"pre", "tag", "post"} /\ Len(PushOrder) = 5 /\ DOMAIN PushOrder = 1..5
        /\ PushOrder[1] = "pre" /\ PushOrder[2] = "tag" /\ PushOrder[3] = "post"
        /\ PushOrder[4] = "main" /\ PushOrder[5] = "develop"
    BY <1>2, Orders
  <2> QED BY <1>2, <2>1 DEF RemoteRefs, Branches
<1>3. CASE kind = "development"
  <2>1. /\ RefNames = {"post"} /\ Len(PushOrder) = 2 /\ DOMAIN PushOrder = 1..2
        /\ PushOrder[1] = "post" /\ PushOrder[2] = "develop"
    BY <1>3, Orders
  <2> QED BY <1>3, <2>1 DEF RemoteRefs, Branches
<1> QED BY <1>1, <1>2, <1>3 DEF TypeOK

\* A prefix of what is well written is well written, and so is a history that
\* somebody adds a commit to, unless it is one of ours on other files.
LEMMA GoodPrefix ==
  ASSUME NEW s \in Histories, NEW t \in Histories, IsPrefix(s, t), GoodHistory(t)
  PROVE  GoodHistory(s)
<1> SUFFICES ASSUME NEW n \in Ours(s) PROVE WrittenOn(SubSeq(s, 1, n - 1))
  BY DEF GoodHistory
<1>1. n \in 1..Len(s)
  BY DEF Ours, Histories
<1>2. n \in Ours(t) /\ SubSeq(t, 1, n - 1) = SubSeq(s, 1, n - 1)
  BY <1>1, OursOfPrefix, SameBefore
<1> QED BY <1>2 DEF GoodHistory

LEMMA GoodAppend ==
  ASSUME NEW s \in Histories, NEW c \in Commits, GoodHistory(s), c.by = "release" => WrittenOn(s)
  PROVE  GoodHistory(Append(s, c))
<1> DEFINE t == Append(s, c)
<1>1. t \in Histories /\ Len(t) = Len(s) + 1 /\ IsPrefix(s, t) /\ Front(t) = s
  BY PrefixOfAppend
<1>2. Ours(t) = Ours(s) \union (IF c.by = "release" THEN {Len(s) + 1} ELSE {})
  BY OursOfAppend
<1> HIDE DEF t
<1> SUFFICES ASSUME NEW n \in Ours(t) PROVE WrittenOn(SubSeq(t, 1, n - 1))
  BY DEF GoodHistory, t
<1>3. CASE n \in Ours(s)
  <2>1. n \in 1..Len(s)
    BY <1>3 DEF Ours, Histories
  <2>2. SubSeq(t, 1, n - 1) = SubSeq(s, 1, n - 1)
    BY <1>1, <2>1, SameBefore
  <2> QED BY <1>3, <2>2 DEF GoodHistory
<1>4. CASE n \notin Ours(s)
  <2>1. n = Len(t) /\ c.by = "release"
    BY <1>1, <1>2, <1>4 DEF Histories
  <2> QED BY <1>1, <2>1 DEF Front
<1> QED BY <1>3, <1>4

----------------------------------------------------------------------------
(* Types.                                                                   *)

LEMMA IInvParts ==
  IInv <=> /\ TypeOK /\ LocalTypes
           /\ BranchesInv /\ WrittenInv /\ SeenInv /\ InflightInv /\ EvidenceFirst /\ PushInv /\ OthersInv
BY DEF IInv

\* What the release does to the repository never changes.
LEMMA KindFixed ==
  ASSUME [Next]_vars
  PROVE  /\ kind' = kind /\ RefNames' = RefNames /\ PushOrder' = PushOrder
         /\ \A base : WrittenOn(base)' <=> WrittenOn(base)
<1>1. kind' = kind
  BY DEF Next, Controller, Begin, PrepareRef, Integrate, Look, CommitDevelop, Fetch, LookPost, Follow,
         Push, Pushed, Verify, Save, Crash, Land, Reject, LoseAnswer, OthersPush, OthersRewrite,
         OthersTake, Others, vars
<1> QED BY <1>1 DEF RefNames, PushOrder, PreparedRefs, WrittenOn

\* What a push is: a ref, and the history it is to have.
LEMMA TargetTypes ==
  ASSUME TypeOK, NEW r \in RefNames \union Branches
  PROVE  r \in RemoteRefs /\ Target(r) \in Histories
         /\ (r \in RefNames => Target(r) = PreparedAt) /\ (r \in Branches => Target(r) = clone[r])
<1>1. r \in RemoteRefs /\ (r \in RefNames => r \notin Branches)
  BY OrderIsSafe DEF RemoteRefs, Branches
<1> QED BY <1>1, NamedHistories DEF Target, TypeOK, Branches, PreparedAt

LEMMA WrittenTypes ==
  ASSUME TypeOK, NEW base \in Histories
  PROVE  /\ Written(base) \in Histories /\ Written(base) # <<>> /\ Front(Written(base)) = base
         /\ Len(Written(base)) = Len(base) + 1 /\ IsPrefix(base, Written(base))
         /\ Ours(Written(base)) = Ours(base) \union {Len(base) + 1}
         /\ (GoodHistory(base) /\ WrittenOn(base) => GoodHistory(Written(base)))
<1>1. By("release", made + 1) \in Commits /\ By("release", made + 1).by = "release"
  BY NamedHistories DEF TypeOK
<1> QED BY <1>1, PrefixOfAppend, OursOfAppend, GoodAppend DEF Written

LEMMA TypeStep ==
  ASSUME IInv, Next
  PROVE  TypeOK' /\ LocalTypes'
<1> USE IInvParts
<1>0. /\ PushOrder' = PushOrder /\ Len(PushOrder) \in Nat /\ DOMAIN PushOrder = 1..Len(PushOrder)
      /\ RefNames \subseteq RemoteRefs /\ Len(PushOrder) >= 1
  BY KindFixed, OrderIsSafe, Orders DEF TypeOK
<1>1. CASE Begin
  BY <1>0, <1>1 DEF TypeOK, LocalTypes, Begin, Goto
<1>2. ASSUME NEW v \in Variants, PrepareRef(v) PROVE TypeOK' /\ LocalTypes'
  <2>1. v \in {"release", "next"} /\ prepared[v] # "tagged" /\ (v = "next" => prepared[v] # "committed")
    BY <1>2 DEF PrepareRef, RefsReady, Variants, LocalTypes
  <2>2. /\ prepared' \in [{"release", "next"} -> {"files", "branched", "committed", "tagged"}]
        /\ prepared'["next"] # "tagged"
    BY <1>2, <2>1 DEF PrepareRef, TypeOK, LocalTypes
  <2> QED BY <1>0, <1>2, <2>2 DEF TypeOK, LocalTypes, PrepareRef
<1>3. CASE Integrate
  BY <1>0, <1>3, BoundsAssumption DEF TypeOK, LocalTypes, Integrate, Goto
<1>4. CASE Look
  <2>1. MainBase \in Histories
    BY FrontIsPrefix DEF MainBase, TypeOK
  <2>2. Written(MainBase) \in Histories
    BY <2>1, WrittenTypes
  <2>3. mem' \in [seen : [RemoteRefs -> Histories], base : Histories, next : Nat, try : Nat]
        /\ mem'.seen = remote /\ mem'.base = MainBase /\ mem'.next = mem.next /\ mem'.try = mem.try
    BY <1>4, <2>1 DEF TypeOK, LocalTypes, Look, RemoteRefs
  <2>4. clone' \in [{"main", "develop"} -> Histories] /\ made' \in Nat
    BY <1>4, <2>2 DEF TypeOK, Look
  <2> QED BY <1>0, <1>4, <2>1, <2>3, <2>4 DEF TypeOK, LocalTypes, Look, Goto, Fail
<1>5. CASE CommitDevelop
  <2>1. Written(Captured) \in Histories
    BY NamedHistories, WrittenTypes
  <2> QED BY <1>0, <1>5, <2>1 DEF TypeOK, LocalTypes, CommitDevelop, Goto
<1>6. CASE Fetch
  <2> DEFINE base == IF Landed THEN Front(clone.develop) ELSE remote.develop
  <2>1. base \in Histories
    BY FrontIsPrefix DEF Landed, TypeOK
  <2>2. Written(base) \in Histories
    BY <2>1, WrittenTypes
  <2> DEFINE shown == IF Landed THEN clone.develop ELSE base
  <2>3. mem' = mem \/ mem' = [mem EXCEPT !.base = base, !.next = 1, !.seen.develop = shown]
    BY <1>6 DEF Fetch
  <2>4. /\ mem' \in [seen : [RemoteRefs -> Histories], base : Histories, next : Nat, try : Nat]
        /\ mem'.next \in 1..(Len(PushOrder) + 1) /\ mem'.try = mem.try
    <3>1. shown \in Histories
      BY <2>1 DEF TypeOK
    <3> HIDE DEF base, shown
    <3>2. CASE mem' = mem
      BY <3>2 DEF TypeOK, LocalTypes
    <3>3. CASE mem' = [mem EXCEPT !.base = base, !.next = 1, !.seen.develop = shown]
      <4>1. mem'.seen = [mem.seen EXCEPT !.develop = shown] /\ mem'.next = 1 /\ mem'.try = mem.try
        BY <3>3 DEF LocalTypes
      <4>2. mem'.seen \in [RemoteRefs -> Histories]
        BY <3>1, <4>1 DEF LocalTypes
      <4>3. mem' = [seen |-> mem'.seen, base |-> base, next |-> 1, try |-> mem.try]
        BY <3>3 DEF LocalTypes
      <4>4. mem.try \in Nat
        BY DEF LocalTypes
      <4> QED BY <1>0, <2>1, <4>1, <4>2, <4>3, <4>4
    <3> QED BY <2>3, <3>2, <3>3 DEF base, shown
  <2>5. clone' \in [{"main", "develop"} -> Histories] /\ made' \in Nat
    BY <1>6, <2>2 DEF TypeOK, Fetch
  <2> QED BY <1>0, <1>6, <2>4, <2>5 DEF TypeOK, LocalTypes, RemoteRefs, Fetch, Goto, Fail
<1>7. CASE LookPost
  BY <1>0, <1>7 DEF TypeOK, LocalTypes, LookPost, Goto
<1>8. CASE Follow
  <2>1. mem' = mem \/ (mem.try < PushAttempts /\ mem' = [mem EXCEPT !.try = mem.try + 1])
    BY <1>8 DEF Follow
  <2>2. /\ mem' \in [seen : [RemoteRefs -> Histories], base : Histories, next : Nat, try : Nat]
        /\ mem'.next = mem.next /\ mem'.try \in 1..PushAttempts
    <3>1. CASE mem' = mem
      BY <3>1 DEF TypeOK, LocalTypes
    <3>2. CASE mem.try < PushAttempts /\ mem' = [mem EXCEPT !.try = mem.try + 1]
      <4>1. mem'.try = mem.try + 1 /\ mem' = [mem EXCEPT !.try = mem'.try]
        BY <3>2 DEF LocalTypes
      <4>2. mem'.try \in Nat /\ mem'.try \in 1..PushAttempts
        BY <3>2, <4>1, BoundsAssumption DEF TypeOK
      <4>3. mem'.next = mem.next
        BY <4>1 DEF LocalTypes
      <4> QED BY <4>1, <4>2, <4>3 DEF LocalTypes
    <3> QED BY <2>1, <3>1, <3>2
  <2>3. UNCHANGED <<kind, remote, prepared, clone, inflight, recorded, accepted, made, rewritten, others, faults>>
        /\ pc' \in {"fetch", "idle"}
    BY <1>8 DEF Follow, Goto, Fail
  <2> QED BY <1>0, <2>2, <2>3 DEF TypeOK, LocalTypes, RemoteRefs
<1>9. CASE Push
  <2>1. NextRef \in RemoteRefs /\ Target(NextRef) \in Histories
    BY <1>9, OrderIsSafe, TargetTypes DEF Push, NextRef
  <2> QED BY <1>0, <1>9, <2>1 DEF TypeOK, LocalTypes, Push, Goto, Fail, RemoteRefs
<1>10. CASE Pushed \/ Verify \/ Save \/ Crash
  <2>1. accepted' \in BOOLEAN
    BY <1>10 DEF TypeOK, Pushed, Verify, Save, Crash
  <2>2. faults' \in 0..MaxFaults
    BY <1>10, BoundsAssumption DEF TypeOK, Pushed, Verify, Save, Crash, Fault
  <2>3. /\ pc' \in {"verify", "save", "idle"} /\ recorded' \in BOOLEAN
        /\ UNCHANGED <<kind, remote, prepared, clone, mem, inflight, rewritten, made, others>>
    BY <1>10 DEF TypeOK, Pushed, Verify, Save, Crash, Goto
  <2> QED BY <1>0, <2>1, <2>2, <2>3 DEF TypeOK, LocalTypes
<1>11. ASSUME NEW p \in inflight, Land(p) \/ Reject(p) \/ LoseAnswer(p) PROVE TypeOK' /\ LocalTypes'
  <2>1. p[1] \in RemoteRefs /\ p[2] \in Histories
    BY DEF TypeOK, RemoteRefs
  <2>2. CASE Land(p)
    BY <1>0, <2>1, <2>2 DEF TypeOK, LocalTypes, Land, Goto, RemoteRefs
  <2>3. CASE Reject(p)
    BY <1>0, <2>3 DEF TypeOK, LocalTypes, Reject, PushFails, Goto
  <2>4. CASE LoseAnswer(p)
    <3>1. inflight' \subseteq inflight /\ faults' \in 0..MaxFaults /\ pc' \in {"refused", "idle"}
      BY <2>4, BoundsAssumption DEF TypeOK, LoseAnswer, Fault, PushFails, Goto
    <3> QED BY <1>0, <2>4, <3>1 DEF TypeOK, LocalTypes, LoseAnswer
  <2> QED BY <1>11, <2>2, <2>3, <2>4
<1>12. ASSUME NEW ref \in RemoteRefs, NEW commit \in Histories, Others(ref, commit), rewritten' \in BOOLEAN
       PROVE TypeOK' /\ LocalTypes'
  BY <1>0, <1>12, BoundsAssumption DEF TypeOK, LocalTypes, Others, RemoteRefs
<1>13. CASE OthersPush
  <2>1. \A who \in {"other", "edit", "restore"} : By(who, others + 1) \in Commits
    BY NamedHistories DEF TypeOK
  <2>2. \A ref \in Branches, who \in {"other", "edit", "restore"} :
          Append(remote[ref], By(who, others + 1)) \in Histories
    BY <2>1, PrefixOfAppend DEF TypeOK, Branches
  <2> QED BY <1>12, <1>13, <2>2 DEF OthersPush, RemoteRefs, Branches, TypeOK
<1>14. CASE OthersRewrite
  <2>1. PICK n \in 1..(Len(remote.develop) - 1) : Others("develop", SubSeq(remote.develop, 1, n))
    BY <1>14 DEF OthersRewrite
  <2>2. SubSeq(remote.develop, 1, n) \in Histories
    BY FirstCommits DEF TypeOK, Histories
  <2> QED BY <1>12, <1>14, <2>1, <2>2 DEF OthersRewrite, RemoteRefs
<1>15. CASE OthersTake
  <2>1. <<By("other", others + 1)>> \in Histories
    BY NamedHistories DEF TypeOK, Histories
  <2> QED BY <1>0, <1>12, <1>15, <2>1 DEF OthersTake, TypeOK
<1> QED BY <1>1, <1>2, <1>3, <1>4, <1>5, <1>6, <1>7, <1>8, <1>9, <1>10, <1>11, <1>13, <1>14, <1>15
        DEF Next, Controller

----------------------------------------------------------------------------
(* What a step does to a ref of the remote, and what it pushes.             *)

\* A ref stays, a push lands on it, or somebody else adds a commit to a branch,
\* forces develop back or takes a name of the release.
LEMMA RemoteStep ==
  ASSUME IInv, Next, NEW ref \in RemoteRefs
  PROVE  \/ remote'[ref] = remote[ref]
         \/ \E p \in inflight : Land(p) /\ p[1] = ref /\ remote'[ref] = p[2]
         \/ /\ ref \in Branches /\ UNCHANGED <<clone, inflight, mem>>
            /\ \E c \in Commits : c.by # "release" /\ remote'[ref] = Append(remote[ref], c)
         \/ /\ ref = "develop" /\ rewritten' /\ UNCHANGED <<clone, inflight, mem>>
            /\ \E n \in 1..(Len(remote[ref]) - 1) : remote'[ref] = SubSeq(remote[ref], 1, n)
         \/ ref \in RefNames /\ remote[ref] = <<>> /\ UNCHANGED <<clone, inflight, mem>>
<1> USE IInvParts
<1> DEFINE Goal == \/ remote'[ref] = remote[ref]
                   \/ \E p \in inflight : Land(p) /\ p[1] = ref /\ remote'[ref] = p[2]
                   \/ /\ ref \in Branches /\ UNCHANGED <<clone, inflight, mem>>
                      /\ \E c \in Commits : c.by # "release" /\ remote'[ref] = Append(remote[ref], c)
                   \/ /\ ref = "develop" /\ rewritten' /\ UNCHANGED <<clone, inflight, mem>>
                      /\ \E n \in 1..(Len(remote[ref]) - 1) : remote'[ref] = SubSeq(remote[ref], 1, n)
                   \/ ref \in RefNames /\ remote[ref] = <<>> /\ UNCHANGED <<clone, inflight, mem>>
<1>0. remote \in [RemoteRefs -> Histories]
  BY DEF TypeOK, RemoteRefs
<1>1. CASE Begin \/ Controller \/ Crash
  BY <1>1 DEF Begin, Controller, Crash, PrepareRef, Integrate, Look, CommitDevelop, Fetch, LookPost,
              Follow, Push, Pushed, Verify, Save
<1>2. ASSUME NEW p \in inflight, Land(p) \/ Reject(p) \/ LoseAnswer(p) PROVE Goal
  BY <1>0, <1>2 DEF Land, Reject, LoseAnswer
<1>3. ASSUME NEW r \in RemoteRefs, NEW commit, Others(r, commit)
      PROVE  remote'[ref] = (IF r = ref THEN commit ELSE remote[ref]) /\ UNCHANGED <<clone, inflight, mem>>
  BY <1>0, <1>3 DEF Others
<1>4. CASE OthersPush
  <2>1. \A who \in {"other", "edit", "restore"} :
          By(who, others + 1) \in Commits /\ By(who, others + 1).by # "release"
    BY NamedHistories DEF TypeOK
  <2> QED BY <1>3, <1>4, <2>1 DEF OthersPush, RemoteRefs, Branches
<1>5. CASE OthersRewrite
  BY <1>3, <1>5 DEF OthersRewrite, RemoteRefs
<1>6. CASE OthersTake
  BY <1>3, <1>6, OrderIsSafe DEF OthersTake
<1> QED BY <1>1, <1>2, <1>4, <1>5, <1>6 DEF Next

\* Only develop is ever forced back: everything else only grows.
LEMMA RemoteGrows ==
  ASSUME IInv, Next, NEW ref \in RemoteRefs, ref # "develop" \/ ~rewritten'
  PROVE  IsPrefix(remote[ref], remote'[ref])
<1> USE IInvParts
<1>1. remote[ref] \in Histories /\ remote'[ref] \in Histories
  BY TypeStep DEF TypeOK, RemoteRefs
<1>2. CASE remote'[ref] = remote[ref]
  BY <1>1, <1>2, PrefixReflexive
<1>3. ASSUME NEW p \in inflight, Land(p), p[1] = ref, remote'[ref] = p[2]
      PROVE  IsPrefix(remote[ref], remote'[ref])
  BY <1>3 DEF Land, Accepts
<1>4. ASSUME NEW c \in Commits, remote'[ref] = Append(remote[ref], c)
      PROVE  IsPrefix(remote[ref], remote'[ref])
  BY <1>1, <1>4, PrefixOfAppend
<1>5. CASE remote[ref] = <<>>
  <2>1. Len(remote[ref]) = 0 /\ Len(remote'[ref]) \in Nat
    BY <1>1, <1>5 DEF Histories
  <2> QED BY <1>1, <2>1, PrefixAgrees
<1> QED BY <1>2, <1>3, <1>4, <1>5, RemoteStep

\* A commit of ours arrives on a branch only with one of our pushes.
LEMMA OursStep ==
  ASSUME IInv, Next, NEW ref \in Branches
  PROVE  \/ \E p \in inflight : Land(p) /\ p[1] = ref /\ remote'[ref] = p[2]
         \/ Ours(remote'[ref]) = Ours(remote[ref])
         \/ ref = "develop" /\ rewritten' /\ Ours(remote'[ref]) \subseteq Ours(remote[ref])
<1> USE IInvParts
<1>1. ref \in RemoteRefs /\ ref \notin RefNames /\ remote[ref] \in Histories
  BY OrderIsSafe DEF TypeOK, RemoteRefs, Branches
<1>2. ASSUME NEW c \in Commits, c.by # "release", remote'[ref] = Append(remote[ref], c)
      PROVE  Ours(remote'[ref]) = Ours(remote[ref])
  BY <1>1, <1>2, OursOfAppend
<1>3. ASSUME NEW n \in 1..(Len(remote[ref]) - 1), remote'[ref] = SubSeq(remote[ref], 1, n)
      PROVE  Ours(remote'[ref]) \subseteq Ours(remote[ref])
  <2>1. n \in 0..Len(remote[ref])
    BY <1>1 DEF Histories
  <2> QED BY <1>1, <1>3, <2>1, FirstCommits, OursOfPrefix
<1> QED BY <1>1, <1>2, <1>3, RemoteStep

\* A new push is of the next ref, and what it depends on is in place.
LEMMA NewPush ==
  ASSUME IInv, Next, NEW p \in inflight', p \notin inflight
  PROVE  /\ Push /\ p = <<NextRef, Target(NextRef)>> /\ NextRef \in RefNames \union Branches
         /\ NextRef \in RefNames => p[2] = PreparedAt
         /\ NextRef \in Branches => p[2] = clone[NextRef] /\ p[2] # <<>> /\ AllPrepared
         /\ NextRef = "develop" /\ kind # "development" => Ours(remote.main) # {}
         /\ UNCHANGED <<remote, clone>>
<1> USE IInvParts
<1>1. Push
  BY DEF Next, Controller, Begin, PrepareRef, Integrate, Look, CommitDevelop, Fetch, LookPost, Follow,
         Pushed, Verify, Save, Crash, Land, Reject, LoseAnswer, OthersPush, OthersRewrite,
         OthersTake, Others
<1>2. p = <<NextRef, Target(NextRef)>> /\ mem.next \in DOMAIN PushOrder /\ UNCHANGED <<remote, clone>>
  BY <1>1 DEF Push
<1>3. /\ \A j \in 1..(mem.next - 1) : mem.seen[PushOrder[j]] = Target(PushOrder[j])
      /\ clone.develop # <<>> /\ (kind # "development" => clone.main # <<>>)
  BY <1>1 DEF Push, PushInv
<1>4. NextRef \in RefNames \union Branches /\ (NextRef = "main" => kind # "development")
  BY <1>2, OrderIsSafe DEF NextRef
<1>5. ASSUME NextRef \in Branches
      PROVE  Target(NextRef) = clone[NextRef] /\ clone[NextRef] # <<>> /\ AllPrepared
  <2>1. Target(NextRef) = clone[NextRef] /\ clone[NextRef] # <<>>
    BY <1>3, <1>4, <1>5, TargetTypes DEF Branches
  <2>2. ASSUME NEW r \in RefNames PROVE remote[r] = PreparedAt
    <3>1. PICK j \in 1..(mem.next - 1) : PushOrder[j] = r
      BY <1>2, <1>5, OrderIsSafe DEF NextRef
    <3> QED BY <1>3, <3>1, TargetTypes DEF SeenInv
  <2> QED BY <2>1, <2>2 DEF AllPrepared
<1>6. ASSUME NextRef = "develop", kind # "development" PROVE Ours(remote.main) # {}
  <2>1. PICK j \in 1..(mem.next - 1) : PushOrder[j] = "main"
    BY <1>2, <1>6, OrderIsSafe DEF NextRef
  <2>2. mem.seen.main = clone.main
    BY <1>3, <2>1, TargetTypes DEF Branches
  <2>3. Ours(clone.main) # {}
    BY <1>3, <1>6 DEF BranchesInv, BranchInv
  <2> QED BY <2>2, <2>3 DEF SeenInv
<1> QED BY <1>1, <1>2, <1>4, <1>5, <1>6, TargetTypes

----------------------------------------------------------------------------
(* The branches.                                                            *)

\* What a step that writes no commit does to a branch that only grows.
LEMMA BranchKept ==
  ASSUME IInv, Next, NEW ref \in Branches, BranchInv(ref), ref # "develop" \/ ~rewritten',
         clone'[ref] = clone[ref]
  PROVE  BranchInv(ref)'
<1> USE IInvParts
<1>1. /\ remote[ref] \in Histories /\ remote'[ref] \in Histories /\ clone[ref] \in Histories
      /\ IsPrefix(remote[ref], remote'[ref])
      /\ \A p \in inflight : p[2] \in Histories
  BY TypeStep, RemoteGrows DEF TypeOK, RemoteRefs, Branches
<1>2. clone[ref] # <<>> =>
        /\ Ours(clone[ref]) = {Len(clone[ref])}
        /\ IsPrefix(Front(clone[ref]), remote'[ref])
  BY <1>1, FrontIsPrefix, PrefixTransitive DEF BranchInv
<1>3. ASSUME NEW p \in inflight', p[1] = ref
      PROVE  p[2] # <<>> /\ (p[2] = clone[ref] \/ ~IsPrefix(remote'[ref], p[2]))
  <2>1. CASE p \in inflight
    BY <1>1, <1>3, <2>1, PrefixTransitive DEF BranchInv
  <2>2. CASE p \notin inflight
    BY <1>3, <2>2, NewPush
  <2> QED BY <2>1, <2>2
<1>4. ASSUME Ours(remote'[ref]) # {}
      PROVE  clone[ref] # <<>> /\ IsPrefix(clone[ref], remote'[ref]) /\ Ours(remote'[ref]) = {Len(clone[ref])}
  <2>1. ASSUME NEW p \in inflight, Land(p), p[1] = ref, remote'[ref] = p[2]
        PROVE  p[2] = clone[ref] /\ p[2] # <<>>
    BY <2>1 DEF Land, Accepts, BranchInv
  <2>2. CASE \E p \in inflight : Land(p) /\ p[1] = ref /\ remote'[ref] = p[2]
    BY <1>1, <1>2, <2>1, <2>2, PrefixReflexive
  <2>3. CASE Ours(remote'[ref]) = Ours(remote[ref])
    BY <1>1, <1>4, <2>3, PrefixTransitive DEF BranchInv
  <2> QED BY <2>2, <2>3, OursStep
<1> QED BY <1>2, <1>3, <1>4 DEF BranchInv

\* A branch of which the remote does not have the clone's commit may be given a
\* new one on its tip, or on something it has.
LEMMA BranchWritten ==
  ASSUME IInv, NEW ref \in Branches, BranchInv(ref), ~(clone[ref] # <<>> /\ IsPrefix(clone[ref], remote[ref])),
         NEW base \in Histories, IsPrefix(base, remote[ref]), Ours(base) = {},
         clone[ref] # <<>> => base = remote[ref] /\ Front(clone[ref]) # base,
         clone'[ref] = Written(base), UNCHANGED <<remote, inflight>>
  PROVE  BranchInv(ref)'
<1> USE IInvParts
<1>1. /\ remote[ref] \in Histories /\ clone[ref] \in Histories /\ \A p \in inflight : p[2] \in Histories
      /\ Len(base) \in Nat
  <2>1. remote[ref] \in Histories /\ clone[ref] \in Histories
    BY DEF TypeOK, RemoteRefs, Branches
  <2>2. \A p \in inflight : p[2] \in Histories
    BY DEF TypeOK
  <2>3. Len(base) \in Nat
    BY DEF Histories
  <2> QED BY <2>1, <2>2, <2>3
<1>2. /\ clone'[ref] \in Histories /\ clone'[ref] # <<>> /\ Front(clone'[ref]) = base
      /\ Ours(clone'[ref]) = {Len(clone'[ref])}
  BY WrittenTypes
<1>3. Ours(remote[ref]) = {}
  BY DEF BranchInv
<1>4. ASSUME NEW p \in inflight, p[1] = ref, IsPrefix(remote[ref], p[2])
      PROVE  FALSE
  <2>1. p[2] = clone[ref] /\ clone[ref] # <<>>
    BY <1>4 DEF BranchInv
  <2>2. /\ IsPrefix(Front(clone[ref]), remote[ref]) /\ IsPrefix(remote[ref], clone[ref])
        /\ Front(clone[ref]) \in Histories /\ Len(Front(clone[ref])) = Len(clone[ref]) - 1
    BY <1>1, <1>4, <2>1, FrontIsPrefix DEF BranchInv
  <2>3. Len(clone[ref]) <= Len(remote[ref])
    <3>1. ~(Len(remote[ref]) <= Len(Front(clone[ref])))
      BY <1>1, <2>1, <2>2, PrefixAsLong
    <3> QED BY <1>1, <2>2, <3>1 DEF Histories
  <2>4. remote[ref] = clone[ref]
    BY <1>1, <2>2, <2>3, PrefixAsLong
  <2> QED BY <1>1, <2>1, <2>4, PrefixReflexive
<1> QED BY <1>1, <1>2, <1>3, <1>4 DEF BranchInv

LEMMA RewrittenStays ==
  ASSUME TypeOK, Next, ~rewritten' PROVE ~rewritten
BY DEF TypeOK, Next, Controller, Begin, PrepareRef, Integrate, Look, CommitDevelop, Fetch, LookPost, Follow,
       Push, Pushed, Verify, Save, Crash, Land, Reject, LoseAnswer, OthersPush, OthersRewrite, OthersTake, Others

\* Which steps write a commit into the clone.
LEMMA CloneStep ==
  ASSUME IInv, Next
  PROVE  \/ clone' = clone
         \/ /\ Look /\ clone.main = <<>> /\ clone'.main = Written(remote.main)
            /\ clone'.develop = clone.develop /\ UNCHANGED <<remote, inflight>>
         \/ /\ CommitDevelop /\ clone.develop = <<>> /\ clone'.develop = Written(Captured)
            /\ clone'.main = clone.main /\ UNCHANGED <<remote, inflight>> /\ kind # "development"
         \/ /\ Fetch /\ ~Landed /\ Followable /\ clone'.develop = Written(remote.develop)
            /\ (clone.develop # <<>> => Front(clone.develop) # remote.develop)
            /\ clone'.main = clone.main /\ UNCHANGED <<remote, inflight>> /\ kind = "development"
<1> USE IInvParts
<1>1. CASE Look
  BY <1>1 DEF Look, MainBase, TypeOK
<1>2. CASE CommitDevelop
  BY <1>2 DEF CommitDevelop, TypeOK, PushInv
<1>3. CASE Fetch
  BY <1>3 DEF Fetch, Landed, TypeOK, PushInv
<1>4. CASE ~Look /\ ~CommitDevelop /\ ~Fetch
  BY <1>4 DEF Next, Controller, Begin, PrepareRef, Integrate, LookPost, Follow, Push, Pushed, Verify,
         Save, Crash, Land, Reject, LoseAnswer, OthersPush, OthersRewrite, OthersTake, Others
<1> QED BY <1>1, <1>2, <1>3, <1>4

LEMMA BranchesStep ==
  ASSUME IInv, Next
  PROVE  BranchesInv'
<1> USE IInvParts
<1>1. BranchInv("main")'
  <2>1. "main" \in Branches /\ BranchInv("main") /\ remote.main \in Histories
    BY DEF Branches, BranchesInv, TypeOK
  <2>2. CASE clone'.main = clone.main
    BY <2>1, <2>2, BranchKept
  <2>3. CASE clone.main = <<>> /\ clone'.main = Written(remote.main) /\ UNCHANGED <<remote, inflight>>
    <3>1. Ours(remote.main) = {} /\ IsPrefix(remote.main, remote.main)
      BY <2>1, <2>3, PrefixReflexive DEF BranchInv
    <3> QED BY <2>1, <2>3, <3>1, BranchWritten
  <2> QED BY <2>2, <2>3, CloneStep
<1>2. ASSUME ~rewritten' PROVE BranchInv("develop")' /\ IsPrefix(Captured, remote'.develop)
  <2>1. /\ "develop" \in Branches /\ "develop" \in RemoteRefs
        /\ BranchInv("develop") /\ IsPrefix(Captured, remote.develop)
        /\ remote.develop \in Histories /\ remote'.develop \in Histories
    BY <1>2, RewrittenStays, TypeStep DEF Branches, RemoteRefs, BranchesInv, TypeOK
  <2>2. IsPrefix(Captured, remote'.develop)
    BY <1>2, <2>1, RemoteGrows, PrefixTransitive, NamedHistories
  <2>3. CASE clone'.develop = clone.develop
    BY <1>2, <2>1, <2>2, <2>3, BranchKept
  <2>4. CASE clone.develop = <<>> /\ clone'.develop = Written(Captured) /\ UNCHANGED <<remote, inflight>>
    BY <2>1, <2>4, BranchWritten, NamedHistories
  <2>5. CASE /\ ~Landed /\ clone'.develop = Written(remote.develop)
             /\ (clone.develop # <<>> => Front(clone.develop) # remote.develop)
             /\ UNCHANGED <<remote, inflight>>
    <3>1. ~(clone.develop # <<>> /\ IsPrefix(clone.develop, remote.develop))
      BY <2>5 DEF Landed
    <3>2. Ours(remote.develop) = {} /\ IsPrefix(remote.develop, remote.develop)
      BY <2>1, <3>1, PrefixReflexive DEF BranchInv
    <3> QED BY <2>1, <2>5, <3>1, <3>2, BranchWritten
  <2> QED BY <2>2, <2>3, <2>4, <2>5, CloneStep
<1> QED BY <1>1, <1>2 DEF BranchesInv

LEMMA WrittenStep ==
  ASSUME IInv, Next
  PROVE  WrittenInv'
<1> USE IInvParts
<1>1. remote.develop \in Histories /\ clone.develop \in Histories /\ "develop" \in RemoteRefs
  BY DEF TypeOK, RemoteRefs
<1>2. GoodHistory(remote.develop) /\ GoodHistory(clone.develop)
      /\ \A p \in inflight : p[1] = "develop" => GoodHistory(p[2])
  BY DEF WrittenInv
<1>3. GoodHistory(remote'.develop)
  <2>1. ASSUME NEW c \in Commits, c.by # "release", remote'.develop = Append(remote.develop, c)
        PROVE  GoodHistory(remote'.develop)
    BY <1>1, <1>2, <2>1, GoodAppend
  <2>2. ASSUME NEW n \in 1..(Len(remote.develop) - 1), remote'.develop = SubSeq(remote.develop, 1, n)
        PROVE  GoodHistory(remote'.develop)
    <3>1. n \in 0..Len(remote.develop)
      BY <1>1 DEF Histories
    <3>2. SubSeq(remote.develop, 1, n) \in Histories /\ IsPrefix(SubSeq(remote.develop, 1, n), remote.develop)
      BY <1>1, <3>1, FirstCommits
    <3> QED BY <1>1, <1>2, <2>2, <3>2, GoodPrefix
  <2>3. "develop" \notin RefNames
    BY OrderIsSafe DEF Branches
  <2> QED BY <1>1, <1>2, <2>1, <2>2, <2>3, RemoteStep
<1>4. GoodHistory(clone'.develop)
  <2>1. CASE clone'.develop = clone.develop
    BY <1>2, <2>1
  <2>2. CASE clone'.develop = Written(Captured) /\ kind # "development"
    <3>1. GoodHistory(Captured) /\ WrittenOn(Captured)
      BY <2>2, NamedHistories DEF GoodHistory, WrittenOn
    <3> QED BY <2>2, <3>1, WrittenTypes, NamedHistories
  <2>3. CASE Followable /\ clone'.develop = Written(remote.develop) /\ kind = "development"
    <3>1. WrittenOn(remote.develop)
      BY <2>3 DEF WrittenOn, Followable
    <3> QED BY <1>1, <1>2, <2>3, <3>1, WrittenTypes
  <2> QED BY <2>1, <2>2, <2>3, CloneStep
<1>5. ASSUME NEW p \in inflight', p[1] = "develop" PROVE GoodHistory(p[2])
  <2>1. CASE p \in inflight
    BY <1>2, <1>5, <2>1
  <2>2. CASE p \notin inflight
    BY <1>2, <1>5, <2>2, NewPush DEF Branches
  <2> QED BY <2>1, <2>2
<1> QED BY <1>3, <1>4, <1>5, KindFixed DEF WrittenInv, GoodHistory, WrittenOn

----------------------------------------------------------------------------
(* The order of the pushes.                                                 *)

\* A ref of the release's name never moves again.
LEMMA PreparedStays ==
  ASSUME IInv, Next, NEW r \in RefNames, remote[r] = PreparedAt
  PROVE  remote'[r] = PreparedAt
<1>1. r \in RemoteRefs /\ r \notin Branches /\ r # "develop" /\ PreparedAt # <<>>
  BY OrderIsSafe, NamedHistories, IInvParts DEF Branches
<1>2. ASSUME NEW p \in inflight, p[1] = r PROVE p[2] = PreparedAt
  BY <1>2, IInvParts DEF InflightInv
<1> QED BY <1>1, <1>2, RemoteStep

LEMMA MainKept ==
  ASSUME IInv, Next, Ours(remote.main) # {} PROVE Ours(remote'.main) # {}
<1>1. remote.main \in Histories /\ remote'.main \in Histories /\ "main" \in RemoteRefs
  BY TypeStep, IInvParts DEF TypeOK, RemoteRefs
<1> QED BY <1>1, RemoteGrows, OursOfPrefix

\* What is seen is what is on the remote, except of develop.
LEMMA SeenStep ==
  ASSUME IInv, Next
  PROVE  SeenInv'
<1> USE IInvParts
<1>0. mem \in [seen : [RemoteRefs -> Histories], base : Histories, next : Nat, try : Nat]
  BY DEF LocalTypes
<1>1. ASSUME NEW r \in RemoteRefs \ {"develop"}
      PROVE  mem'.seen[r] = mem.seen[r] \/ mem'.seen[r] = remote'[r]
  <2>1. CASE Look
    BY <1>0, <2>1 DEF Look
  <2>2. CASE LookPost
    <3>1. mem' = [mem EXCEPT !.seen.post = remote.post] /\ remote' = remote
      BY <2>2 DEF LookPost
    <3> QED BY <1>0, <3>1
  <2>3. CASE Fetch
    <3>1. mem' = mem \/ \E base, shown : mem' = [mem EXCEPT !.base = base, !.next = 1, !.seen.develop = shown]
      BY <2>3 DEF Fetch
    <3> QED BY <1>0, <1>1, <3>1
  <2>4. ASSUME NEW p \in inflight, Land(p) PROVE mem'.seen[r] = mem.seen[r] \/ mem'.seen[r] = remote'[r]
    <3>1. remote' = [remote EXCEPT ![p[1]] = p[2]] /\ remote \in [RemoteRefs -> Histories]
          /\ (mem' = mem \/ mem' = [mem EXCEPT !.seen[p[1]] = p[2]])
      BY <2>4 DEF Land, TypeOK, RemoteRefs
    <3> QED BY <1>0, <1>1, <3>1
  <2>5. CASE ~Look /\ ~LookPost /\ ~Fetch /\ ~(\E p \in inflight : Land(p))
    BY <1>0, <2>5 DEF Next, Controller, Begin, PrepareRef, Integrate, CommitDevelop, Follow, Push, Pushed,
           Verify, Save, Crash, Reject, LoseAnswer, OthersPush, OthersRewrite, OthersTake, Others
  <2> QED BY <2>1, <2>2, <2>3, <2>4, <2>5
<1>2. ASSUME NEW r \in RefNames, mem'.seen[r] = PreparedAt PROVE remote'[r] = PreparedAt
  <2>1. r \in RemoteRefs \ {"develop"}
    BY OrderIsSafe DEF Branches
  <2> QED BY <1>1, <1>2, <2>1, PreparedStays DEF SeenInv
<1>3. ASSUME Ours(mem'.seen.main) # {} PROVE Ours(remote'.main) # {}
  BY <1>1, <1>3, MainKept DEF SeenInv, RemoteRefs
<1> QED BY <1>2, <1>3, KindFixed DEF SeenInv

LEMMA InflightStep ==
  ASSUME IInv, Next
  PROVE  InflightInv'
<1> USE IInvParts
<1>1. AllPrepared => AllPrepared'
  BY PreparedStays, KindFixed DEF AllPrepared
<1> SUFFICES ASSUME NEW p \in inflight'
             PROVE  /\ p[1] \in RefNames => p[2] = PreparedAt
                    /\ p[1] \in Branches => AllPrepared'
                    /\ p[1] = "develop" /\ kind # "development" => Ours(remote'.main) # {}
  BY KindFixed DEF InflightInv
<1>2. CASE p \in inflight
  BY <1>1, <1>2, MainKept DEF InflightInv
<1>3. CASE p \notin inflight
  BY <1>1, <1>3, NewPush, MainKept
<1> QED BY <1>2, <1>3

LEMMA EvidenceStep ==
  ASSUME IInv, Next
  PROVE  EvidenceFirst'
<1> USE IInvParts
<1>1. AllPrepared => AllPrepared'
  BY PreparedStays, KindFixed DEF AllPrepared
<1>2. \A r \in RefNames : Target(r) = PreparedAt /\ Target(r)' = PreparedAt
  BY OrderIsSafe DEF Target, PreparedAt, Branches
<1>3. ASSUME NEW ref \in Branches, Ours(remote'[ref]) # {} PROVE AllPrepared'
  <2>1. ASSUME NEW p \in inflight, p[1] = ref PROVE AllPrepared
    BY <2>1 DEF InflightInv
  <2>2. Ours(remote[ref]) # {} => AllPrepared
    BY <1>2 DEF EvidenceFirst, AllPrepared, Branches
  <2> QED BY <1>1, <1>3, <2>1, <2>2, OursStep
<1>4. ASSUME kind # "development", Ours(remote'.develop) # {} PROVE Ours(remote'.main) # {}
  <2>1. ASSUME NEW p \in inflight, p[1] = "develop" PROVE Ours(remote.main) # {}
    BY <1>4, <2>1 DEF InflightInv
  <2>2. Ours(remote.develop) # {} => Ours(remote.main) # {}
    BY <1>4 DEF EvidenceFirst
  <2> QED BY <1>4, <2>1, <2>2, OursStep, MainKept DEF Branches
<1>5. Ours(remote'.main) \union Ours(remote'.develop) # {} => \A r \in RefNames : remote'[r] = Target(r)'
  BY <1>2, <1>3, KindFixed DEF AllPrepared, Branches
<1> QED BY <1>4, <1>5, KindFixed DEF EvidenceFirst

LEMMA OthersStep ==
  ASSUME IInv, Next
  PROVE  OthersInv'
<1> USE IInvParts
<1> SUFFICES ASSUME ~rewritten', NEW n \in 1..others'
             PROVE  \E ref \in RemoteRefs, who \in {"other", "edit", "restore"} :
                      Contains(remote'[ref], By(who, n))
  BY DEF OthersInv
<1>1. remote \in [RemoteRefs -> Histories] /\ remote' \in [RemoteRefs -> Histories] /\ others \in Nat
  BY TypeStep DEF TypeOK, RemoteRefs
<1>2. CASE n \in 1..others
  <2>1. PICK ref \in RemoteRefs, who \in {"other", "edit", "restore"} : Contains(remote[ref], By(who, n))
    BY <1>2, RewrittenStays DEF OthersInv
  <2>2. Contains(remote'[ref], By(who, n))
    BY <1>1, <2>1, RemoteGrows, ContainsKept
  <2> QED BY <2>2
<1>3. CASE n \notin 1..others
  <2>1. others' = others + 1 \/ others' = others
    BY DEF Next, Controller, Begin, PrepareRef, Integrate, Look, CommitDevelop, Fetch, LookPost, Follow, Push,
           Pushed, Verify, Save, Crash, Land, Reject, LoseAnswer, OthersPush, OthersRewrite, OthersTake, Others
  <2>2. n = others + 1 /\ others' = others + 1
    BY <1>1, <1>3, <2>1
  <2>3. OthersPush \/ OthersTake
    BY <1>1, <2>2 DEF Next, Controller, Begin, PrepareRef, Integrate, Look, CommitDevelop, Fetch, LookPost,
           Follow, Push, Pushed, Verify, Save, Crash, Land, Reject, LoseAnswer, OthersRewrite
  <2>4. ASSUME NEW ref \in Branches, NEW who \in {"other", "edit", "restore"},
               Others(ref, Append(remote[ref], By(who, others + 1)))
        PROVE  Contains(remote'[ref], By(who, n)) /\ ref \in RemoteRefs
    <3>1. ref \in RemoteRefs /\ remote[ref] \in Histories /\ By(who, others + 1) \in Commits
      BY <1>1, NamedHistories DEF Branches, RemoteRefs
    <3>2. remote'[ref] = Append(remote[ref], By(who, n))
      BY <1>1, <2>2, <2>4, <3>1 DEF Others
    <3>3. Len(remote'[ref]) = Len(remote[ref]) + 1 /\ remote'[ref][Len(remote[ref]) + 1] = By(who, n)
          /\ Len(remote[ref]) \in Nat
      BY <2>2, <3>1, <3>2, PrefixOfAppend DEF Histories
    <3> QED BY <3>1, <3>3 DEF Contains
  <2>5. ASSUME NEW ref \in RefNames, Others(ref, <<By("other", others + 1)>>)
        PROVE  Contains(remote'[ref], By("other", n)) /\ ref \in RemoteRefs
    <3>1. ref \in RemoteRefs
      BY OrderIsSafe
    <3>2. remote'[ref] = <<By("other", n)>>
      BY <1>1, <2>2, <2>5, <3>1 DEF Others
    <3> QED BY <3>1, <3>2 DEF Contains
  <2> QED BY <2>3, <2>4, <2>5 DEF OthersPush, OthersTake, Branches
<1> QED BY <1>2, <1>3

LEMMA PushStep ==
  ASSUME IInv, Next
  PROVE  PushInv'
<1> USE IInvParts, KindFixed
<1>0. /\ mem \in [seen : [RemoteRefs -> Histories], base : Histories, next : Nat, try : Nat]
      /\ \A ref \in RefNames \union Branches : ref \in RemoteRefs
      /\ \A n \in DOMAIN PushOrder : PushOrder[n] \in RefNames \union Branches
      /\ DOMAIN PushOrder = 1..Len(PushOrder) /\ Len(PushOrder) \in Nat
  BY OrderIsSafe, TargetTypes DEF LocalTypes
<1>1. ASSUME UNCHANGED <<pc, mem, clone>> PROVE PushInv'
  BY <1>1 DEF PushInv, Target
<1>2. CASE Begin \/ Integrate \/ Pushed \/ Verify \/ Save \/ Crash
  <2>1. pc' \in {"verify", "refs", "fetch", "look", "save", "idle"}
    BY <1>2 DEF Begin, Integrate, Pushed, Verify, Save, Crash, Goto
  <2>2. (pc' = "look" => kind # "development") /\ (pc' = "fetch" => kind = "development")
    BY <1>2 DEF Begin, Integrate, Pushed, Verify, Save, Crash, Goto
  <2> QED BY <2>1, <2>2 DEF PushInv
<1>3. CASE Look
  <2>1. /\ pc' = "idle" \/ (pc' = "commit" /\ (clone.main # <<>> \/ clone'.main = Written(MainBase)))
        /\ (clone.main # <<>> => clone' = clone) /\ kind # "development"
    BY <1>3 DEF Look, PushInv, Goto, Fail, TypeOK
  <2>2. clone.main = <<>> => MainBase \in Histories
    BY DEF MainBase, TypeOK
  <2>3. pc' = "commit" => clone'.main # <<>>
    BY <2>1, <2>2, WrittenTypes
  <2> QED BY <2>1, <2>3 DEF PushInv
<1>4. CASE CommitDevelop
  <2>1. pc' = "push" /\ mem'.next = 1 /\ clone.main # <<>> /\ clone'.main = clone.main
    BY <1>0, <1>4 DEF CommitDevelop, PushInv, Goto, TypeOK
  <2>2. clone'.develop # <<>>
    BY <1>4, WrittenTypes, NamedHistories DEF CommitDevelop, TypeOK
  <2> QED BY <2>1, <2>2 DEF PushInv
<1>5. CASE Fetch
  <2>1. CASE pc' = "post"
    <3>1. mem'.next = 1
      BY <1>0, <1>5, <2>1 DEF Fetch, Fail
    <3>2. clone'.develop # <<>>
      <4> DEFINE base == IF Landed THEN Front(clone.develop) ELSE remote.develop
      <4>1. base \in Histories
        BY FrontIsPrefix DEF Landed, TypeOK
      <4>2. (clone' = clone /\ clone.develop # <<>>) \/ clone'.develop = Written(base)
        BY <1>5, <2>1 DEF Fetch, Fail, TypeOK
      <4> HIDE DEF base
      <4> QED BY <4>1, <4>2, WrittenTypes
    <3>3. kind = "development"
      BY <1>5 DEF Fetch, PushInv
    <3> QED BY <2>1, <3>1, <3>2, <3>3 DEF PushInv
  <2>2. CASE pc' = "idle"
    BY <2>2 DEF PushInv
  <2> QED BY <1>5, <2>1, <2>2 DEF Fetch, Goto, Fail
<1>6. CASE LookPost
  <2>1. pc' = "push" /\ mem'.next = 1 /\ clone' = clone /\ clone.develop # <<>> /\ kind = "development"
    BY <1>0, <1>6 DEF LookPost, Goto, PushInv
  <2> QED BY <2>1 DEF PushInv
<1>7. CASE Follow
  BY <1>7 DEF Follow, Goto, Fail, PushInv
<1>8. CASE Push
  <2>1. PushInv /\ pc = "push" /\ mem.next \in DOMAIN PushOrder /\ clone' = clone
        /\ \A r : Target(r)' = Target(r)
    BY <1>8 DEF Push, Target
  <2>2. CASE mem.seen[NextRef] = Target(NextRef)
    <3>1. mem'.next = mem.next + 1 /\ mem'.seen = mem.seen /\ pc' = "push"
      BY <1>0, <1>8, <2>1, <2>2 DEF Push
    <3>2. ASSUME NEW j \in 1..mem.next PROVE mem.seen[PushOrder[j]] = Target(PushOrder[j])
      <4>1. CASE j = mem.next
        BY <2>2, <4>1 DEF NextRef
      <4>2. CASE j # mem.next
        BY <1>0, <2>1, <4>2 DEF PushInv
      <4> QED BY <4>1, <4>2
    <3> QED BY <1>0, <2>1, <3>1, <3>2 DEF PushInv
  <2>3. CASE mem.seen[NextRef] # Target(NextRef)
    <3>1. mem' = mem /\ pc' \in {"pushing", "idle"}
      BY <1>8, <2>3 DEF Push, Goto, Fail
    <3> QED BY <2>1, <3>1 DEF PushInv
  <2> QED BY <2>2, <2>3
<1>9. ASSUME NEW p \in inflight, Land(p) PROVE PushInv'
  <2>1. CASE Awaiting(p)
    <3>1. /\ pc = "pushing" /\ p[1] = NextRef /\ p[2] = Target(NextRef) /\ pc' = "push" /\ clone' = clone
          /\ mem' = [mem EXCEPT !.seen[p[1]] = p[2]] /\ mem.next \in DOMAIN PushOrder
          /\ \A r : Target(r)' = Target(r)
      BY <1>9, <2>1 DEF Land, Awaiting, Goto, PushInv, Target
    <3>2. p[1] \in RemoteRefs
      BY <1>0, <3>1 DEF NextRef
    <3>3. mem'.next = mem.next /\ \A r \in RemoteRefs : mem'.seen[r] = IF r = p[1] THEN p[2] ELSE mem.seen[r]
      BY <1>0, <3>1, <3>2
    <3>4. ASSUME NEW j \in 1..(mem.next - 1) PROVE mem'.seen[PushOrder[j]] = Target(PushOrder[j])
      <4>1. j \in DOMAIN PushOrder /\ PushOrder[j] \in RemoteRefs
        BY <1>0, <3>1
      <4>2. mem.seen[PushOrder[j]] = Target(PushOrder[j])
        BY <3>1 DEF PushInv
      <4> QED BY <3>1, <3>3, <4>1, <4>2
    <3> QED BY <3>1, <3>3, <3>4 DEF PushInv
  <2>2. CASE ~Awaiting(p)
    BY <1>1, <1>9, <2>2 DEF Land
  <2> QED BY <2>1, <2>2
<1>10. ASSUME NEW p \in inflight, Reject(p) \/ LoseAnswer(p) PROVE PushInv'
  <2>1. UNCHANGED <<pc, mem, clone>> \/ PushFails
    BY <1>10 DEF Reject, LoseAnswer
  <2>2. PushFails => pc' \in {"refused", "idle"} /\ (pc' = "refused" => kind = "development")
    BY DEF PushFails, Goto
  <2> QED BY <1>1, <2>1, <2>2 DEF PushInv
<1>11. CASE (\E v \in Variants : PrepareRef(v)) \/ OthersPush \/ OthersRewrite \/ OthersTake
  BY <1>1, <1>11 DEF PrepareRef, OthersPush, OthersRewrite, OthersTake, Others
<1> QED BY <1>2, <1>3, <1>4, <1>5, <1>6, <1>7, <1>8, <1>9, <1>10, <1>11 DEF Next, Controller

----------------------------------------------------------------------------
(* The theorems.                                                            *)

LEMMA IInvInit ==
  ASSUME Init PROVE IInv
<1> USE NamedHistories, BoundsAssumption
<1>1. remote \in [RemoteRefs -> Histories] /\ clone \in [Branches -> Histories]
  BY DEF Init, RemoteRefs, Branches
<1>2. TypeOK
  <2>1. kind \in {"release", "both", "development"}
    BY DEF Init
  <2>2. Len(PushOrder) \in Nat
    BY <2>1, Orders
  <2>3. mem.seen = remote /\ mem.base = <<>> /\ mem.next = 1 /\ mem.try = 1
    BY DEF Init
  <2>4. mem.next \in 1..(Len(PushOrder) + 1) /\ mem.try \in 1..PushAttempts
    BY <2>2, <2>3
  <2>5. prepared \in [{"release", "next"} -> {"files", "branched", "committed", "tagged"}]
    BY DEF Init
  <2>6. mem.seen \in [RemoteRefs -> Histories] /\ mem.base \in Histories
    BY <1>1, <2>3
  <2>7. /\ pc = "idle" /\ inflight = {} /\ recorded = FALSE /\ accepted = FALSE /\ rewritten = FALSE
        /\ made \in Nat /\ others \in 0..MaxOthers /\ faults \in 0..MaxFaults
    BY DEF Init
  <2> QED BY <1>1, <2>1, <2>4, <2>5, <2>6, <2>7 DEF TypeOK, RemoteRefs, Branches
<1>3. LocalTypes
  BY <1>1 DEF Init, LocalTypes
<1>4. Ours(remote.main) = {} /\ Ours(remote.develop) = {} /\ IsPrefix(Captured, remote.develop)
  BY PrefixReflexive DEF Init
<1>5. BranchesInv /\ EvidenceFirst /\ InflightInv
  BY <1>4 DEF Init, BranchesInv, BranchInv, EvidenceFirst, InflightInv
<1>6. WrittenInv
  BY DEF Init, WrittenInv, GoodHistory
<1>7. SeenInv /\ PushInv /\ OthersInv
  BY DEF Init, SeenInv, PushInv, OthersInv
<1> QED BY <1>2, <1>3, <1>5, <1>6, <1>7 DEF IInv

LEMMA IInvStep ==
  ASSUME IInv, [Next]_vars PROVE IInv'
<1>1. CASE Next
  BY <1>1, TypeStep, BranchesStep, WrittenStep, SeenStep, InflightStep, EvidenceStep, PushStep, OthersStep
     DEF IInv
<1>2. CASE UNCHANGED vars
  BY <1>2 DEF vars, IInv, TypeOK, LocalTypes, BranchesInv, BranchInv, WrittenInv, GoodHistory, WrittenOn,
              SeenInv, InflightInv, AllPrepared, EvidenceFirst, PushInv, OthersInv, RefNames, PreparedRefs,
              PushOrder, Target
<1> QED BY <1>1, <1>2

LEMMA Invariance == Spec => []IInv
BY IInvInit, IInvStep, PTL DEF Spec

\* Every variable keeps its type, and no more attempts to follow develop than
\* the code allows are ever made (integration.py, DEVELOPMENT_PUSH_ATTEMPTS).
THEOREM TypeCorrect == Spec => []TypeOK
BY Invariance, PTL DEF IInv

\* Whatever answers are lost, whichever pushes outlive the controller and
\* however often the release is resumed: a branch that nobody forces back
\* carries at most one integration commit, no branch moves before the refs that
\* identify the release are in place, and develop not before main.
THEOREM Integrated == Spec => []IntegratedOnce
<1>1. ASSUME IInv PROVE IntegratedOnce
  <2> USE <1>1, IInvParts
  <2>1. ASSUME ~rewritten, NEW ref \in Branches PROVE Cardinality(Ours(remote[ref])) <= 1
    <3>1. Ours(remote[ref]) = {} \/ Ours(remote[ref]) = {Len(clone[ref])}
      BY <2>1 DEF BranchesInv, BranchInv, Branches
    <3>2. CASE Ours(remote[ref]) = {}
      BY <3>2, FS_EmptySet
    <3>3. CASE Ours(remote[ref]) = {Len(clone[ref])}
      <4>1. Cardinality({Len(clone[ref])}) = 1
        BY FS_Singleton
      <4> QED BY <3>3, <4>1
    <3> QED BY <3>1, <3>2, <3>3
  <2> QED BY <2>1 DEF IntegratedOnce, Branches
<1> QED BY <1>1, Invariance, PTL

\* No push of the release drops what somebody else pushed, and its tree replaces
\* develop only where develop is the train's source or, where it is followed,
\* has the captured files unchanged.
THEOREM NothingLost == Spec => []NothingIsOverwritten
<1>1. ASSUME IInv PROVE NothingIsOverwritten
  <2>1. DOMAIN remote = RemoteRefs
    BY <1>1 DEF IInv, TypeOK, RemoteRefs
  <2> QED BY <1>1, <2>1 DEF IInv, NothingIsOverwritten, OthersInv, WrittenInv, GoodHistory, WrittenOn
<1> QED BY <1>1, Invariance, PTL
=============================================================================
