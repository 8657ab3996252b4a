---------------------------- MODULE WorkerPoolProofs ---------------------------
(***************************************************************************)
(* What TLAPS proves of the worker pool, for any number of processes,      *)
(* threads and slots: a slot has one holder as long as no ticket appears   *)
(* behind one that is being served, and none grows twelve hours old then.  *)
(***************************************************************************)
EXTENDS WorkerPool, TLAPS, FiniteSetTheorems, WellFoundedInduction

----------------------------------------------------------------------------
(* The inductive invariant. *)

\* Types, and whoever waits or takes has a ticket or had one for twelve hours.
Types ==
  /\ dir \in [Slots -> Owners \cup {"none", "bare"}]
  /\ age \in [Slots -> 0..2]
  /\ queue \subseteq Threads
  /\ alive \subseteq Processes /\ cancelled \subseteq Processes
  /\ pc \in [Threads -> Labels]
  /\ clock \in Nat /\ horizon \in 0..clock /\ stamp \in [Threads -> 0..clock]
  /\ mem \in [Threads -> [at : 1..Size + 1, attempt : 1..2, taken : SUBSET Slots, old : 0..2,
                          why : {"clear", "short", "return"}]]
  /\ disorder \in BOOLEAN
  /\ \A t \in Threads : At(t, "wait") \/ InTake(t) => t \in queue \/ Aged(t)

\* A slot that t has claimed and not begun to give back.
Holds(t, s) == Live(t) /\ s \in mem[t].taken /\ ~(pc[t] = "rmdir" /\ mem[t].at = s)

\* Judged abandoned by t.
Clearing(t) == Live(t) /\ pc[t] \in {"unlink", "rmdir"} /\ mem[t].why = "clear"

\* What the place l in the code says of a thread's memory m.
Shape(m, l) ==
  /\ l \notin Taking \cup {"work"} => m.taken = {}
  /\ l = "work" => m.taken # {}
  /\ l \in {"mkdir", "own", "stat", "read"} => m.why = "clear"
  /\ l \in {"own", "stat", "read"} => m.at \in Slots
  /\ l \in Taking /\ m.why = "clear" => \A s \in m.taken : s < m.at
  /\ l \in {"unlink", "rmdir"} => IF m.why = "clear" THEN m.at \in Slots ELSE m.at \in m.taken

ShapeInv == \A t \in Threads : (pc[t] = "dead" <=> ~Live(t)) /\ Shape(mem[t], pc[t])

\* Tickets have names of their own.
StampInv ==
  \A t, u \in Threads :
    /\ pc[t] \notin {"idle", "dead"} => stamp[t] # 0
    /\ t # u /\ stamp[t] = stamp[u] => stamp[t] = 0
    /\ t \in queue /\ Live(t) => pc[t] = "wait" \/ InTake(t)

\* Whoever takes has a ticket that stands, and the oldest of those.
FirstInv ==
  \A t \in Threads : InTake(t) =>
    ~Aged(t) /\ \A u \in queue : Stands(u) /\ u # t => Before(t, u)

\* A claimed slot names its holder, has no other, and is not old.
HoldInv ==
  \A t \in Threads, s \in Slots : Holds(t, s) =>
    /\ dir[s] = Home[t]
    /\ age[s] < 2
    /\ \A u \in Threads : Holds(u, s) => u = t

\* Nobody holds a slot that t has just made, judged abandoned, or seen to be
\* twelve hours old.
Free(t) ==
  /\ At(t, "own") => dir[mem[t].at] \in {"bare", "none"}
  /\ Clearing(t) \/ (At(t, "read") /\ mem[t].old = 2) => \A u \in Threads : ~Holds(u, mem[t].at)

FreeInv == \A t \in Threads : Free(t)

IInv ==
  /\ Types /\ ShapeInv /\ StampInv
  /\ ~disorder => FirstInv /\ HoldInv /\ FreeInv
----------------------------------------------------------------------------
(* Lemmas. *)

LEMMA MinIn == ASSUME NEW S \in SUBSET Slots, S # {} PROVE Min(S) \in S
<1>1. S \subseteq Nat
  BY PoolAssumption DEF Slots
<1> DEFINE R == {ss \in Nat \X Nat : ss[1] < ss[2]}
<1>2. OpToRel(<, Nat) = R
  BY Zenon DEF OpToRel
<1>3. PICK x \in S : \A y \in S : ~(<<y, x>> \in R)
  <2> HIDE DEF R
  <2> QED BY <1>1, <1>2, NatLessThanWellFounded, WFMin
<1>4. \A y \in S : x =< y
  <2> SUFFICES ASSUME NEW y \in S PROVE x =< y
    OBVIOUS
  <2>1. x \in Nat /\ y \in Nat
    BY <1>1
  <2>2. ~(y < x)
    BY <1>3, <2>1
  <2> QED BY <2>1, <2>2
<1>5. QED BY <1>4 DEF Min

Mems == [at : 1..Size + 1, attempt : 1..2, taken : SUBSET Slots, old : 0..2,
         why : {"clear", "short", "return"}]

\* A step of t that leaves it at l with memory m.
Moves(t, m, l) == mem' = [mem EXCEPT ![t] = m] /\ pc' = [pc EXCEPT ![t] = l]

LEMMA FreshType == Fresh \in Mems /\ Fresh.taken = {} /\ Fresh.why = "clear" /\ Fresh.at = 1
  BY PoolAssumption DEF Fresh, Mems, Slots

LEMMA MemType ==
  ASSUME Types, NEW t \in Threads
  PROVE  mem[t] \in Mems
  BY DEF Types, Mems

LEMMA NextSlotMoves ==
  ASSUME Types, NEW t \in Threads, NEW taken \in SUBSET Slots, mem[t].at \in Slots,
         NextSlot(t, taken)
  PROVE  \E m \in Mems : /\ Moves(t, m, "mkdir")
                         /\ m.at = mem[t].at + 1 /\ m.taken = taken /\ m.why = "clear"
<1> DEFINE m == [Fresh EXCEPT !.at = mem[t].at + 1, !.taken = taken]
<1>1. mem[t] \in Mems
  BY MemType
<1>2. mem[t].at + 1 \in 1..Size + 1
  BY PoolAssumption DEF Slots
<1>3. m \in Mems /\ m.at = mem[t].at + 1 /\ m.taken = taken /\ m.why = "clear"
  BY FreshType, <1>2 DEF Mems
<1>4. Moves(t, m, "mkdir")
  BY DEF Types, NextSlot, Moves, Goto
<1> QED BY <1>3, <1>4

LEMMA GiveMoves ==
  ASSUME Types, NEW t \in Threads, NEW slots \in SUBSET Slots, slots # {},
         NEW why \in {"short", "return"}, Give(t, slots, why)
  PROVE  \E m \in Mems : /\ Moves(t, m, "unlink")
                         /\ m.at \in slots /\ m.taken = slots /\ m.why = why
<1> DEFINE m == [Fresh EXCEPT !.at = Min(slots), !.taken = slots, !.why = why]
<1>1. mem[t] \in Mems
  BY MemType
<1>2. Min(slots) \in slots
  BY MinIn
<1>3. Min(slots) \in 1..Size + 1
  <2>1. Min(slots) \in 1..Size
    BY <1>2 DEF Slots
  <2> QED BY <2>1, PoolAssumption
<1>4. m \in Mems /\ m.at \in slots /\ m.taken = slots /\ m.why = why
  BY FreshType, <1>3, <1>2 DEF Mems
<1>5. Moves(t, m, "unlink")
  BY DEF Types, Give, Moves, Goto
<1> QED BY <1>4, <1>5

LEMMA OneTaker ==
  ASSUME IInv, ~disorder, NEW t \in Threads, NEW u \in Threads, InTake(t), InTake(u)
  PROVE  t = u
<1>1. t \in queue /\ u \in queue /\ Stands(t) /\ Stands(u)
  BY DEF IInv, Types, FirstInv, InTake, Stands
<1>2. stamp[t] \in Nat /\ stamp[u] \in Nat
  BY DEF IInv, Types
<1> QED BY <1>1, <1>2 DEF IInv, FirstInv, Before

\* A thread that makes, judges or removes a slot of somebody else is taking.
LEMMA FreeUnlessTaking ==
  ASSUME IInv, NEW u \in Threads, ~InTake(u)
  PROVE  ~At(u, "own") /\ ~At(u, "read") /\ ~Clearing(u)
  BY DEF IInv, ShapeInv, Shape, InTake, At, Clearing, Taking

LEMMA MoveKeepsShape ==
  ASSUME Types, ShapeInv, NEW t \in Threads, Live(t), NEW m \in Mems, NEW l \in Labels \ {"dead"},
         Moves(t, m, l), Shape(m, l), alive' = alive
  PROVE  ShapeInv'
<1> SUFFICES ASSUME NEW u \in Threads
             PROVE  (pc[u] = "dead" <=> ~Live(u))' /\ Shape(mem'[u], pc'[u])
  BY DEF ShapeInv
<1>1. CASE u = t
  BY <1>1 DEF Types, Moves, Live, Labels
<1>2. CASE u # t
  <2>1. mem'[u] = mem[u] /\ pc'[u] = pc[u]
    BY <1>2 DEF Types, Moves
  <2> QED BY <2>1 DEF ShapeInv, Live
<1> QED BY <1>1, <1>2

LEMMA MoveKeepsTypes ==
  ASSUME Types, NEW t \in Threads, NEW m \in Mems, NEW l \in Labels, Moves(t, m, l),
         dir' \in [Slots -> Owners \cup {"none", "bare"}], age' \in [Slots -> 0..2],
         queue \ {t} \subseteq queue', queue' \subseteq Threads,
         l = "wait" \/ (l \in Taking /\ m.why # "return") => t \in queue' \/ Aged(t),
         UNCHANGED <<alive, cancelled, stamp, clock, horizon, disorder>>
  PROVE  Types'
<1>1. mem' \in [Threads -> Mems] /\ pc' \in [Threads -> Labels]
  BY DEF Types, Mems, Moves
<1>2. ASSUME NEW u \in Threads, At(u, "wait")' \/ InTake(u)' PROVE u \in queue' \/ Aged(u)'
  <2>1. CASE u = t
    <3>1. mem'[t] = m /\ pc'[t] = l
      BY DEF Types, Moves
    <3> QED BY <1>2, <2>1, <3>1 DEF At, InTake, Aged
  <2>2. CASE u # t
    <3>1. mem'[u] = mem[u] /\ pc'[u] = pc[u]
      BY <2>2 DEF Types, Moves
    <3> QED BY <1>2, <2>2, <3>1 DEF Types, At, InTake, Live, Aged
  <2> QED BY <2>1, <2>2
<1> QED BY <1>1, <1>2 DEF Types, Mems

LEMMA SetTypes ==
  ASSUME Types, NEW s \in Slots, NEW content \in Owners \cup {"none", "bare"}, Set(s, content)
  PROVE  dir' \in [Slots -> Owners \cup {"none", "bare"}] /\ age' \in [Slots -> 0..2]
  BY DEF Types, Set
----------------------------------------------------------------------------
(* Steps that move a thread to another memory: what it is, what becomes of the *)
(* files, and each part of the invariant.                                      *)

LEMMA StatKeeps == ASSUME IInv, NEW t \in Threads, Stat(t) PROVE IInv'
<1> USE PoolAssumption
<1>t. mem[t] \in Mems /\ Shape(mem[t], pc[t])
  BY MemType DEF IInv, ShapeInv
<1>1. PICK m \in Mems, l \in {"mkdir", "read"} :
        /\ Moves(t, m, l)
        /\ m.taken = mem[t].taken /\ m.why = "clear"
        /\ l = "mkdir" => m.at = mem[t].at + 1
        /\ l = "read" => m.at = mem[t].at /\ m.old = age[m.at]
  <2>1. mem[t] \in Mems /\ mem[t].at \in Slots /\ mem[t].why = "clear"
    BY MemType DEF IInv, ShapeInv, Shape, Stat, At
  <2>2. CASE dir[mem[t].at] = "none"
    BY <2>1, <2>2, NextSlotMoves DEF IInv, Mems, Stat
  <2>3. CASE dir[mem[t].at] # "none"
    <3> DEFINE m == [mem[t] EXCEPT !.old = age[mem[t].at]]
    <3>1. age[mem[t].at] \in 0..2
      BY <2>1 DEF IInv, Types
    <3>2. m \in Mems /\ m.taken = mem[t].taken /\ m.why = mem[t].why /\ m.at = mem[t].at /\ m.old = age[m.at]
      BY <2>1, <3>1 DEF Mems
    <3>3. Moves(t, m, "read")
      BY <2>3 DEF Stat, Moves, Goto, IInv, Types
    <3> QED BY <2>1, <3>2, <3>3
  <2> QED BY <2>2, <2>3
<1>2. /\ dir' \in [Slots -> Owners \cup {"none", "bare"}] /\ age' \in [Slots -> 0..2]
      /\ UNCHANGED <<alive, cancelled, stamp, clock, horizon, disorder>>
      /\ Live(t) /\ queue \subseteq Threads /\ (pc[t] = "wait" \/ InTake(t) => t \in queue \/ Aged(t))
  BY DEF IInv, Types, Stat, NoFileChange, NoRequest, At, InTake
<1>3. Types'
  BY <1>1, <1>2, <1>t, MoveKeepsTypes
    DEF IInv, Shape, NoFileChange, Stat, Labels, Taking, InTake, At
<1>4. ShapeInv'
  <2>1. Shape(m, l)
    BY <1>1, <1>t DEF Mems, Slots, Shape, Stat, At, Taking
  <2> QED BY <1>1, <1>2, <2>1, MoveKeepsShape DEF IInv, Labels, Taking
<1>5. StampInv'
  BY <1>1
    DEF IInv, Types, ShapeInv, Shape, StampInv, InTake, Taking, Live, At, Before, Stat,
        NoFileChange, NoRequest, Moves
<1>6. ASSUME ~disorder' PROVE FirstInv'
  BY <1>1, <1>6
    DEF IInv, Types, ShapeInv, Shape, StampInv, FirstInv, InTake, Taking, Live, At,
        Before, Stat, NoFileChange, NoRequest, Moves, Aged, Stands
<1>7. ASSUME ~disorder' PROVE HoldInv'
  BY <1>1, <1>7
    DEF IInv, Types, ShapeInv, Shape, StampInv, FirstInv, HoldInv, FreeInv, Holds,
        Clearing, InTake, Taking, Live, At, Before, Slots, Owners, Stat, NoFileChange,
        NoRequest, Moves
<1>8. ASSUME ~disorder' PROVE FreeInv'
  <2>1. \A u \in Threads : u # t => mem'[u] = mem[u] /\ pc'[u] = pc[u] /\ Live(u)' = Live(u)
    BY <1>1, <1>2 DEF IInv, Types, Moves, Live
  <2>3. \A u \in Threads, s \in Slots : Holds(u, s)' => Holds(u, s)
    BY <1>1, <1>2, <1>t, <2>1
      DEF IInv, Types, Shape, Taking, Holds, Moves, Stat, At, Live
  <2>4. ASSUME NEW u \in Threads PROVE Free(u)'
    <3>1. CASE u = t
      <4>1. m.at \in Slots /\ m.old = 2 => l = "mkdir" \/ \A v \in Threads : ~Holds(v, m.at)
        BY <1>8, <1>1, <1>2 DEF IInv, HoldInv
      <4>2. mem'[t] = m /\ pc'[t] = l
        BY <1>1 DEF IInv, Types, Moves
      <4>3. l = "read" => m.at \in Slots
        BY <1>1, <1>t DEF Stat, At, Shape
      <4> QED BY <1>1, <2>3, <3>1, <4>1, <4>2, <4>3 DEF Free, At, Clearing
    <3>2. CASE u # t
      <4>1. ~InTake(u)
        BY <1>8, <1>2, <1>t, <3>2, OneTaker DEF Stat, Shape, InTake, At, Taking
      <4> QED BY <2>1, <3>2, <4>1, FreeUnlessTaking DEF Free, At, Clearing
    <3> QED BY <3>1, <3>2
  <2> QED BY <2>4 DEF FreeInv
<1> QED BY <1>3, <1>4, <1>5, <1>6, <1>7, <1>8 DEF IInv

LEMMA ReadKeeps == ASSUME IInv, NEW t \in Threads, Read(t) PROVE IInv'
<1> USE PoolAssumption
<1>t. mem[t] \in Mems /\ Shape(mem[t], pc[t])
  BY MemType DEF IInv, ShapeInv
<1>1. PICK m \in Mems, l \in {"mkdir", "unlink"} :
        /\ Moves(t, m, l)
        /\ m.taken = mem[t].taken /\ m.why = "clear"
        /\ l = "mkdir" => m.at = mem[t].at + 1
        /\ l = "unlink" => m.at = mem[t].at /\ Abandoned(dir[m.at], mem[t].old)
  <2>1. mem[t] \in Mems /\ mem[t].at \in Slots /\ mem[t].why = "clear"
    BY MemType DEF IInv, ShapeInv, Shape, Read, At
  <2>2. CASE ~Abandoned(dir[mem[t].at], mem[t].old)
    BY <2>1, <2>2, NextSlotMoves DEF IInv, Mems, Read
  <2>3. CASE Abandoned(dir[mem[t].at], mem[t].old)
    <3> DEFINE m == [mem[t] EXCEPT !.old = 0]
    <3>2. m \in Mems /\ m.taken = mem[t].taken /\ m.why = mem[t].why /\ m.at = mem[t].at
      BY <2>1 DEF Mems
    <3>3. Moves(t, m, "unlink")
      BY <2>3 DEF Read, Moves, Goto, IInv, Types
    <3> QED BY <2>1, <2>3, <3>2, <3>3
  <2> QED BY <2>2, <2>3
<1>2. /\ dir' \in [Slots -> Owners \cup {"none", "bare"}] /\ age' \in [Slots -> 0..2]
      /\ UNCHANGED <<alive, cancelled, stamp, clock, horizon, disorder>>
      /\ Live(t) /\ queue \subseteq Threads /\ (pc[t] = "wait" \/ InTake(t) => t \in queue \/ Aged(t))
  BY DEF IInv, Types, Read, NoFileChange, NoRequest, At, InTake
<1>3. Types'
  BY <1>1, <1>2, <1>t, MoveKeepsTypes
    DEF IInv, Shape, NoFileChange, Read, Labels, Taking, InTake, At
<1>4. ShapeInv'
  <2>1. Shape(m, l)
    BY <1>1, <1>t DEF Mems, Slots, Shape, Read, At, Taking
  <2> QED BY <1>1, <1>2, <2>1, MoveKeepsShape DEF IInv, Labels, Taking
<1>5. StampInv'
  BY <1>1
    DEF IInv, Types, ShapeInv, Shape, StampInv, InTake, Taking, Live, At, Before, Read,
        NoFileChange, NoRequest, Moves
<1>6. ASSUME ~disorder' PROVE FirstInv'
  BY <1>1, <1>6
    DEF IInv, Types, ShapeInv, Shape, StampInv, FirstInv, InTake, Taking, Live, At,
        Before, Read, NoFileChange, NoRequest, Moves, Aged, Stands
<1>7. ASSUME ~disorder' PROVE HoldInv'
  BY <1>1, <1>7
    DEF IInv, Types, ShapeInv, Shape, StampInv, FirstInv, HoldInv, FreeInv, Holds,
        Clearing, InTake, Taking, Live, At, Before, Slots, Owners, Read, NoFileChange,
        NoRequest, Moves
<1>8. ASSUME ~disorder' PROVE FreeInv'
  <2>1. \A u \in Threads : u # t => mem'[u] = mem[u] /\ pc'[u] = pc[u] /\ Live(u)' = Live(u)
    BY <1>1, <1>2 DEF IInv, Types, Moves, Live
  <2>3. \A u \in Threads, s \in Slots : Holds(u, s)' => Holds(u, s)
    BY <1>1, <1>2, <1>t, <2>1
      DEF IInv, Types, Shape, Taking, Holds, Moves, Read, At, Live
  <2>4. ASSUME NEW u \in Threads PROVE Free(u)'
    <3>1. CASE u = t
      <4>1. ASSUME l = "unlink", NEW v \in Threads, Holds(v, m.at) PROVE FALSE
        <5>1. m.at \in Slots /\ m.at = mem[t].at
          BY <4>1, <1>1, <1>t DEF Read, At, Shape
        <5>2. dir[m.at] = Home[v] /\ Home[v] \in alive
          BY <4>1, <5>1, <1>8, <1>2 DEF IInv, HoldInv, Holds, Live
        <5>3. mem[t].old = 2
          BY <4>1, <1>1, <5>2 DEF Abandoned, Owners
        <5> QED BY <4>1, <5>1, <5>3, <1>8, <1>2 DEF IInv, FreeInv, Free, Read
      <4>2. mem'[t] = m /\ pc'[t] = l
        BY <1>1 DEF IInv, Types, Moves
      <4>3. l = "unlink" => m.at \in Slots
        BY <1>1, <1>t DEF Read, At, Shape
      <4> QED BY <1>1, <2>3, <3>1, <4>1, <4>2, <4>3 DEF Free, At, Clearing
    <3>2. CASE u # t
      <4>1. ~InTake(u)
        BY <1>8, <1>2, <1>t, <3>2, OneTaker DEF Read, Shape, InTake, At, Taking
      <4> QED BY <2>1, <3>2, <4>1, FreeUnlessTaking DEF Free, At, Clearing
    <3> QED BY <3>1, <3>2
  <2> QED BY <2>4 DEF FreeInv
<1> QED BY <1>3, <1>4, <1>5, <1>6, <1>7, <1>8 DEF IInv

LEMMA ClearedKeeps == ASSUME IInv, NEW t \in Threads, Cleared(t) PROVE IInv'
<1> USE PoolAssumption
<1>t. mem[t] \in Mems /\ Shape(mem[t], pc[t])
  BY MemType DEF IInv, ShapeInv
<1>1. PICK m \in Mems :
        /\ Moves(t, m, "mkdir")
        /\ m.taken = mem[t].taken /\ m.why = "clear" /\ m.at \in {mem[t].at, mem[t].at + 1}
  <2>1. mem[t] \in Mems /\ mem[t].at \in Slots /\ mem[t].why = "clear"
    BY MemType DEF IInv, ShapeInv, Shape, Cleared, At
  <2>2. CASE mem[t].attempt # 1
    BY <2>1, <2>2, NextSlotMoves DEF IInv, Mems, Cleared
  <2>3. CASE mem[t].attempt = 1
    <3> DEFINE m == [mem[t] EXCEPT !.attempt = 2]
    <3>2. m \in Mems /\ m.taken = mem[t].taken /\ m.why = mem[t].why /\ m.at = mem[t].at
      BY <2>1 DEF Mems
    <3>3. Moves(t, m, "mkdir")
      BY <2>3 DEF Cleared, Moves, Goto, IInv, Types
    <3> QED BY <2>1, <3>2, <3>3
  <2> QED BY <2>2, <2>3
<1>2. /\ dir' \in [Slots -> Owners \cup {"none", "bare"}] /\ age' \in [Slots -> 0..2]
      /\ UNCHANGED <<alive, cancelled, stamp, clock, horizon, disorder>>
      /\ Live(t) /\ queue \subseteq Threads /\ (pc[t] = "wait" \/ InTake(t) => t \in queue \/ Aged(t))
  BY SetTypes DEF IInv, ShapeInv, Shape, Types, Cleared, Removed, NoRequest, At, InTake
<1>3. Types'
  BY <1>1, <1>2, <1>t, MoveKeepsTypes
    DEF IInv, Shape, NoFileChange, Cleared, Labels, Taking, InTake, At
<1>4. ShapeInv'
  <2>1. Shape(m, "mkdir")
    BY <1>1, <1>t DEF Mems, Slots, Shape, Cleared, At, Taking
  <2> QED BY <1>1, <1>2, <2>1, MoveKeepsShape DEF IInv, Labels, Taking
<1>5. StampInv'
  BY <1>1
    DEF IInv, Types, ShapeInv, Shape, StampInv, InTake, Taking, Live, At, Before,
        Cleared, NoRequest, Moves, Removed, Set
<1>6. ASSUME ~disorder' PROVE FirstInv'
  BY <1>1, <1>6
    DEF IInv, Types, ShapeInv, Shape, StampInv, FirstInv, InTake, Taking, Live, At,
        Before, Cleared, NoRequest, Moves, Removed, Set, Aged, Stands
<1>7. ASSUME ~disorder' PROVE HoldInv'
  BY <1>1, <1>7
    DEF IInv, Types, ShapeInv, Shape, StampInv, FirstInv, HoldInv, FreeInv, Holds,
        Clearing, InTake, Taking, Live, At, Before, Slots, Owners, Cleared, NoRequest,
        Moves, Removed, Set
<1>8. ASSUME ~disorder' PROVE FreeInv'
  <2>1. \A u \in Threads : u # t => mem'[u] = mem[u] /\ pc'[u] = pc[u] /\ Live(u)' = Live(u)
    BY <1>1, <1>2 DEF IInv, Types, Moves, Live
  <2>3. \A u \in Threads, s \in Slots : Holds(u, s)' => Holds(u, s)
    BY <1>1, <1>2, <1>t, <2>1
      DEF IInv, Types, Shape, Taking, Holds, Moves, Cleared, At, Live
  <2>4. ASSUME NEW u \in Threads PROVE Free(u)'
    <3>1. CASE u = t
      BY <1>1, <3>1 DEF IInv, Types, Moves, Free, At, Clearing
    <3>2. CASE u # t
      <4>1. ~InTake(u)
        BY <1>8, <1>2, <1>t, <3>2, OneTaker DEF Cleared, Shape, InTake, At, Taking
      <4> QED BY <2>1, <3>2, <4>1, FreeUnlessTaking DEF Free, At, Clearing
    <3> QED BY <3>1, <3>2
  <2> QED BY <2>4 DEF FreeInv
<1> QED BY <1>3, <1>4, <1>5, <1>6, <1>7, <1>8 DEF IInv

LEMMA OwnKeeps == ASSUME IInv, NEW t \in Threads, Own(t) PROVE IInv'
<1> USE PoolAssumption
<1>t. mem[t] \in Mems /\ Shape(mem[t], pc[t])
  BY MemType DEF IInv, ShapeInv
<1>1. PICK m \in Mems :
        /\ Moves(t, m, "mkdir")
        /\ m.taken = mem[t].taken \cup {mem[t].at} /\ m.why = "clear" /\ m.at = mem[t].at + 1
  <2>1. mem[t].taken \cup {mem[t].at} \in SUBSET Slots /\ mem[t].at \in Slots
    BY MemType DEF IInv, ShapeInv, Shape, Own, At, Mems
  <2> QED BY <2>1, NextSlotMoves DEF IInv, Own
<1>2. /\ dir' \in [Slots -> Owners \cup {"none", "bare"}] /\ age' \in [Slots -> 0..2]
      /\ UNCHANGED <<alive, cancelled, stamp, clock, horizon, disorder>>
      /\ Live(t) /\ queue \subseteq Threads /\ (pc[t] = "wait" \/ InTake(t) => t \in queue \/ Aged(t))
  BY SetTypes DEF IInv, ShapeInv, Shape, Types, Own, Owners, NoRequest, At, InTake
<1>3. Types'
  BY <1>1, <1>2, <1>t, MoveKeepsTypes
    DEF IInv, Shape, NoFileChange, Own, Labels, Taking, InTake, At
<1>4. ShapeInv'
  <2>1. Shape(m, "mkdir")
    BY <1>1, <1>t DEF Mems, Slots, Shape, Own, At, Taking
  <2> QED BY <1>1, <1>2, <2>1, MoveKeepsShape DEF IInv, Labels, Taking
<1>5. StampInv'
  BY <1>1
    DEF IInv, Types, ShapeInv, Shape, StampInv, InTake, Taking, Live, At, Before, Own,
        NoRequest, Moves, Set
<1>6. ASSUME ~disorder' PROVE FirstInv'
  BY <1>1, <1>6
    DEF IInv, Types, ShapeInv, Shape, StampInv, FirstInv, InTake, Taking, Live, At,
        Before, Own, NoRequest, Moves, Set, Aged, Stands
<1>7. ASSUME ~disorder' PROVE HoldInv'
  <2>1. \A u \in Threads : u # t => mem'[u] = mem[u] /\ pc'[u] = pc[u] /\ Live(u)' = Live(u)
    BY <1>1, <1>2 DEF IInv, Types, Moves, Live
  <2>2. mem[t].at \in Slots /\ dir[mem[t].at] \in {"bare", "none"}
    BY <1>7, <1>2, <1>t DEF IInv, FreeInv, Free, Own, At, Shape
  <2>3. \A u \in Threads : ~Holds(u, mem[t].at)
    BY <1>7, <1>2, <2>2, PoolAssumption DEF IInv, HoldInv
  <2>4. \A u \in Threads, s \in Slots : Holds(u, s)' => Holds(u, s) \/ (u = t /\ s = mem[t].at)
    BY <1>1, <1>2, <2>1 DEF IInv, Types, Holds, Moves, Own, At, Live
  <2>5. dir' = [dir EXCEPT ![mem[t].at] = Home[t]] /\ age' = [age EXCEPT ![mem[t].at] = 0]
    BY DEF Own, Set
  <2> QED BY <1>7, <1>2, <2>2, <2>3, <2>4, <2>5 DEF IInv, Types, HoldInv
<1>8. ASSUME ~disorder' PROVE FreeInv'
  <2>1. \A u \in Threads : u # t => mem'[u] = mem[u] /\ pc'[u] = pc[u] /\ Live(u)' = Live(u)
    BY <1>1, <1>2 DEF IInv, Types, Moves, Live
  <2>4. ASSUME NEW u \in Threads PROVE Free(u)'
    <3>1. CASE u = t
      BY <1>1, <3>1 DEF IInv, Types, Moves, Free, At, Clearing
    <3>2. CASE u # t
      <4>1. ~InTake(u)
        BY <1>8, <1>2, <1>t, <3>2, OneTaker DEF Own, Shape, InTake, At, Taking
      <4> QED BY <2>1, <3>2, <4>1, FreeUnlessTaking DEF Free, At, Clearing
    <3> QED BY <3>1, <3>2
  <2> QED BY <2>4 DEF FreeInv
<1> QED BY <1>3, <1>4, <1>5, <1>6, <1>7, <1>8 DEF IInv

LEMMA GivenKeeps == ASSUME IInv, NEW t \in Threads, Given(t) PROVE IInv'
<1> USE PoolAssumption
<1>t. mem[t] \in Mems /\ Shape(mem[t], pc[t])
  BY MemType DEF IInv, ShapeInv
<1>1. PICK m \in Mems, l \in {"unlink", "wait", "ended"} :
        /\ Moves(t, m, l)
        /\ m.taken = mem[t].taken \ {mem[t].at}
        /\ l = "unlink" => m.at \in m.taken /\ m.why = mem[t].why /\ queue' = queue
        /\ l # "unlink" => m.taken = {}
        /\ l = "wait" => queue' = queue /\ mem[t].why = "short"
        /\ l = "ended" => queue' = queue \ {t} \/ (queue' = queue /\ mem[t].why = "return")
  <2> DEFINE left == mem[t].taken \ {mem[t].at}
  <2>1. mem[t] \in Mems /\ left \in SUBSET Slots /\ mem[t].why \in {"short", "return"}
    BY MemType DEF IInv, Given, At, Mems
  <2>2. CASE left # {} /\ Give(t, left, mem[t].why) /\ UNCHANGED queue
    BY <2>1, <2>2, GiveMoves DEF IInv
  <2>3. CASE left = {} /\ mem[t].why = "short" /\ mem' = [mem EXCEPT ![t] = Fresh] /\ Again(t, queue)
    <3>1. CASE Home[t] \in cancelled
      BY <2>1, <2>3, <3>1, FreshType DEF Again, Goto, Moves
    <3>2. CASE Home[t] \notin cancelled
      BY <2>1, <2>3, <3>2, FreshType DEF Again, Goto, Moves
    <3> QED BY <3>1, <3>2
  <2>4. CASE left = {} /\ mem[t].why = "return" /\ mem' = [mem EXCEPT ![t] = Fresh]
             /\ Goto(t, "ended") /\ UNCHANGED queue
    BY <2>1, <2>4, FreshType DEF Goto, Moves
  <2> QED BY <2>2, <2>3, <2>4 DEF Given
<1>2. /\ dir' \in [Slots -> Owners \cup {"none", "bare"}] /\ age' \in [Slots -> 0..2]
      /\ UNCHANGED <<alive, cancelled, stamp, clock, horizon, disorder>>
      /\ Live(t) /\ queue \subseteq Threads /\ (pc[t] = "wait" \/ InTake(t) => t \in queue \/ Aged(t))
  <2>1. mem[t].at \in Slots
    BY MemType DEF IInv, ShapeInv, Shape, Given, At, Mems
  <2> QED BY <2>1, SetTypes DEF IInv, Types, Given, Removed, NoRequest, At, InTake
<1>3. Types'
  BY <1>1, <1>2, <1>t, MoveKeepsTypes
    DEF IInv, Shape, NoFileChange, Given, Labels, Taking, InTake, At
<1>4. ShapeInv'
  <2>1. Shape(m, l)
    BY <1>1, <1>t DEF Mems, Slots, Shape, Given, At, Taking
  <2> QED BY <1>1, <1>2, <2>1, MoveKeepsShape DEF IInv, Labels, Taking
<1>5. StampInv'
  BY <1>1
    DEF IInv, Types, ShapeInv, Shape, StampInv, InTake, Taking, Live, At, Before,
        Given, NoRequest, Moves, Removed, Set
<1>6. ASSUME ~disorder' PROVE FirstInv'
  BY <1>1, <1>6
    DEF IInv, Types, ShapeInv, Shape, StampInv, FirstInv, InTake, Taking, Live, At,
        Before, Given, NoRequest, Moves, Removed, Set, Aged, Stands
<1>7. ASSUME ~disorder' PROVE HoldInv'
  BY <1>1, <1>7
    DEF IInv, Types, ShapeInv, Shape, StampInv, FirstInv, HoldInv, FreeInv, Holds,
        Clearing, InTake, Taking, Live, At, Before, Slots, Owners, Given, NoRequest,
        Moves, Removed, Set
<1>8. ASSUME ~disorder' PROVE FreeInv'
  <2>1. \A u \in Threads : u # t => mem'[u] = mem[u] /\ pc'[u] = pc[u] /\ Live(u)' = Live(u)
    BY <1>1, <1>2 DEF IInv, Types, Moves, Live
  <2>3. \A u \in Threads, s \in Slots : Holds(u, s)' => Holds(u, s)
    BY <1>1, <1>2, <1>t, <2>1
      DEF IInv, Types, Shape, Taking, Holds, Moves, Given, At, Live
  <2>4. ASSUME NEW u \in Threads PROVE Free(u)'
    <3>1. CASE u = t
      BY <1>1, <1>t, <3>1 DEF IInv, Types, Moves, Free, At, Clearing, Given
    <3>2. CASE u # t
      <4>1. Free(u)
        BY <1>8, <1>2 DEF IInv, FreeInv
      <4>2. At(u, "own") \/ At(u, "read") \/ Clearing(u) => mem[u].at \in Slots
        BY DEF IInv, ShapeInv, Shape, At, Clearing
      <4>3. \A s \in Slots : dir[s] \in {"bare", "none"} => dir'[s] \in {"bare", "none"}
        BY DEF IInv, Types, Given, NoFileChange, Removed, Set
      <4> QED BY <1>2, <2>1, <2>3, <3>2, <4>1, <4>2, <4>3 DEF Free, At, Clearing, Live
    <3> QED BY <3>1, <3>2
  <2> QED BY <2>4 DEF FreeInv
<1> QED BY <1>3, <1>4, <1>5, <1>6, <1>7, <1>8 DEF IInv

LEMMA ShortKeeps == ASSUME IInv, NEW t \in Threads, Short(t) PROVE IInv'
<1> USE PoolAssumption
<1>t. mem[t] \in Mems /\ Shape(mem[t], pc[t])
  BY MemType DEF IInv, ShapeInv
<1>1. PICK m \in Mems, l \in {"unlink", "wait", "ended"} :
        /\ Moves(t, m, l)
        /\ m.taken = mem[t].taken
        /\ l = "unlink" => m.at \in m.taken /\ m.why = "short" /\ queue' = queue
        /\ l # "unlink" => m.taken = {}
        /\ l = "wait" => queue' = queue
        /\ l = "ended" => queue' = queue \ {t}
  <2>1. mem[t] \in Mems /\ mem[t].taken \in SUBSET Slots
    BY MemType DEF IInv, Mems
  <2>2. CASE mem[t].taken = {}
    BY <2>1, <2>2, FreshType DEF Short, Again, Goto, Moves
  <2>3. CASE mem[t].taken # {}
    BY <2>1, <2>3, GiveMoves DEF IInv, Short
  <2> QED BY <2>2, <2>3
<1>2. /\ dir' \in [Slots -> Owners \cup {"none", "bare"}] /\ age' \in [Slots -> 0..2]
      /\ UNCHANGED <<alive, cancelled, stamp, clock, horizon, disorder>>
      /\ Live(t) /\ queue \subseteq Threads /\ (pc[t] = "wait" \/ InTake(t) => t \in queue \/ Aged(t))
  BY DEF IInv, Types, Short, NoRequest, At, InTake
<1>3. Types'
  BY <1>1, <1>2, <1>t, MoveKeepsTypes
    DEF IInv, Shape, NoFileChange, Short, Labels, Taking, InTake, At
<1>4. ShapeInv'
  <2>1. Shape(m, l)
    BY <1>1, <1>t DEF Mems, Slots, Shape, Short, At, Taking
  <2> QED BY <1>1, <1>2, <2>1, MoveKeepsShape DEF IInv, Labels, Taking
<1>5. StampInv'
  BY <1>1
    DEF IInv, Types, ShapeInv, Shape, StampInv, InTake, Taking, Live, At, Before,
        Short, NoRequest, Moves, Seeking
<1>6. ASSUME ~disorder' PROVE FirstInv'
  BY <1>1, <1>6
    DEF IInv, Types, ShapeInv, Shape, StampInv, FirstInv, InTake, Taking, Live, At,
        Before, Short, NoRequest, Moves, Seeking, Aged, Stands
<1>7. ASSUME ~disorder' PROVE HoldInv'
  BY <1>1, <1>7
    DEF IInv, Types, ShapeInv, Shape, StampInv, FirstInv, HoldInv, FreeInv, Holds,
        Clearing, InTake, Taking, Live, At, Before, Slots, Owners, Short, NoRequest,
        Moves, Seeking
<1>8. ASSUME ~disorder' PROVE FreeInv'
  <2>1. \A u \in Threads : u # t => mem'[u] = mem[u] /\ pc'[u] = pc[u] /\ Live(u)' = Live(u)
    BY <1>1, <1>2 DEF IInv, Types, Moves, Live
  <2>3. \A u \in Threads, s \in Slots : Holds(u, s)' => Holds(u, s)
    BY <1>1, <1>2, <1>t, <2>1
      DEF IInv, Types, Shape, Taking, Holds, Moves, Short, At, Live
  <2>4. ASSUME NEW u \in Threads PROVE Free(u)'
    <3>1. CASE u = t
      BY <1>1, <1>t, <3>1 DEF IInv, Types, Moves, Free, At, Clearing, Short
    <3>2. CASE u # t
      <4>1. Free(u)
        BY <1>8, <1>2 DEF IInv, FreeInv
      <4>2. At(u, "own") \/ At(u, "read") \/ Clearing(u) => mem[u].at \in Slots
        BY DEF IInv, ShapeInv, Shape, At, Clearing
      <4>3. \A s \in Slots : dir[s] \in {"bare", "none"} => dir'[s] \in {"bare", "none"}
        BY DEF IInv, Types, Short, NoFileChange, Removed, Set
      <4> QED BY <1>2, <2>1, <2>3, <3>2, <4>1, <4>2, <4>3 DEF Free, At, Clearing, Live
    <3> QED BY <3>1, <3>2
  <2> QED BY <2>4 DEF FreeInv
<1> QED BY <1>3, <1>4, <1>5, <1>6, <1>7, <1>8 DEF IInv

LEMMA FinishKeeps == ASSUME IInv, NEW t \in Threads, Finish(t) PROVE IInv'
<1> USE PoolAssumption
<1>t. mem[t] \in Mems /\ Shape(mem[t], pc[t])
  BY MemType DEF IInv, ShapeInv
<1>1. PICK m \in Mems :
        /\ Moves(t, m, "unlink")
        /\ m.at \in m.taken /\ m.taken = mem[t].taken /\ m.why = "return"
  <2>1. mem[t].taken \in SUBSET Slots /\ mem[t].taken # {}
    BY MemType DEF IInv, Mems, ShapeInv, Shape, Taking, Finish, At
  <2> QED BY <2>1, GiveMoves DEF IInv, Finish
<1>2. /\ dir' \in [Slots -> Owners \cup {"none", "bare"}] /\ age' \in [Slots -> 0..2]
      /\ UNCHANGED <<alive, cancelled, stamp, clock, horizon, disorder>>
      /\ Live(t) /\ queue \subseteq Threads /\ (pc[t] = "wait" \/ InTake(t) => t \in queue \/ Aged(t))
  BY DEF IInv, Types, Finish, NoFileChange, NoRequest, At, InTake
<1>3. Types'
  BY <1>1, <1>2, <1>t, MoveKeepsTypes
    DEF IInv, Shape, NoFileChange, Finish, Labels, Taking, InTake, At
<1>4. ShapeInv'
  <2>1. Shape(m, "unlink")
    BY <1>1, <1>t DEF Mems, Slots, Shape, Finish, At, Taking
  <2> QED BY <1>1, <1>2, <2>1, MoveKeepsShape DEF IInv, Labels, Taking
<1>5. StampInv'
  BY <1>1
    DEF IInv, Types, ShapeInv, Shape, StampInv, InTake, Taking, Live, At, Before,
        Finish, NoRequest, NoFileChange, Moves
<1>6. ASSUME ~disorder' PROVE FirstInv'
  BY <1>1, <1>6
    DEF IInv, Types, ShapeInv, Shape, StampInv, FirstInv, InTake, Taking, Live, At,
        Before, Finish, NoRequest, NoFileChange, Moves, Aged, Stands
<1>7. ASSUME ~disorder' PROVE HoldInv'
  BY <1>1, <1>7
    DEF IInv, Types, ShapeInv, Shape, StampInv, FirstInv, HoldInv, FreeInv, Holds,
        Clearing, InTake, Taking, Live, At, Before, Slots, Owners, Finish, NoRequest,
        NoFileChange, Moves
<1>8. ASSUME ~disorder' PROVE FreeInv'
  <2>1. \A u \in Threads : u # t => mem'[u] = mem[u] /\ pc'[u] = pc[u] /\ Live(u)' = Live(u)
    BY <1>1, <1>2 DEF IInv, Types, Moves, Live
  <2>3. \A u \in Threads, s \in Slots : Holds(u, s)' => Holds(u, s)
    BY <1>1, <1>2, <1>t, <2>1
      DEF IInv, Types, Shape, Taking, Holds, Moves, Finish, At, Live
  <2>4. ASSUME NEW u \in Threads PROVE Free(u)'
    <3>1. CASE u = t
      BY <1>1, <1>t, <3>1 DEF IInv, Types, Moves, Free, At, Clearing, Finish
    <3>2. CASE u # t
      <4>1. Free(u)
        BY <1>8, <1>2 DEF IInv, FreeInv
      <4>2. At(u, "own") \/ At(u, "read") \/ Clearing(u) => mem[u].at \in Slots
        BY DEF IInv, ShapeInv, Shape, At, Clearing
      <4>3. \A s \in Slots : dir[s] \in {"bare", "none"} => dir'[s] \in {"bare", "none"}
        BY DEF IInv, Types, Finish, NoFileChange, Removed, Set
      <4> QED BY <1>2, <2>1, <2>3, <3>2, <4>1, <4>2, <4>3 DEF Free, At, Clearing, Live
    <3> QED BY <3>1, <3>2
  <2> QED BY <2>4 DEF FreeInv
<1> QED BY <1>3, <1>4, <1>5, <1>6, <1>7, <1>8 DEF IInv

----------------------------------------------------------------------------
(* Steps about tickets. *)

LEMMA NameKeeps == ASSUME IInv, NEW t \in Threads, Name(t) PROVE IInv'
<1> USE PoolAssumption
<1>1. Types'
  BY DEF IInv, Types, ShapeInv, Shape, Slots, Owners, Labels, Taking, InTake, Live, At,
       Name, Goto, Aged, Stands
<1>2. ShapeInv'
  BY DEF IInv, Types, ShapeInv, Shape, Slots, Labels, Taking, Live, At, Name, Goto
<1>3. StampInv'
  BY DEF IInv, Types, ShapeInv, Shape, StampInv, InTake, Taking, Live, At, Before,
       Name, Goto
<1>4. ASSUME ~disorder' PROVE FirstInv'
  BY <1>4
    DEF IInv, Types, ShapeInv, Shape, StampInv, FirstInv, InTake, Taking, Live, At,
        Before, Name, Goto, Aged, Stands
<1>5. ASSUME ~disorder' PROVE HoldInv'
  BY <1>5
    DEF IInv, Types, ShapeInv, Shape, StampInv, FirstInv, HoldInv, FreeInv, Holds,
        Clearing, InTake, Taking, Live, At, Before, Slots, Owners, Name, Goto
<1>6. ASSUME ~disorder' PROVE FreeInv'
  BY <1>6
    DEF IInv, Types, ShapeInv, Shape, StampInv, FirstInv, HoldInv, FreeInv, Holds,
        Clearing, InTake, Taking, Live, At, Before, Slots, Owners, Free, Name, Goto
<1> QED BY <1>1, <1>2, <1>3, <1>4, <1>5, <1>6 DEF IInv

LEMMA TouchKeeps == ASSUME IInv, NEW t \in Threads, Touch(t) PROVE IInv'
<1> USE PoolAssumption
<1>1. Types'
  BY DEF IInv, Types, ShapeInv, Shape, Slots, Owners, Labels, Taking, InTake, Live, At,
       Touch, Goto, Aged, Stands
<1>2. ShapeInv'
  BY DEF IInv, Types, ShapeInv, Shape, Slots, Labels, Taking, Live, At, Touch, Goto
<1>3. StampInv'
  BY DEF IInv, Types, ShapeInv, Shape, StampInv, InTake, Taking, Live, At, Before,
       Touch, Goto
<1>4. ASSUME ~disorder' PROVE FirstInv'
  <2>1. queue' = queue \cup {t} /\ queue \subseteq Threads
    BY DEF IInv, Types, Touch
  <2>2. \A u \in Threads : (InTake(u)' <=> InTake(u)) /\ (Live(u)' <=> Live(u)) /\ stamp'[u] = stamp[u]
    BY DEF IInv, Types, Touch, Goto, At, InTake, Live, Taking
  <2>3. ASSUME NEW u \in Threads, InTake(u) PROVE u # t /\ stamp[u] < stamp[t]
    <3>1. u # t /\ stamp[u] # stamp[t]
      BY <2>3 DEF IInv, StampInv, Touch, At, InTake, Taking
    <3>2. ~(stamp[u] > stamp[t])
      BY <1>4, <2>3 DEF Touch
    <3>3. stamp[u] \in Nat /\ stamp[t] \in Nat
      BY DEF IInv, Types
    <3> QED BY <3>1, <3>2, <3>3
  <2>4. ~disorder /\ horizon' = horizon
    BY <1>4 DEF Touch
  <2>5. \A u \in Threads : (Stands(u)' <=> Stands(u)) /\ (Aged(u)' <=> Aged(u))
    BY <2>2, <2>4 DEF Stands, Aged
  <2> SUFFICES ASSUME NEW u \in Threads, InTake(u)'
               PROVE  ~Aged(u)' /\ \A v \in queue' : Stands(v)' /\ v # u => stamp'[u] < stamp'[v]
    BY DEF FirstInv, Before
  <2>6. InTake(u) /\ ~Aged(u) /\ \A v \in queue : Stands(v) /\ v # u => stamp[u] < stamp[v]
    BY <2>2, <2>4 DEF IInv, FirstInv, Before
  <2> QED BY <2>1, <2>2, <2>3, <2>5, <2>6
<1>5. ASSUME ~disorder' PROVE HoldInv'
  BY <1>5
    DEF IInv, Types, ShapeInv, Shape, StampInv, FirstInv, HoldInv, FreeInv, Holds,
        Clearing, InTake, Taking, Live, At, Before, Slots, Owners, Touch, Goto
<1>6. ASSUME ~disorder' PROVE FreeInv'
  BY <1>6
    DEF IInv, Types, ShapeInv, Shape, StampInv, FirstInv, HoldInv, FreeInv, Holds,
        Clearing, InTake, Taking, Live, At, Before, Slots, Owners, Free, Touch, Goto
<1> QED BY <1>1, <1>2, <1>3, <1>4, <1>5, <1>6 DEF IInv

LEMMA QueuedKeeps == ASSUME IInv, NEW t \in Threads, Queued(t) PROVE IInv'
<1> USE PoolAssumption
<1>1. Types'
  <2>1. PICK l \in {"wait", "ended"} : Moves(t, mem[t], l) /\ (l = "wait" => queue' = queue \ Dropped)
    BY DEF IInv, Types, Queued, Again, Goto, Moves
  <2>2. queue' \subseteq queue /\ \A u \in Threads : u # t /\ u \in queue /\ Stands(u) => u \in queue'
    BY DEF Queued, Again, Dropped
  <2>3. /\ UNCHANGED <<dir, age, alive, cancelled, stamp, clock, horizon, disorder>>
        /\ \A u \in Threads : (Live(u)' <=> Live(u)) /\ (Aged(u)' <=> Aged(u))
    BY DEF Queued, NoRequest, Live, Aged
  <2>4. mem' = mem /\ pc' \in [Threads -> Labels]
    BY <2>1 DEF IInv, Types, Queued, Moves, Labels
  <2>5. ASSUME NEW u \in Threads, At(u, "wait")' \/ InTake(u)' PROVE u \in queue' \/ Aged(u)'
    <3>1. Live(u) /\ (At(u, "wait") \/ InTake(u))
      BY <2>1, <2>3, <2>4, <2>5 DEF IInv, Types, Queued, Moves, At, InTake, Taking
    <3>2. CASE u = t
      <4>1. l = "wait"
        BY <2>1, <2>5, <3>2 DEF IInv, Types, Moves, At, InTake, Taking
      <4>2. t \in queue \ Dropped \/ Aged(t)
        BY <3>1, <3>2 DEF IInv, Types, Dropped, Stands
      <4> QED BY <2>1, <2>3, <3>2, <4>1, <4>2
    <3>3. CASE u # t
      BY <2>2, <2>3, <3>1, <3>3 DEF IInv, Types, Stands
    <3> QED BY <3>2, <3>3
  <2> QED BY <2>2, <2>3, <2>4, <2>5 DEF IInv, Types
<1>2. ShapeInv'
  <2>1. PICK l \in {"wait", "ended"} : Moves(t, mem[t], l)
    BY DEF IInv, Types, Queued, Again, Goto, Moves
  <2>2. Shape(mem[t], l)
    BY DEF IInv, ShapeInv, Shape, Queued, At, Taking
  <2> QED BY <2>1, <2>2, MemType, MoveKeepsShape DEF IInv, Labels, Queued, At, NoRequest
<1>3. StampInv'
  BY DEF IInv, Types, ShapeInv, Shape, StampInv, InTake, Taking, Live, At, Before,
       Queued, First, Dropped, Again, Goto, NoRequest
<1>4. ASSUME ~disorder' PROVE FirstInv'
  BY <1>4
    DEF IInv, Types, ShapeInv, Shape, StampInv, FirstInv, InTake, Taking, Live, At,
        Before, Queued, First, Dropped, Again, Goto, NoRequest, Aged, Stands
<1>5. ASSUME ~disorder' PROVE HoldInv'
  BY <1>5
    DEF IInv, Types, ShapeInv, Shape, StampInv, FirstInv, HoldInv, FreeInv, Holds,
        Clearing, InTake, Taking, Live, At, Before, Slots, Owners, Queued, First,
        Dropped, Again, Goto, NoRequest
<1>6. ASSUME ~disorder' PROVE FreeInv'
  BY <1>6
    DEF IInv, Types, ShapeInv, Shape, StampInv, FirstInv, HoldInv, FreeInv, Holds,
        Clearing, InTake, Taking, Live, At, Before, Slots, Owners, Free, Queued, First,
        Dropped, Again, Goto, NoRequest
<1> QED BY <1>1, <1>2, <1>3, <1>4, <1>5, <1>6 DEF IInv

LEMMA TurnKeeps == ASSUME IInv, NEW t \in Threads, Turn(t) PROVE IInv'
<1> USE PoolAssumption
<1>1. Types'
  BY FreshType
    DEF IInv, Types, ShapeInv, Shape, Slots, Owners, Labels, Taking, InTake, Live, At,
        Mems, Turn, First, Dropped, Goto, NoRequest, Aged, Stands
<1>2. ShapeInv'
  BY FreshType
    DEF IInv, Types, ShapeInv, Shape, Slots, Labels, Taking, Live, At, Turn, First,
        Dropped, Goto, NoRequest
<1>3. StampInv'
  BY FreshType
    DEF IInv, Types, ShapeInv, Shape, StampInv, InTake, Taking, Live, At, Before, Turn,
        First, Dropped, Goto, NoRequest
<1>4. ASSUME ~disorder' PROVE FirstInv'
  BY FreshType, <1>4
    DEF IInv, Types, ShapeInv, Shape, StampInv, FirstInv, InTake, Taking, Live, At,
        Before, Turn, First, Dropped, Goto, NoRequest, Aged, Stands
<1>5. ASSUME ~disorder' PROVE HoldInv'
  BY FreshType, <1>5
    DEF IInv, Types, ShapeInv, Shape, StampInv, FirstInv, HoldInv, FreeInv, Holds,
        Clearing, InTake, Taking, Live, At, Before, Slots, Owners, Turn, First, Dropped,
        Goto, NoRequest
<1>6. ASSUME ~disorder' PROVE FreeInv'
  BY FreshType, <1>6
    DEF IInv, Types, ShapeInv, Shape, StampInv, FirstInv, HoldInv, FreeInv, Holds,
        Clearing, InTake, Taking, Live, At, Before, Slots, Owners, Free, Turn, First,
        Dropped, Goto, NoRequest
<1> QED BY <1>1, <1>2, <1>3, <1>4, <1>5, <1>6 DEF IInv

LEMMA OwnerUnwritableKeeps == ASSUME IInv, NEW t \in Threads, OwnerUnwritable(t) PROVE IInv'
<1> USE PoolAssumption
<1>1. Types'
  BY FreshType
    DEF IInv, Types, ShapeInv, Shape, Slots, Owners, Labels, Taking, InTake, Live, At,
        Mems, OwnerUnwritable, Goto, NoRequest, Aged, Stands
<1>2. ShapeInv'
  BY FreshType
    DEF IInv, Types, ShapeInv, Shape, Slots, Labels, Taking, Live, At, OwnerUnwritable,
        Goto, NoRequest
<1>3. StampInv'
  BY FreshType
    DEF IInv, Types, ShapeInv, Shape, StampInv, InTake, Taking, Live, At, Before,
        OwnerUnwritable, Goto, NoRequest
<1>4. ASSUME ~disorder' PROVE FirstInv'
  BY FreshType, <1>4
    DEF IInv, Types, ShapeInv, Shape, StampInv, FirstInv, InTake, Taking, Live, At,
        Before, OwnerUnwritable, Goto, NoRequest, Aged, Stands
<1>5. ASSUME ~disorder' PROVE HoldInv'
  BY FreshType, <1>5
    DEF IInv, Types, ShapeInv, Shape, StampInv, FirstInv, HoldInv, FreeInv, Holds,
        Clearing, InTake, Taking, Live, At, Before, Slots, Owners, OwnerUnwritable,
        Goto, NoRequest
<1>6. ASSUME ~disorder' PROVE FreeInv'
  BY FreshType, <1>6
    DEF IInv, Types, ShapeInv, Shape, StampInv, FirstInv, HoldInv, FreeInv, Holds,
        Clearing, InTake, Taking, Live, At, Before, Slots, Owners, Free,
        OwnerUnwritable, Goto, NoRequest
<1> QED BY <1>1, <1>2, <1>3, <1>4, <1>5, <1>6 DEF IInv

LEMMA GrantedKeeps == ASSUME IInv, NEW t \in Threads, Granted(t) PROVE IInv'
<1> USE PoolAssumption
<1>1. Types'
  BY FreshType
    DEF IInv, Types, ShapeInv, Shape, Slots, Owners, Labels, Taking, InTake, Live, At,
        Mems, Granted, Seeking, Goto, NoRequest, Aged, Stands
<1>2. ShapeInv'
  <2> DEFINE m == [Fresh EXCEPT !.taken = mem[t].taken]
  <2>1. mem[t].taken # {}
    <3>1. Want[t] \in 1..Size
      OBVIOUS
    <3>2. Minimum(t) \in Int /\ Minimum(t) >= 1
      BY <3>1 DEF Minimum
    <3>3. Cardinality({}) = 0
      BY FS_EmptySet
    <3>4. Cardinality(mem[t].taken) >= Minimum(t)
      BY DEF Granted
    <3> QED BY <3>2, <3>3, <3>4
  <2>2. m \in Mems /\ m.taken = mem[t].taken /\ m.why = "clear"
    BY MemType, FreshType DEF IInv, Mems
  <2>3. Moves(t, m, "work")
    BY DEF Granted, Goto, Moves
  <2> QED BY <2>1, <2>2, <2>3, MoveKeepsShape DEF IInv, Shape, Labels, Taking, Granted, At, NoRequest
<1>3. StampInv'
  BY FreshType
    DEF IInv, Types, ShapeInv, Shape, StampInv, InTake, Taking, Live, At, Before,
        Granted, Seeking, Goto, NoRequest
<1>4. ASSUME ~disorder' PROVE FirstInv'
  BY FreshType, <1>4
    DEF IInv, Types, ShapeInv, Shape, StampInv, FirstInv, InTake, Taking, Live, At,
        Before, Granted, Seeking, Goto, NoRequest, Aged, Stands
<1>5. ASSUME ~disorder' PROVE HoldInv'
  BY FreshType, <1>5
    DEF IInv, Types, ShapeInv, Shape, StampInv, FirstInv, HoldInv, FreeInv, Holds,
        Clearing, InTake, Taking, Live, At, Before, Slots, Owners, Granted, Seeking,
        Goto, NoRequest
<1>6. ASSUME ~disorder' PROVE FreeInv'
  BY FreshType, <1>6
    DEF IInv, Types, ShapeInv, Shape, StampInv, FirstInv, HoldInv, FreeInv, Holds,
        Clearing, InTake, Taking, Live, At, Before, Slots, Owners, Free, Granted,
        Seeking, Goto, NoRequest
<1> QED BY <1>1, <1>2, <1>3, <1>4, <1>5, <1>6 DEF IInv

----------------------------------------------------------------------------
(* Steps on a directory that leave the thread's memory. *)

LEMMA MkdirKeeps == ASSUME IInv, NEW t \in Threads, Mkdir(t) PROVE IInv'
<1> USE PoolAssumption
<1>t. mem[t] \in Mems /\ Shape(mem[t], pc[t])
  BY MemType DEF IInv, ShapeInv
<1>1. PICK m \in Mems, l \in {"own", "stat"} : m = mem[t] /\ Moves(t, m, l)
  BY MemType DEF IInv, Types, Mkdir, Moves, Goto
<1>2. /\ dir' \in [Slots -> Owners \cup {"none", "bare"}] /\ age' \in [Slots -> 0..2]
      /\ UNCHANGED <<alive, cancelled, stamp, clock, horizon, disorder>>
      /\ Live(t) /\ queue \subseteq Threads /\ (pc[t] = "wait" \/ InTake(t) => t \in queue \/ Aged(t))
  BY SetTypes DEF IInv, Types, Mkdir, Seeking, NoRequest, At, InTake
<1>3. Types'
  BY <1>1, <1>2, <1>t, MoveKeepsTypes
    DEF IInv, Shape, NoFileChange, Mkdir, Labels, Taking, InTake, At
<1>4. ShapeInv'
  <2>1. Shape(m, l)
    BY <1>1, <1>t DEF Mems, Slots, Shape, Mkdir, Seeking, At, Taking
  <2> QED BY <1>1, <1>2, <2>1, MoveKeepsShape DEF IInv, Labels, Taking
<1>5. StampInv'
  BY <1>1
    DEF IInv, Types, ShapeInv, Shape, StampInv, InTake, Taking, Live, At, Before,
        Mkdir, Moves, Set, NoRequest
<1>6. ASSUME ~disorder' PROVE FirstInv'
  BY <1>1, <1>6
    DEF IInv, Types, ShapeInv, Shape, StampInv, FirstInv, InTake, Taking, Live, At,
        Before, Mkdir, Moves, Set, NoRequest, Aged, Stands
<1>7. ASSUME ~disorder' PROVE HoldInv'
  BY <1>1, <1>7
    DEF IInv, Types, ShapeInv, Shape, StampInv, FirstInv, HoldInv, FreeInv, Holds,
        Clearing, InTake, Taking, Live, At, Before, Slots, Owners, Mkdir, Moves, Set,
        NoRequest
<1>8. ASSUME ~disorder' PROVE FreeInv'
  <2>1. \A u \in Threads : u # t => mem'[u] = mem[u] /\ pc'[u] = pc[u] /\ Live(u)' = Live(u)
    BY <1>1, <1>2 DEF IInv, Types, Moves, Live
  <2>3. \A u \in Threads, s \in Slots : Holds(u, s)' => Holds(u, s)
    BY <1>1, <1>2, <1>t, <2>1
      DEF IInv, Types, Shape, Taking, Holds, Moves, Mkdir, At, Live
  <2>4. ASSUME NEW u \in Threads PROVE Free(u)'
    <3>1. CASE u = t
      <4>1. mem'[t] = mem[t] /\ ((pc'[t] = "own" /\ dir'[mem[t].at] = "bare") \/ pc'[t] = "stat")
        BY DEF IInv, Types, Mkdir, Seeking, Set, Goto
      <4> QED BY <3>1, <4>1 DEF Free, At, Clearing
    <3>2. CASE u # t
      <4>1. ~InTake(u)
        BY <1>8, <1>2, <1>t, <3>2, OneTaker DEF Mkdir, Shape, InTake, At, Taking
      <4> QED BY <2>1, <3>2, <4>1, FreeUnlessTaking DEF Free, At, Clearing
    <3> QED BY <3>1, <3>2
  <2> QED BY <2>4 DEF FreeInv
<1> QED BY <1>3, <1>4, <1>5, <1>6, <1>7, <1>8 DEF IInv

LEMMA UnlinkKeeps == ASSUME IInv, NEW t \in Threads, Unlink(t) PROVE IInv'
<1> USE PoolAssumption
<1>t. mem[t] \in Mems /\ Shape(mem[t], pc[t])
  BY MemType DEF IInv, ShapeInv
<1>1. PICK m \in Mems, l \in {"rmdir"} : m = mem[t] /\ Moves(t, m, l)
  BY MemType DEF IInv, Types, Unlink, Moves, Goto
<1>2. /\ dir' \in [Slots -> Owners \cup {"none", "bare"}] /\ age' \in [Slots -> 0..2]
      /\ UNCHANGED <<alive, cancelled, stamp, clock, horizon, disorder>>
      /\ Live(t) /\ queue \subseteq Threads /\ (pc[t] = "wait" \/ InTake(t) => t \in queue \/ Aged(t))
  BY SetTypes DEF IInv, ShapeInv, Shape, Types, Unlink, NoRequest, At, InTake
<1>3. Types'
  BY <1>1, <1>2, <1>t, MoveKeepsTypes
    DEF IInv, Shape, NoFileChange, Unlink, Labels, Taking, InTake, At
<1>4. ShapeInv'
  <2>1. Shape(m, l)
    BY <1>1, <1>t DEF Mems, Slots, Shape, Unlink, At, Taking
  <2> QED BY <1>1, <1>2, <2>1, MoveKeepsShape DEF IInv, Labels, Taking
<1>5. StampInv'
  BY <1>1
    DEF IInv, Types, ShapeInv, Shape, StampInv, InTake, Taking, Live, At, Before,
        Unlink, Moves, Set, NoRequest
<1>6. ASSUME ~disorder' PROVE FirstInv'
  BY <1>1, <1>6
    DEF IInv, Types, ShapeInv, Shape, StampInv, FirstInv, InTake, Taking, Live, At,
        Before, Unlink, Moves, Set, NoRequest, Aged, Stands
<1>7. ASSUME ~disorder' PROVE HoldInv'
  <2>1. \A u \in Threads : u # t => mem'[u] = mem[u] /\ pc'[u] = pc[u] /\ Live(u)' = Live(u)
    BY <1>1, <1>2 DEF IInv, Types, Moves, Live
  <2>2. \A u \in Threads, s \in Slots : Holds(u, s)' => Holds(u, s) /\ ~(u = t /\ s = mem[t].at)
    BY <1>1, <1>2, <2>1 DEF IInv, Types, Holds, Moves, Unlink, At, Live
  <2>3. mem[t].at \in Slots
    BY <1>t DEF Unlink, At, Shape, Mems
  <2>4. \A u \in Threads : Holds(u, mem[t].at) => u = t
    <3>1. CASE mem[t].why = "clear"
      BY <3>1, <1>7, <1>2 DEF IInv, FreeInv, Free, Clearing, Unlink, At
    <3>2. CASE mem[t].why # "clear"
      <4>1. Holds(t, mem[t].at)
        BY <3>2, <1>t DEF Unlink, At, Shape, Holds
      <4> QED BY <4>1, <2>3, <1>7, <1>2 DEF IInv, HoldInv
    <3> QED BY <3>1, <3>2
  <2>5. \A s \in Slots : s # mem[t].at => dir'[s] = dir[s] /\ age'[s] = age[s]
    BY DEF IInv, Types, Unlink, Set
  <2> QED BY <1>7, <1>2, <2>2, <2>4, <2>5 DEF IInv, HoldInv
<1>8. ASSUME ~disorder' PROVE FreeInv'
  <2>1. \A u \in Threads : u # t => mem'[u] = mem[u] /\ pc'[u] = pc[u] /\ Live(u)' = Live(u)
    BY <1>1, <1>2 DEF IInv, Types, Moves, Live
  <2>3. \A u \in Threads, s \in Slots : Holds(u, s)' => Holds(u, s)
    BY <1>1, <1>2, <1>t, <2>1
      DEF IInv, Types, Shape, Taking, Holds, Moves, Unlink, At, Live
  <2>4. ASSUME NEW u \in Threads PROVE Free(u)'
    <3>1. CASE u = t
      <4>1. mem'[t] = mem[t] /\ pc'[t] = "rmdir" /\ pc[t] = "unlink" /\ Live(t)
        BY DEF IInv, Types, Unlink, Goto, At
      <4>2. Clearing(t) => mem[t].at \in Slots /\ \A v \in Threads : ~Holds(v, mem[t].at)
        BY <1>8, <1>2, <1>t DEF IInv, FreeInv, Free, Clearing, Shape
      <4> QED BY <2>3, <3>1, <4>1, <4>2 DEF Free, At, Clearing
    <3>2. CASE u # t
      <4>1. Free(u)
        BY <1>8, <1>2 DEF IInv, FreeInv
      <4>2. At(u, "own") \/ At(u, "read") \/ Clearing(u) => mem[u].at \in Slots
        BY DEF IInv, ShapeInv, Shape, At, Clearing
      <4>3. \A s \in Slots : dir[s] \in {"bare", "none"} => dir'[s] \in {"bare", "none"}
        BY DEF IInv, Types, Unlink, NoFileChange, Removed, Set
      <4> QED BY <1>2, <2>1, <2>3, <3>2, <4>1, <4>2, <4>3 DEF Free, At, Clearing, Live
    <3> QED BY <3>1, <3>2
  <2> QED BY <2>4 DEF FreeInv
<1> QED BY <1>3, <1>4, <1>5, <1>6, <1>7, <1>8 DEF IInv

----------------------------------------------------------------------------
(* Steps of the processes and of time. *)

LEMMA CancelKeeps == ASSUME IInv, NEW p \in Processes, Cancel(p) PROVE IInv'
<1>1. Types' /\ ShapeInv' /\ StampInv'
  BY DEF IInv, Types, ShapeInv, StampInv, Cancel, InTake, Live, At, Aged, Stands
<1>2. ASSUME ~disorder' PROVE FirstInv' /\ HoldInv' /\ FreeInv'
  BY <1>2
    DEF IInv, FirstInv, HoldInv, FreeInv, Free, Cancel, InTake, Live, At, Holds,
        Clearing, Before, Aged, Stands
<1> QED BY <1>1, <1>2 DEF IInv

LEMMA DieKeeps == ASSUME IInv, NEW p \in Processes, Die(p) PROVE IInv'
<1> USE PoolAssumption
<1>1. \A u \in Threads :
        IF Home[u] = p THEN mem'[u] = Fresh /\ pc'[u] = "dead" /\ ~Live(u)'
        ELSE mem'[u] = mem[u] /\ pc'[u] = pc[u] /\ Live(u)' = Live(u)
  BY DEF Die, Live
<1>2. Types'
  <2>1. mem' \in [Threads -> Mems] /\ pc' \in [Threads -> Labels]
    BY FreshType, MemType DEF IInv, Types, Die, Labels
  <2> QED BY <1>1, <2>1 DEF IInv, Types, Mems, Die, InTake, At, Aged, Stands
<1>3. ShapeInv'
  <2> SUFFICES ASSUME NEW u \in Threads
               PROVE  (pc[u] = "dead" <=> ~Live(u))' /\ Shape(mem'[u], pc'[u])
    BY DEF ShapeInv
  <2>1. CASE Home[u] = p
    BY <1>1, <2>1, FreshType DEF Shape, Taking
  <2>2. CASE Home[u] # p
    BY <1>1, <2>2 DEF IInv, ShapeInv
  <2> QED BY <2>1, <2>2
<1>4. StampInv'
  BY <1>1 DEF IInv, StampInv, Die, InTake
<1>5. \A u \in Threads :
        /\ InTake(u)' => InTake(u)
        /\ \A l \in Labels : At(u, l)' => At(u, l) /\ mem'[u] = mem[u]
        /\ Clearing(u)' => Clearing(u) /\ mem'[u] = mem[u]
        /\ \A v \in Slots : Holds(u, v)' => Holds(u, v)
  BY <1>1 DEF InTake, At, Clearing, Holds
<1>6. ASSUME ~disorder' PROVE FirstInv' /\ HoldInv'
  <2>1. \A u \in Threads : (Stands(u)' => Stands(u)) /\ (Aged(u)' <=> Aged(u))
    BY <1>1 DEF Die, Stands, Aged
  <2>2. FirstInv'
    BY <1>5, <1>6, <2>1 DEF IInv, Types, FirstInv, Die, Before
  <2>3. HoldInv'
    BY <1>5, <1>6 DEF IInv, HoldInv, Die
  <2> QED BY <2>2, <2>3
<1>7. ASSUME ~disorder' PROVE FreeInv'
  <2> SUFFICES ASSUME NEW u \in Threads PROVE Free(u)'
    BY DEF FreeInv
  <2>1. Free(u) /\ dir' = dir
    BY <1>7 DEF IInv, FreeInv, Die
  <2>2. At(u, "read") \/ Clearing(u) => mem[u].at \in Slots
    BY DEF IInv, ShapeInv, Shape, At, Clearing
  <2> QED BY <1>5, <2>1, <2>2 DEF Free, Labels, Taking
<1> QED BY <1>2, <1>3, <1>4, <1>6, <1>7 DEF IInv

\* A held slot does not grow old: Pass knows who holds it.
LEMMA PassKeeps == ASSUME IInv, NEW s \in Slots, Pass(s) PROVE IInv'
<1>1. Types'
  BY DEF IInv, Types, Pass, InTake, Live, At, Aged, Stands
<1>2. ShapeInv' /\ StampInv'
  BY DEF IInv, ShapeInv, StampInv, Pass, InTake, Live
<1>3. ASSUME ~disorder' PROVE FirstInv' /\ FreeInv'
  BY <1>3
    DEF IInv, FirstInv, FreeInv, Free, Pass, InTake, Live, At, Holds, Clearing, Before, Aged, Stands
<1>4. ASSUME ~disorder' PROVE HoldInv'
  <2>1. \A u \in Threads, v \in Slots : Holds(u, v)' = Holds(u, v)
    BY DEF Pass, Holds, Live
  <2>2. \A u \in Threads : Holds(u, s) => Held(s)
    BY DEF IInv, ShapeInv, Shape, Holds, Held, Over, Taking
  <2>3. \A v \in Slots : v # s => age'[v] = age[v]
    BY DEF IInv, Types, Pass
  <2>4. Held(s) => age'[s] < 2
    BY DEF IInv, Types, Pass
  <2>5. dir' = dir /\ ~disorder
    BY <1>4 DEF Pass
  <2> QED BY <2>1, <2>2, <2>3, <2>4, <2>5 DEF IInv, HoldInv
<1> QED BY <1>1, <1>2, <1>3, <1>4 DEF IInv

\* A ticket that grows old is out of order only while somebody takes on it.
LEMMA GrowOldKeeps == ASSUME IInv, NEW t \in Threads, GrowOld(t) PROVE IInv'
<1>1. /\ UNCHANGED <<dir, age, queue, alive, cancelled, pc, stamp, mem, clock>>
      /\ horizon' = stamp[t] /\ stamp[t] \in 0..clock /\ horizon \in 0..clock /\ clock \in Nat
      /\ \A u \in Threads : stamp[u] \in 0..clock
  BY DEF IInv, Types, GrowOld
<1>2. stamp[t] > horizon
  <2>1. stamp[t] # 0
    BY DEF IInv, ShapeInv, StampInv, GrowOld, InTake, Taking
  <2> QED BY <1>1, <2>1 DEF GrowOld, Aged
<1>3. \A u \in Threads : Aged(u) => Aged(u)'
  BY <1>1, <1>2 DEF Aged
<1>4. Types'
  BY <1>1, <1>3 DEF IInv, Types, GrowOld, At, InTake, Live
<1>5. ShapeInv' /\ StampInv'
  BY <1>1 DEF IInv, ShapeInv, StampInv, InTake, Live
<1>6. ASSUME ~disorder' PROVE FirstInv' /\ HoldInv' /\ FreeInv'
  <2>1. ~disorder /\ \A u \in Threads : InTake(u) => ~(stamp[u] \in horizon + 1..stamp[t])
    BY <1>6 DEF GrowOld
  <2>2. \A u \in Threads : InTake(u) => ~Aged(u)'
    BY <1>1, <2>1 DEF IInv, FirstInv, Aged
  <2>3. \A u \in Threads : Stands(u)' => Stands(u)
    BY <1>1, <1>3 DEF Stands, Live
  <2>4. FirstInv'
    <3>1. queue \subseteq Threads /\ \A u \in Threads : InTake(u)' <=> InTake(u)
      BY <1>1 DEF IInv, Types, InTake, Live
    <3> QED BY <1>1, <2>1, <2>2, <2>3, <3>1 DEF IInv, FirstInv, Before
  <2>5. HoldInv' /\ FreeInv'
    BY <1>1, <2>1 DEF IInv, HoldInv, FreeInv, Free, Holds, Clearing, At, Live
  <2> QED BY <2>4, <2>5
<1> QED BY <1>4, <1>5, <1>6 DEF IInv

----------------------------------------------------------------------------
(* The invariant, and what follows. *)

LEMMA InitInv == Init => IInv
<1> USE PoolAssumption
<1> SUFFICES ASSUME Init PROVE IInv
  OBVIOUS
<1>1. \A t \in Threads : mem[t] = Fresh /\ pc[t] = "idle" /\ Live(t) /\ stamp[t] = 0
  BY DEF Init, Live
<1>2. Types
  <2>1. mem \in [Threads -> Mems]
    BY FreshType DEF Init
  <2>2. dir \in [Slots -> Owners \cup {"none", "bare"}] /\ age \in [Slots -> 0..2]
    BY DEF Init, Owners
  <2>3. pc \in [Threads -> Labels] /\ clock \in Nat /\ stamp \in [Threads -> 0..clock]
    BY DEF Init, Labels
  <2>4. \A t \in Threads : ~(At(t, "wait") \/ InTake(t))
    BY <1>1 DEF At, InTake, Taking
  <2>5. clock = 0 /\ horizon = 0 /\ queue = {} /\ disorder \in BOOLEAN
    BY DEF Init
  <2> QED BY <2>1, <2>2, <2>3, <2>4, <2>5 DEF Init, Types, Mems
<1>3. ShapeInv
  BY <1>1, FreshType DEF ShapeInv, Shape, Taking
<1>4. StampInv
  BY <1>1 DEF StampInv, Init
<1>5. FirstInv /\ HoldInv /\ FreeInv
  BY <1>1, FreshType
    DEF Init, FirstInv, HoldInv, FreeInv, Free, InTake, Holds, At, Clearing, Taking
<1> QED BY <1>2, <1>3, <1>4, <1>5 DEF IInv

LEMMA StepKeeps == ASSUME IInv, [Next]_vars PROVE IInv'
<1>1. ASSUME NEW t \in Threads, Step(t) PROVE IInv'
  BY <1>1, NameKeeps, TouchKeeps, QueuedKeeps, TurnKeeps, MkdirKeeps, OwnKeeps,
       OwnerUnwritableKeeps,
     StatKeeps, ReadKeeps, UnlinkKeeps, ClearedKeeps, GivenKeeps, GrantedKeeps, ShortKeeps, FinishKeeps
  DEF Step
<1>2. CASE UNCHANGED vars
  <2>1. Types' /\ ShapeInv' /\ StampInv'
    BY <1>2 DEF vars, IInv, Types, ShapeInv, StampInv, InTake, Live, At, Aged, Stands
  <2>2. ASSUME ~disorder' PROVE FirstInv' /\ HoldInv' /\ FreeInv'
    BY <1>2, <2>2
      DEF vars, IInv, FirstInv, HoldInv, FreeInv, Free, InTake, Live, At, Holds,
          Clearing, Before, Aged, Stands
  <2> QED BY <2>1, <2>2 DEF IInv
<1> QED BY <1>1, <1>2, CancelKeeps, DieKeeps, PassKeeps, GrowOldKeeps DEF Next

\* The invariant holds in every behaviour.
THEOREM Invariant == Spec => []IInv
  BY InitInv, StepKeeps, PTL DEF Spec

\* Every variable keeps its type, and of the living only threads that wait or take
\* have tickets.
THEOREM TypeCorrect == Spec => []TypeOK
<1>1. IInv => TypeOK
  BY DEF IInv, Types, StampInv, TypeOK
<1> QED BY <1>1, Invariant, PTL

\* The pool's promise, for any number of builds, threads and slots, and whatever
\* processes die and requests are dropped: unless a ticket appeared behind one that
\* was being served, or grew twelve hours old then, a slot of a running command
\* names its process and no other command has it.
THEOREM OrderlySlots == Spec => []OrderlySlotsAreExclusive
<1>1. IInv => OrderlySlotsAreExclusive
  <2> SUFFICES ASSUME IInv, ~disorder,
                      NEW t \in Threads, Working(t), NEW s \in mem[t].taken
               PROVE  dir[s] = Home[t] /\ \A u \in Threads : Working(u) /\ s \in mem[u].taken => u = t
    BY DEF OrderlySlotsAreExclusive, SlotsAreExclusive
  <2>1. s \in Slots
    BY MemType DEF IInv, Mems
  <2>2. \A u \in Threads : Working(u) /\ s \in mem[u].taken => Holds(u, s)
    BY DEF Working, At, Holds
  <2> QED BY <2>1, <2>2 DEF IInv, HoldInv
<1> QED BY <1>1, Invariant, PTL
=============================================================================
