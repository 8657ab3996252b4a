------------------------------- MODULE WorkerPool ------------------------------
(***************************************************************************)
(* The pool of workers every frontend build of a machine shares            *)
(* (util/worker_pool.py): a directory with one subdirectory per slot in    *)
(* use and a queue of tickets.  Nothing but the file system coordinates    *)
(* the processes, so each system call that another process can observe or  *)
(* disturb is a step of its own.                                           *)
(***************************************************************************)
EXTENDS Integers, FiniteSets, FiniteSetsExt

CONSTANTS
  Threads,    \* the threads that run commands, one lease each
  Processes,
  Home,       \* the process of a thread
  Past,       \* a process that died before, and left slots behind
  Size,       \* slots of the pool
  Want        \* how many workers a thread's command asks for

ASSUME PoolAssumption ==
  /\ IsFiniteSet(Threads)
  /\ Home \in [Threads -> Processes]
  /\ Size \in Nat \ {0}
  /\ Want \in [Threads -> 1..Size]     \* lease clamps it
  /\ Past \notin Processes
  /\ (Processes \cup {Past}) \cap {"none", "bare"} = {}

VARIABLES
  \* The file system.
  dir,        \* a slot's directory: "none", "bare" (no owner), or its owner
  age,        \* how long ago it changed: 0, 1 over a minute, 2 over 12 hours
  queue,      \* the tickets, by their threads
  \* The processes.
  alive, cancelled,
  pc, stamp, mem,
  clock,      \* stamps given
  horizon,    \* the stamps up to this one are more than 12 hours old
  disorder    \* history: a ticket appeared behind one that is served already, or
              \* grew old while it was served

vars == <<dir, age, queue, alive, cancelled, pc, stamp, mem, clock, horizon,
          disorder>>

Slots == 1..Size
Owners == Processes \cup {Past}
Fresh == [at |-> 1, attempt |-> 1, taken |-> {}, old |-> 0, why |-> "clear"]
Minimum(t) == (Want[t] + 1) \div 2
Live(t) == Home[t] \in alive

\* _holds: a ticket stands for its request while the process lives, and for
\* twelve hours.
Aged(t) == stamp[t] \in 1..horizon
\* Mutant: the process of a ticket is not asked.
StandsWhileYoung(t) == ~Aged(t)

Stands(t) == Live(t) /\ ~Aged(t)

Init ==
  /\ dir \in [Slots -> {"none", "bare", Past}]
  /\ age = [s \in Slots |-> 0]
  /\ queue = {}
  /\ alive = Processes /\ cancelled = {}
  /\ pc = [t \in Threads |-> "idle"]
  /\ stamp = [t \in Threads |-> 0]
  /\ mem = [t \in Threads |-> Fresh]
  /\ clock = 0 /\ horizon = 0
  /\ disorder = FALSE

Goto(t, label) == pc' = [pc EXCEPT ![t] = label]
At(t, label) == Live(t) /\ pc[t] = label

\* A change inside a slot's directory renews its modification time.
Set(s, content) ==
  /\ dir' = [dir EXCEPT ![s] = content]
  /\ age' = [age EXCEPT ![s] = 0]
NoFileChange == UNCHANGED <<dir, age, queue>>
NoRequest == UNCHANGED <<alive, cancelled, stamp, clock, horizon, disorder>>

Taking == {"mkdir", "own", "stat", "read", "unlink", "rmdir"}
InTake(t) == Live(t) /\ pc[t] \in Taking /\ mem[t].why # "return"

----------------------------------------------------------------------------
(* lease: the ticket.                                                       *)

\* The ticket's name is made first, its file appears later.
Name(t) ==
  /\ At(t, "idle")
  /\ clock' = clock + 1
  /\ stamp' = [stamp EXCEPT ![t] = clock + 1]
  /\ Goto(t, "named")
  /\ UNCHANGED <<dir, age, queue, alive, cancelled, mem, horizon, disorder>>

Touch(t) ==
  /\ At(t, "named")
  /\ queue' = queue \cup {t}
  /\ disorder' = (disorder \/ \E u \in Threads : InTake(u) /\ stamp[u] > stamp[t])
  /\ Goto(t, "wait")
  /\ UNCHANGED <<dir, age, alive, cancelled, stamp, mem, clock, horizon>>

Before(u, t) == stamp[u] < stamp[t]

\* Mutant: whoever waits may take.
FirstForAnyone(t) == Live(t)

\* first(): the oldest ticket that stands; those met on the way that do not are
\* dropped.  A living request that has waited for twelve hours loses its ticket
\* in this way, and is never first again.
First(t) ==
  /\ t \in queue /\ Stands(t)
  /\ \A u \in queue : Stands(u) => u = t \/ Before(t, u)
Dropped == {u \in queue : ~Stands(u) /\ \A v \in queue : Stands(v) => Before(u, v)}

\* The end of a poll that got nothing.
Again(t, tickets) ==
  IF Home[t] \in cancelled
  THEN Goto(t, "ended") /\ queue' = tickets \ {t}
  ELSE Goto(t, "wait") /\ queue' = tickets

Queued(t) ==
  /\ At(t, "wait") /\ ~First(t)
  /\ Again(t, queue \ Dropped)
  /\ UNCHANGED <<dir, age, mem>> /\ NoRequest

Turn(t) ==
  /\ At(t, "wait") /\ First(t)
  /\ queue' = queue \ Dropped
  /\ mem' = [mem EXCEPT ![t] = Fresh]
  /\ Goto(t, "mkdir")
  /\ UNCHANGED <<dir, age>> /\ NoRequest

----------------------------------------------------------------------------
(* take and _claim: one slot after the other.                               *)

Seeking(t) == mem[t].at \in Slots /\ Cardinality(mem[t].taken) < Want[t]

\* To the next slot, with or without this one.
NextSlot(t, taken) ==
  /\ mem' = [mem EXCEPT ![t] = [Fresh EXCEPT !.at = mem[t].at + 1, !.taken = taken]]
  /\ Goto(t, "mkdir")

Mkdir(t) ==
  /\ At(t, "mkdir") /\ Seeking(t)
  /\ IF dir[mem[t].at] = "none"
     THEN Set(mem[t].at, "bare") /\ Goto(t, "own")
     ELSE UNCHANGED <<dir, age>> /\ Goto(t, "stat")
  /\ UNCHANGED <<queue, mem>> /\ NoRequest

Own(t) ==
  /\ At(t, "own") /\ dir[mem[t].at] # "none"
  /\ Set(mem[t].at, Home[t])
  /\ NextSlot(t, mem[t].taken \cup {mem[t].at})
  /\ UNCHANGED queue /\ NoRequest

\* The directory is gone again: write_text raises, the ticket is removed, and
\* the slots taken so far are lost with the list that names them.
OwnerUnwritable(t) ==
  /\ At(t, "own") /\ dir[mem[t].at] = "none"
  /\ Goto(t, "raised")
  /\ queue' = queue \ {t}
  /\ mem' = [mem EXCEPT ![t] = Fresh]
  /\ UNCHANGED <<dir, age>> /\ NoRequest

\* _abandoned looks twice: at the directory's time, then at its owner.
Stat(t) ==
  /\ At(t, "stat")
  /\ IF dir[mem[t].at] = "none"
     THEN NextSlot(t, mem[t].taken)
     ELSE mem' = [mem EXCEPT ![t].old = age[mem[t].at]] /\ Goto(t, "read")
  /\ NoFileChange /\ NoRequest

Abandoned(owner, seen) ==
  IF owner \in Owners THEN owner \notin alive \/ seen = 2 ELSE seen >= 1

Read(t) ==
  /\ At(t, "read")
  /\ IF Abandoned(dir[mem[t].at], mem[t].old)
     THEN Goto(t, "unlink") /\ mem' = [mem EXCEPT ![t].old = 0]
     ELSE NextSlot(t, mem[t].taken)
  /\ NoFileChange /\ NoRequest

----------------------------------------------------------------------------
(* rmtree, of an abandoned slot or of one's own: it removes the owner, then *)
(* the directory unless it is not empty; errors are ignored.                *)

Unlink(t) ==
  /\ At(t, "unlink")
  /\ IF dir[mem[t].at] \in Owners THEN Set(mem[t].at, "bare") ELSE UNCHANGED <<dir, age>>
  /\ Goto(t, "rmdir")
  /\ UNCHANGED <<queue, mem>> /\ NoRequest

Removed(t) == IF dir[mem[t].at] = "bare" THEN Set(mem[t].at, "none") ELSE UNCHANGED <<dir, age>>

\* _claim tries twice.
Cleared(t) ==
  /\ At(t, "rmdir") /\ mem[t].why = "clear"
  /\ Removed(t)
  /\ IF mem[t].attempt = 1
     THEN mem' = [mem EXCEPT ![t].attempt = 2] /\ Goto(t, "mkdir")
     ELSE NextSlot(t, mem[t].taken)
  /\ UNCHANGED queue /\ NoRequest

\* give: the slots in their order.
Give(t, slots, why) ==
  /\ mem' = [mem EXCEPT ![t] = [Fresh EXCEPT !.at = Min(slots), !.taken = slots, !.why = why]]
  /\ Goto(t, "unlink")

Given(t) ==
  LET left == mem[t].taken \ {mem[t].at} IN
  /\ At(t, "rmdir") /\ mem[t].why # "clear"
  /\ Removed(t)
  /\ \/ left # {} /\ Give(t, left, mem[t].why) /\ UNCHANGED queue
     \/ left = {} /\ mem[t].why = "short" /\ mem' = [mem EXCEPT ![t] = Fresh] /\ Again(t, queue)
     \/ left = {} /\ mem[t].why = "return" /\ mem' = [mem EXCEPT ![t] = Fresh]
        /\ Goto(t, "ended") /\ UNCHANGED queue
  /\ NoRequest

\* Mutant: the ticket stays for as long as the command runs.
GrantedWithTicket(t) ==
  /\ At(t, "mkdir") /\ ~Seeking(t) /\ Cardinality(mem[t].taken) >= Minimum(t)
  /\ Goto(t, "work")
  /\ mem' = [mem EXCEPT ![t] = [Fresh EXCEPT !.taken = mem[t].taken]]
  /\ NoFileChange /\ NoRequest

\* Enough slots: the ticket goes, and the command runs.
Granted(t) ==
  /\ At(t, "mkdir") /\ ~Seeking(t) /\ Cardinality(mem[t].taken) >= Minimum(t)
  /\ Goto(t, "work")
  /\ queue' = queue \ {t}
  /\ mem' = [mem EXCEPT ![t] = [Fresh EXCEPT !.taken = mem[t].taken]]
  /\ UNCHANGED <<dir, age>> /\ NoRequest

Short(t) ==
  /\ At(t, "mkdir") /\ ~Seeking(t) /\ Cardinality(mem[t].taken) < Minimum(t)
  /\ IF mem[t].taken = {} THEN Again(t, queue) /\ mem' = [mem EXCEPT ![t] = Fresh]
     ELSE Give(t, mem[t].taken, "short") /\ UNCHANGED queue
  /\ UNCHANGED <<dir, age>> /\ NoRequest

\* The command ended, or was cancelled.
Finish(t) ==
  /\ At(t, "work")
  /\ Give(t, mem[t].taken, "return")
  /\ NoFileChange /\ NoRequest

----------------------------------------------------------------------------
(* Processes and time.                                                      *)

Over(t) == pc[t] \in {"ended", "raised", "dead"}

\* Polling threads look whether their build was cancelled; a running command
\* simply ends.
Cancel(p) ==
  /\ p \in alive \ cancelled
  /\ \E t \in Threads : Home[t] = p /\ (pc[t] = "wait" \/ InTake(t))
  /\ cancelled' = cancelled \cup {p}
  /\ UNCHANGED <<dir, age, queue, alive, pc, stamp, mem, clock, horizon, disorder>>

\* Its threads and what they knew go with it; its slots and tickets stay.
Die(p) ==
  /\ p \in alive
  /\ alive' = alive \ {p} /\ cancelled' = cancelled \ {p}
  /\ pc' = [t \in Threads |-> IF Home[t] = p THEN "dead" ELSE pc[t]]
  /\ mem' = [t \in Threads |-> IF Home[t] = p THEN Fresh ELSE mem[t]]
  /\ UNCHANGED <<dir, age, queue, stamp, clock, horizon, disorder>>

Exit(p) == (\A t \in Threads : Home[t] = p => Over(t)) /\ Die(p)

\* A system call follows another within a minute, and a command holds its
\* slots for less than twelve hours.
AtWork(s) == \E t \in Threads : Live(t) /\ pc[t] \in {"own", "rmdir"} /\ mem[t].at = s
Held(s) == \E t \in Threads : Live(t) /\ ~Over(t) /\ s \in mem[t].taken

Pass(s) ==
  /\ dir[s] # "none"
  /\ ~AtWork(s)
  /\ age[s] = 0 \/ (age[s] = 1 /\ ~Held(s))
  /\ age' = [age EXCEPT ![s] = @ + 1]
  /\ UNCHANGED <<dir, queue, alive, cancelled, pc, stamp, mem, clock, horizon, disorder>>

\* A request has waited for twelve hours, and so have those made before it: a
\* ticket's age is that of its name, and no system call renews it.
GrowOld(t) ==
  /\ ~Aged(t) /\ (pc[t] \in {"named", "wait"} \/ InTake(t))
  /\ horizon' = stamp[t]
  /\ disorder' = (disorder \/ \E u \in Threads : InTake(u) /\ stamp[u] \in horizon + 1..stamp[t])
  /\ UNCHANGED <<dir, age, queue, alive, cancelled, pc, stamp, mem, clock>>

Step(t) ==
  \/ Name(t) \/ Touch(t) \/ Queued(t) \/ Turn(t)
  \/ Mkdir(t) \/ Own(t) \/ OwnerUnwritable(t) \/ Stat(t) \/ Read(t) \/ Unlink(t) \/ Cleared(t)
  \/ Given(t) \/ Granted(t) \/ Short(t) \/ Finish(t)

Next ==
  \/ \E t \in Threads : Step(t)
  \/ \E p \in Processes : Cancel(p) \/ Die(p)
  \/ (\E s \in Slots : Pass(s)) \/ \E t \in Threads : GrowOld(t)

Spec == Init /\ [][Next]_vars

\* Threads are scheduled, commands end, and so do the processes they leave.
Fairness ==
  /\ \A t \in Threads : WF_vars(Step(t))
  /\ \A p \in Processes : WF_vars(Exit(p))
  /\ \A s \in Slots : WF_vars(Pass(s))

----------------------------------------------------------------------------
(* Properties.                                                              *)

Labels == Taking \cup {"idle", "named", "wait", "work", "ended", "raised", "dead"}

\* Types.  Of the living, only threads that wait or take have tickets.
TypeOK ==
  /\ dir \in [Slots -> Owners \cup {"none", "bare"}]
  /\ age \in [Slots -> 0..2]
  /\ queue \subseteq Threads
  /\ alive \subseteq Processes /\ cancelled \subseteq Processes
  /\ pc \in [Threads -> Labels]
  /\ clock \in Nat /\ horizon \in 0..clock /\ stamp \in [Threads -> 0..clock]
  /\ mem \in [Threads -> [at : 1..Size + 1, attempt : 1..2, taken : SUBSET Slots, old : 0..2,
                          why : {"clear", "short", "return"}]]
  /\ disorder \in BOOLEAN
  /\ \A t \in queue : Live(t) => pc[t] = "wait" \/ InTake(t)

Working(t) == At(t, "work")

\* Two running commands never hold the same slot: what the pool is for.
SlotsAreExclusive ==
  \A t, u \in Threads : t # u /\ Working(t) /\ Working(u) => mem[t].taken \cap mem[u].taken = {}

\* As long as no ticket came behind one that was served already, and none grew
\* twelve hours old while it was served, a slot that a running command holds
\* names its process, and is held by it alone, whatever processes died before and
\* whatever requests lost their tickets: neither taking an abandoned slot over nor
\* giving one's own back removes a slot that another has claimed since.  first()
\* breaks the order in both cases, and lets two take at once.
OrderlySlotsAreExclusive ==
  ~disorder => /\ SlotsAreExclusive
           /\ \A t \in Threads : Working(t) => \A s \in mem[t].taken : dir[s] = Home[t]

\* Every request is served in the end or given up, unless it waits for twelve
\* hours: no dead process, and no slot that a failed take lost, keeps the others
\* waiting.  A request that has waited so long is never served (worker_pool.py:124),
\* unlike what its docstring promises of requests.
Served ==
  \A t \in Threads : pc[t] = "wait" ~> (pc[t] = "work" \/ Over(t) \/ Aged(t))
=============================================================================
