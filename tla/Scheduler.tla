----------------------------- MODULE Scheduler -----------------------------
(***************************************************************************)
(* The thread scheduler of the kernel (kernel/src/sched): the global       *)
(* thread list `tlist`, block(), the timer and int-128 handlers,           *)
(* schedule(), the thread cleaner, and process exit with its               *)
(* inter-processor interrupt.                                              *)
(*                                                                         *)
(* One action is one critical section of `tlist` (an IMutex: interrupts    *)
(* are off while it is held) or one step between two of them.  A processor *)
(* runs the code of the thread on its running list; that code may be       *)
(* preempted between any two actions.                                      *)
(*                                                                         *)
(* Abstractions.  Registers and address spaces are left out.  A deadline   *)
(* is left out: each timer tick finds some of the sleepers due.  The       *)
(* sleep, destroy, join and idle lists are sets, since no operation        *)
(* depends on their order; the ready list is a sequence.  No code of this  *)
(* revision blocks in Waiting or Listening, so their trees are always      *)
(* empty and are left out; FutexBlock is the subject of module Futex.      *)
(* Nobody calls thread_get, so every ref_count is 0.                       *)
(***************************************************************************)
EXTENDS Naturals, Sequences, FiniteSets

CONSTANTS
  NumCpus,    \* number of logical processors; prid() is in 0 .. NumCpus - 1
  Thread,     \* threads that may be created by new_thread
  Cleaner,    \* the kernel thread that runs thread_cleaner
  NoThread,   \* "no thread"
  Proc,       \* processes
  Kernel,     \* the process with Pid 0, never terminated
  NoProc,     \* "no process"
  ProcOf,     \* the process of each member of Thread
  Reasons,    \* kinds of ThreadState that threads pass to block()
  Killable    \* processes that Process::terminate may be called on

Cpu == 0 .. NumCpus - 1

(* The idle thread of processor c is named by c itself. *)
AllThreads == Thread \cup {Cleaner} \cup Cpu

ASSUME CpuAssumption == NumCpus \in Nat \ {0}
ASSUME ThreadAssumption ==
  /\ IsFiniteSet(Thread)
  /\ Thread \cap Cpu = {}
  /\ Cleaner \notin Thread \cup Cpu
  /\ NoThread \notin AllThreads
ASSUME ProcAssumption ==
  /\ Kernel \in Proc
  /\ NoProc \notin Proc
  /\ ProcOf \in [Thread -> Proc]
  /\ Killable \subseteq Proc \ {Kernel}
ASSUME ReasonsAssumption == Reasons \subseteq {"Destroy", "Sleep", "Join"}

-----------------------------------------------------------------------------
(* enum ThreadState, with the thread a Join waits for. *)
Running == [k |-> "Running", on |-> NoThread]
Ready   == [k |-> "Ready",   on |-> NoThread]
Idle    == [k |-> "Idle",    on |-> NoThread]
Destroy == [k |-> "Destroy", on |-> NoThread]
Sleep   == [k |-> "Sleep",   on |-> NoThread]
Join(t) == [k |-> "Join",    on |-> t]

JoinState   == {Join(t) : t \in Thread}
ThreadState == {Running, Ready, Idle, Destroy, Sleep} \cup JoinState

(* The lists of struct ThreadList that are kept as sets. *)
QueueKey == {Destroy, Sleep} \cup JoinState

VARIABLES
  state,    \* Thread.state
  ready,    \* ThreadList.ready, oldest first
  running,  \* ThreadList.running: its only element, per processor
  idle,     \* ThreadList.idle, per processor
  queue,    \* ThreadList.destroy, .sleep and the lists of the join tree
  nodes,    \* keys of the join tree: states whose node exists
  life,     \* life of each thread: "unborn", "live", "reaped" (on the list
            \* local to thread_cleaner) or "freed" (Thread::dealloc)
  pc,       \* where the code of each thread stands
  arg,      \* argument of the block() call a thread is in
  target,   \* process a thread is terminating
  iter,     \* CpuMarkerIter of the terminate() call a thread is in
  victim,   \* thread the cleaner is deallocating
  mode,     \* "thread", "sched" (in a handler, about to call schedule) or
            \* "iret" (schedule returned, not yet at iretq), per processor
  stk,      \* thread whose kernel stack the processor is on
  pst,      \* "listed" in proc_list, "unlisted", "dead" (alive = false) or
            \* "gone" (last Arc dropped), per process
  marks,    \* Process.cpus_running
  ipi,      \* IPI_PROCESS_EXIT of a processor: "none", "pending" or
            \* "inservice" (its handler sends no end of interrupt)
  fault     \* first panic or memory error; the machine stops there

lists == <<ready, running, idle, queue, nodes>>
code  == <<pc, arg, target, iter, victim>>
cpus  == <<mode, stk, ipi>>
procs == <<pst, marks>>
vars  == <<state, lists, life, code, cpus, procs, fault>>

NoIter == [marked |-> {}, index |-> NumCpus]

(* The places where the code of a thread may stand: in user code or the    *)
(* start of a call ("run"), in block(), in thread_cleaner, in terminate(), *)
(* or, wherever it was, in ipi_process_exit_handler ("exit").              *)
Labels == {"run", "exit"} \cup {"ensure", "insert", "set", "int", "ret"}
                  \cup {"collect", "pop", "remove", "dealloc", "free"}
                  \cup {"kill", "mark", "iter"}

(* Every variable keeps its type; the index of a CpuMarkerIter stays       *)
(* inside the array of marks or just past its end.                         *)
TypeOK ==
  /\ state \in [AllThreads -> ThreadState]
  /\ ready \in Seq(AllThreads)
  /\ running \in [Cpu -> AllThreads]
  /\ idle \in [Cpu -> SUBSET AllThreads]
  /\ queue \in [QueueKey -> SUBSET AllThreads]
  /\ nodes \subseteq JoinState
  /\ life \in [AllThreads -> {"unborn", "live", "reaped", "freed"}]
  /\ pc \in [AllThreads -> Labels]
  /\ arg \in [AllThreads -> ThreadState]
  /\ target \in [AllThreads -> Proc \cup {NoProc}]
  /\ iter \in [AllThreads -> [marked : SUBSET Cpu, index : 0 .. NumCpus]]
  /\ victim \in AllThreads \cup {NoThread}
  /\ mode \in [Cpu -> {"thread", "sched", "iret"}]
  /\ stk \in [Cpu -> AllThreads]
  /\ pst \in [Proc -> {"listed", "unlisted", "dead", "gone"}]
  /\ marks \in [Proc -> SUBSET Cpu]
  /\ ipi \in [Cpu -> {"none", "pending", "inservice"}]
  /\ fault \in {"none", "index", "assert", "shared", "freed", "proc_c"}

(* sched::init and ap_init: the boot code of a processor becomes its idle  *)
(* thread; the cleaner has been created on the boot processor.             *)
Init ==
  /\ state = [t \in AllThreads |-> IF t \in Cpu THEN Running ELSE Ready]
  /\ ready = <<Cleaner>>
  /\ running = [c \in Cpu |-> c]
  /\ idle = [c \in Cpu |-> {}]
  /\ queue = [q \in QueueKey |-> {}]
  /\ nodes = {}
  /\ life = [t \in AllThreads |-> IF t \in Thread THEN "unborn" ELSE "live"]
  /\ pc = [t \in AllThreads |-> IF t = Cleaner THEN "collect" ELSE "run"]
  /\ arg = [t \in AllThreads |-> Running]
  /\ target = [t \in AllThreads |-> NoProc]
  /\ iter = [t \in AllThreads |-> NoIter]
  /\ victim = NoThread
  /\ mode = [c \in Cpu |-> "thread"]
  /\ stk = [c \in Cpu |-> c]
  /\ pst = [p \in Proc |-> "listed"]
  /\ marks = [p \in Proc |-> {}]
  /\ ipi = [c \in Cpu |-> "none"]
  /\ fault = "none"

-----------------------------------------------------------------------------
(* Helpers.                                                                *)

(* The orders in which the members of a set may be pushed on a list. *)
Orders(S) ==
  {w \in [1 .. Cardinality(S) -> S] :
     /\ \A i, j \in DOMAIN w : w[i] = w[j] => i = j
     /\ \A t \in S : \E i \in DOMAIN w : w[i] = t}

Owner(t) == IF t \in Thread THEN ProcOf[t] ELSE Kernel

(* Weak::upgrade of Thread.process, Process::is_alive, Thread::is_alive *)
Upgradable(p) == pst[p] # "gone"
IsAlive(t) == pst[Owner(t)] \in {"listed", "unlisted"}

(* Thread::default_state *)
DefaultState(t) == IF t \in Cpu THEN Idle ELSE Ready

(* Processor c is executing the code of its running thread at label l. *)
At(c, l) ==
  /\ fault = "none"
  /\ mode[c] = "thread"
  /\ pc[running[c]] = l

Goto(t, l) == pc' = [pc EXCEPT ![t] = l]

(* Mutant: the threads are pushed on the ready list, not taken off q. *)
WakeAllNoRemove(q, S) ==
  /\ \E w \in Orders(S) : ready' = ready \o w
  /\ queue' = queue
  /\ state' = [t \in AllThreads |-> IF t \in S THEN Ready ELSE state[t]]

(* Threads S, all on list q, become Ready: Thread::move_to for each. *)
WakeAll(q, S) ==
  /\ \E w \in Orders(S) : ready' = ready \o w
  /\ queue' = [queue EXCEPT ![q] = @ \ S]
  /\ state' = [t \in AllThreads |-> IF t \in S THEN Ready ELSE state[t]]

(* Thread t keeps an Arc on process p on its stack: the caller of          *)
(* terminate(), a join system call, whose proc_c() is a temporary, the     *)
(* cleaner inside remove_thread, and the handler of the process-exit IPI   *)
(* across its int_sched.  A thread that is destroyed inside such a call is *)
(* not unwound, and never gives the Arc back.                              *)
HoldsArc(t, p) ==
  \/ target[t] = p
  \/ Owner(t) = p /\ pc[t] = "exit"
  \/ Owner(t) = p /\ arg[t].k = "Join"
  \/ t = Cleaner /\ pc[t] \in {"remove", "dealloc"} /\ Owner(victim) = p

(* A process that left proc_list is dropped with its last Arc. *)
DropArcs ==
  pst' = [p \in Proc |->
            IF pst[p] = "dead" /\ ~ \E t \in AllThreads : HoldsArc(t, p)'
            THEN "gone" ELSE pst[p]]

(* Mutant: the cleaner does not loop. *)
AfterIntNoLoop(t) == "run"

(* A thread that was inside block() or terminate() goes on after its       *)
(* int 128 and returns from that call.                                     *)
AfterInt(t) == IF t = Cleaner THEN "collect" ELSE "run"

Resume(t) ==
  IF pc[t] = "ret"
  THEN /\ Goto(t, AfterInt(t))
       /\ arg' = [arg EXCEPT ![t] = Running]
       /\ target' = [target EXCEPT ![t] = NoProc]
  ELSE UNCHANGED <<pc, arg, target>>

-----------------------------------------------------------------------------
(* System calls that enter the scheduler.                                  *)

(* Process::new_thread_regs, called by thread_new for the caller's own     *)
(* process, or by kernel code for a process in proc_list (from_elf).       *)
NewThread(c, t) ==
  /\ At(c, "run")
  /\ life[t] = "unborn"
  /\ \/ Owner(t) = Owner(running[c]) /\ Upgradable(Owner(t))
     \/ Owner(running[c]) = Kernel /\ pst[Owner(t)] = "listed"
  /\ life' = [life EXCEPT ![t] = "live"]
  /\ state' = [state EXCEPT ![t] = Ready]
  /\ ready' = Append(ready, t)
  /\ UNCHANGED <<running, idle, queue, nodes, code, cpus, procs, fault>>

(* The states thread_block passes to block(), and those of kernel code:    *)
(* Join only names threads of the caller's process.                        *)
BlockArgs(t) ==
  {s \in {Destroy, Sleep} \cup JoinState :
     /\ s.k \in Reasons
     /\ s.k = "Join" => Owner(s.on) = Owner(t) /\ Upgradable(Owner(t))}

(* An idle thread calls neither block() nor terminate(). *)
BlockCall(c, s) ==
  LET t == running[c] IN
  /\ At(c, "run")
  /\ t \notin Cpu
  /\ s \in BlockArgs(t)
  /\ arg' = [arg EXCEPT ![t] = s]
  /\ Goto(t, "ensure")
  /\ UNCHANGED <<state, lists, life, target, iter, victim, cpus, procs, fault>>

(* proc_c() unwraps the upgrade of the running thread's process. *)
ProcCPanic(c) ==
  /\ At(c, "run")
  /\ ~Upgradable(Owner(running[c]))
  /\ fault' = "proc_c"
  /\ UNCHANGED <<state, lists, life, code, cpus, procs>>

-----------------------------------------------------------------------------
(* block(): ensure, set_state, int_sched.                                  *)

(* ThreadListGuard::ensure, first lock: is there a node for the state? *)
EnsureCheck(c) ==
  LET t == running[c] IN
  /\ At(c, "ensure")
  /\ Goto(t, IF arg[t] \in JoinState \ nodes THEN "insert" ELSE "set")
  /\ UNCHANGED <<state, lists, life, arg, target, iter, victim, cpus, procs,
                 fault>>

(* ThreadListGuard::ensure, second lock: insert the node allocated between *)
(* the two; it is given back if another thread was first.                  *)
EnsureInsert(c) ==
  LET t == running[c] IN
  /\ At(c, "insert")
  /\ nodes' = nodes \cup {arg[t]}
  /\ Goto(t, "set")
  /\ UNCHANGED <<state, ready, running, idle, queue, life, arg, target, iter,
                 victim, cpus, procs, fault>>

(* thread_c().set_state(state): the thread is still on the running list. *)
SetState(c) ==
  LET t == running[c] IN
  /\ At(c, "set")
  /\ state' = [state EXCEPT ![t] = arg[t]]
  /\ Goto(t, "int")
  /\ UNCHANGED <<lists, life, arg, target, iter, victim, cpus, procs, fault>>

(* Mutant: int_handler returns without schedule. *)
IntSchedNoSwitch(c) ==
  LET t == running[c] IN
  /\ At(c, "int")
  /\ Goto(t, AfterInt(t))
  /\ UNCHANGED <<state, lists, life, arg, target, iter, victim, cpus, procs,
                 fault>>

(* int 128: int_handler, up to its call of schedule. *)
IntSched(c) ==
  LET t == running[c] IN
  /\ At(c, "int")
  /\ Goto(t, "ret")
  /\ mode' = [mode EXCEPT ![c] = "sched"]
  /\ UNCHANGED <<state, lists, life, arg, target, iter, victim, stk, ipi,
                 procs, fault>>

-----------------------------------------------------------------------------
(* Interrupts and schedule().                                              *)

(* Processor c takes interrupts: it runs thread code, does not hold the    *)
(* GsRef of terminate(), and its local APIC has nothing in service.        *)
Interruptible(c) ==
  /\ fault = "none"
  /\ mode[c] = "thread"
  /\ pc[running[c]] # "iter"
  /\ ipi[c] # "inservice"

(* The sleepers a tick of processor c may find due. *)
DueSets(c) == IF c = 0 THEN SUBSET queue[Sleep] ELSE {{}}

(* time_handler: processor 0 wakes the due sleepers; schedule is called if *)
(* the quantum is over.                                                    *)
TimeHandler(c, due, expired) ==
  /\ Interruptible(c)
  /\ due \in DueSets(c)
  /\ WakeAll(Sleep, due)
  /\ mode' = [mode EXCEPT ![c] = IF expired THEN "sched" ELSE @]
  /\ UNCHANGED <<running, idle, nodes, life, code, stk, ipi, procs, fault>>

(* ipi_process_exit_handler: int_sched if the process of the interrupted   *)
(* thread is dead or dropped; such a thread is not switched to again, so   *)
(* that it stays there.  Vector 129 is entered through                     *)
(* make_asm_int_handler, which sends no end of interrupt.                  *)
IpiHandler(c) ==
  /\ Interruptible(c)
  /\ ipi[c] = "pending"
  /\ ipi' = [ipi EXCEPT ![c] = "inservice"]
  /\ mode' = [mode EXCEPT ![c] =
                IF IsAlive(running[c]) THEN @ ELSE "sched"]
  /\ IF IsAlive(running[c]) THEN UNCHANGED pc ELSE Goto(running[c], "exit")
  /\ UNCHANGED <<state, lists, life, arg, target, iter, victim, stk, procs, fault>>

(* Mutant: schedule takes the first ready thread, dead or not. *)
DeadPrefixUnchecked(k) == k = 0

(* The first k threads of the ready list are not alive, and the next one,  *)
(* if any, is.                                                             *)
DeadPrefix(k) ==
  /\ \A i \in 1 .. k : ~IsAlive(ready[i])
  /\ k < Len(ready) => IsAlive(ready[k + 1])

(* The state under which schedule files the thread it switches from. *)
FiledState(t) == IF state[t] = Running THEN DefaultState(t) ELSE state[t]

(* Mutant: the old process keeps its mark. *)
SwitchMarksKept(c, old, new) ==
  [p \in Proc |-> marks[p] \cup (IF p = Owner(new) THEN {c} ELSE {})]

(* Mutant: the new process is marked before the old one is unmarked. *)
SwitchMarksSwapped(c, old, new) ==
  [p \in Proc |->
     (marks[p] \cup (IF p = Owner(new) THEN {c} ELSE {}))
       \ (IF p = Owner(old) /\ Upgradable(p) THEN {c} ELSE {})]

(* Process::set_running(false) on the old, then (true) on the new process. *)
SwitchMarks(c, old, new) ==
  [p \in Proc |->
     (marks[p] \ (IF p = Owner(old) /\ Upgradable(p) THEN {c} ELSE {}))
       \cup (IF p = Owner(new) THEN {c} ELSE {})]

(* Mutant: a preempted thread goes to the head of the ready list. *)
PushReadyFront(q, t) == <<t>> \o q

(* ThreadList::ready is a first-in first-out list: LinkedList::push. *)
PushReady(q, t) == Append(q, t)

(* schedule(), once it has popped new: rest is what it left of the ready   *)
(* list, doomed the dead threads it dropped on the way, pool the idle      *)
(* lists without new.  The old thread is filed by its state.               *)
FileAndSwitch(c, new, rest, doomed, pool) ==
  LET old   == running[c]
      filed == FiledState(old)
  IN
  /\ state' = [t \in AllThreads |->
                 IF t = new THEN Running
                 ELSE IF t = old THEN filed
                 ELSE IF t \in doomed THEN Destroy
                 ELSE state[t]]
  /\ ready' = IF filed = Ready THEN PushReady(rest, old) ELSE rest
  /\ idle' = IF filed = Idle THEN [pool EXCEPT ![c] = @ \cup {old}] ELSE pool
  /\ queue' = [q \in QueueKey |->
                 queue[q] \cup (IF q = Destroy THEN doomed ELSE {})
                          \cup (IF q = filed THEN {old} ELSE {})]
  /\ running' = [running EXCEPT ![c] = new]
  /\ marks' = SwitchMarks(c, old, new)
  /\ mode' = [mode EXCEPT ![c] = "iret"]
  /\ UNCHANGED <<nodes, life, code, stk, ipi, pst, fault>>

(* thread_list[state] panics if there is no node for the state. *)
SwitchTo(c, new, rest, doomed, pool) ==
  LET missing == FiledState(running[c]) \in JoinState \ nodes IN
  \/ /\ missing
     /\ fault' = "index"
     /\ UNCHANGED <<state, lists, life, code, cpus, procs>>
  \/ /\ ~missing
     /\ FileAndSwitch(c, new, rest, doomed, pool)

(* schedule() finds neither a live ready thread nor an idle one: it        *)
(* returns false and the interrupted thread goes on.                       *)
Stay(c, doomed) ==
  /\ state' = [t \in AllThreads |-> IF t \in doomed THEN Destroy ELSE state[t]]
  /\ ready' = <<>>
  /\ queue' = [queue EXCEPT ![Destroy] = @ \cup doomed]
  /\ mode' = [mode EXCEPT ![c] = "thread"]
  /\ Resume(running[c])
  /\ UNCHANGED <<running, idle, nodes, life, iter, victim, stk, ipi, marks,
                 fault>>
  /\ DropArcs

Schedule(c) ==
  /\ fault = "none"
  /\ mode[c] = "sched"
  /\ \E k \in 0 .. Len(ready) :
       LET doomed == {ready[i] : i \in 1 .. k} IN
       /\ DeadPrefix(k)
       /\ \/ /\ k < Len(ready)
             /\ SwitchTo(c, ready[k + 1], SubSeq(ready, k + 2, Len(ready)),
                         doomed, idle)
          \/ /\ k = Len(ready)
             /\ \E new \in idle[c] :
                  SwitchTo(c, new, <<>>, doomed,
                           [idle EXCEPT ![c] = @ \ {new}])
          \/ /\ k = Len(ready)
             /\ idle[c] = {}
             /\ Stay(c, doomed)

(* The end of the interrupt path of int.asm: up to iretq the processor is  *)
(* on the stack of the thread it switched from.                            *)
Iret(c) ==
  /\ fault = "none"
  /\ mode[c] = "iret"
  /\ mode' = [mode EXCEPT ![c] = "thread"]
  /\ stk' = [stk EXCEPT ![c] = running[c]]
  /\ fault' = IF \E d \in Cpu \ {c} : stk[d] = running[c]
              THEN "shared" ELSE fault
  /\ Resume(running[c])
  /\ UNCHANGED <<state, lists, life, iter, victim, ipi, marks>>
  /\ DropArcs

-----------------------------------------------------------------------------
(* thread_cleaner.                                                         *)

(* Under the lock, move the destroy list to the cleaner's own list. *)
Collect(c) ==
  /\ At(c, "collect")
  /\ life' = [t \in AllThreads |->
                IF t \in queue[Destroy] THEN "reaped" ELSE life[t]]
  /\ queue' = [queue EXCEPT ![Destroy] = {}]
  /\ Goto(running[c], "pop")
  /\ UNCHANGED <<state, ready, running, idle, nodes, arg, target, iter, victim,
                 cpus, procs, fault>>

Reaped == {t \in AllThreads : life[t] = "reaped"}

(* Thread::dealloc takes the next thread of that list; the process part is *)
(* skipped if the process is gone.  When the list is empty the cleaner     *)
(* sleeps for a second.                                                    *)
Pop(c) ==
  LET me == running[c] IN
  /\ At(c, "pop")
  /\ \/ \E v \in Reaped :
          /\ victim' = v
          /\ Goto(me, IF Upgradable(Owner(v)) THEN "remove" ELSE "free")
          /\ UNCHANGED arg
     \/ /\ Reaped = {}
        /\ arg' = [arg EXCEPT ![me] = Sleep]
        /\ Goto(me, "ensure")
        /\ UNCHANGED victim
  /\ UNCHANGED <<state, lists, life, target, iter, cpus, procs, fault>>

(* Mutant: the joiners are forgotten. *)
RemoveThreadNoWake(c) ==
  /\ At(c, "remove")
  /\ Goto(running[c], "free")
  /\ UNCHANGED <<state, lists, life, arg, target, iter, victim, cpus, marks,
                 fault>>
  /\ DropArcs

(* Process::remove_thread: wake every joiner, if there is a node. *)
RemoveThread(c) ==
  LET node == Join(victim) IN
  /\ At(c, "remove")
  /\ \/ /\ node \in nodes
        /\ WakeAll(node, queue[node])
        /\ Goto(running[c], "dealloc")
     \/ /\ node \notin nodes
        /\ Goto(running[c], "free")
        /\ UNCHANGED <<state, ready, queue>>
  /\ UNCHANGED <<running, idle, nodes, life, arg, target, iter, victim, cpus,
                 marks, fault>>
  /\ DropArcs

(* ThreadListGuard::dealloc_state, under a lock of its own: the node is    *)
(* removed from the tree and its list asserted to be empty.                *)
DeallocState(c) ==
  LET node == Join(victim) IN
  /\ At(c, "dealloc")
  /\ nodes' = nodes \ {node}
  /\ fault' = IF queue[node] # {} THEN "assert" ELSE fault
  /\ Goto(running[c], "free")
  /\ UNCHANGED <<state, ready, running, idle, queue, life, arg, target, iter,
                 victim, cpus, marks>>
  /\ DropArcs

(* Thread::drop gives the stacks back, if the process is still there. *)
FreeThread(c) ==
  /\ At(c, "free")
  /\ life' = [life EXCEPT ![victim] = "freed"]
  /\ victim' = NoThread
  /\ fault' = IF /\ Upgradable(Owner(victim))
                 /\ \E d \in Cpu : stk[d] = victim
              THEN "freed" ELSE fault
  /\ Goto(running[c], "pop")
  /\ UNCHANGED <<state, lists, arg, target, iter, cpus, procs>>

-----------------------------------------------------------------------------
(* Process::terminate.                                                     *)

(* Remove the process from proc_list.  Nobody calls terminate() yet; here a *)
(* thread may call it on its own process, and on any process of proc_list. *)
Terminate(c, p) ==
  LET t == running[c] IN
  /\ At(c, "run")
  /\ t \notin Cpu
  /\ \/ p = Owner(t) /\ Upgradable(p)
     \/ pst[p] = "listed"
  /\ pst' = [pst EXCEPT ![p] = IF @ = "listed" THEN "unlisted" ELSE @]
  /\ target' = [target EXCEPT ![t] = p]
  /\ Goto(t, "kill")
  /\ UNCHANGED <<state, lists, life, arg, iter, victim, cpus, marks, fault>>

(* alive = false, under the lock of the thread list. *)
SetDead(c) ==
  LET t == running[c] IN
  /\ At(c, "kill")
  /\ pst' = [pst EXCEPT ![target[t]] = "dead"]
  /\ Goto(t, "mark")
  /\ UNCHANGED <<state, lists, life, arg, target, iter, victim, cpus, marks,
                 fault>>

(* cpud() turns interrupts off; iter_clear copies the marks and, in spite  *)
(* of its name, leaves them as they are.                                   *)
IterClear(c) ==
  LET t == running[c] IN
  /\ At(c, "mark")
  /\ iter' = [iter EXCEPT ![t] = [marked |-> marks[target[t]], index |-> 0]]
  /\ Goto(t, "iter")
  /\ UNCHANGED <<state, lists, life, arg, target, victim, cpus, procs, fault>>

(* CpuMarkerIter::next enumerates the slice marks[index..] and yields the  *)
(* position in that slice.                                                 *)
Yields(it, i) ==
  /\ it.index + i \in it.marked
  /\ \A j \in 0 .. NumCpus : j < i => it.index + j \notin it.marked

Exhausted(it) == \A i \in it.marked : i < it.index

(* Mutant: the iterator skips a processor. *)
AdvanceTwo(it, i) == [it EXCEPT !.index = i + 2]

(* index is set relative to the slice as well. *)
Advance(it, i) == [it EXCEPT !.index = i + 1]

(* One turn of the loop over the marked processors. *)
SendIpi(c) ==
  LET t == running[c] IN
  /\ At(c, "iter")
  /\ \/ \E i \in Cpu \ {c} :
          /\ Yields(iter[t], i)
          /\ ipi' = [ipi EXCEPT ![i] = IF @ = "none" THEN "pending" ELSE @]
          /\ iter' = [iter EXCEPT ![t] = Advance(@, i)]
          /\ UNCHANGED <<pc, target>>
     \/ /\ Yields(iter[t], c)
        /\ iter' = [iter EXCEPT ![t] = NoIter]
        /\ Goto(t, "int")
        /\ UNCHANGED <<ipi, target>>
     \/ /\ Exhausted(iter[t])
        /\ iter' = [iter EXCEPT ![t] = NoIter]
        /\ target' = [target EXCEPT ![t] = NoProc]
        /\ Goto(t, "run")
        /\ UNCHANGED ipi
  /\ UNCHANGED <<state, lists, life, arg, victim, mode, stk, marks, fault>>
  /\ DropArcs

-----------------------------------------------------------------------------
(* panic() stops every processor. *)
Halted == fault # "none" /\ UNCHANGED vars

(* The next step of kernel code already under way on processor c. *)
CodeStep(c) ==
  \/ EnsureCheck(c) \/ EnsureInsert(c) \/ SetState(c) \/ IntSched(c)
  \/ Collect(c) \/ Pop(c) \/ RemoveThread(c) \/ DeallocState(c) \/ FreeThread(c)
  \/ SetDead(c) \/ IterClear(c) \/ SendIpi(c)

Call(c) ==
  \/ \E t \in Thread : NewThread(c, t)
  \/ \E s \in QueueKey : BlockCall(c, s)
  \/ \E p \in Killable : Terminate(c, p)
  \/ ProcCPanic(c)

Interrupt(c) ==
  \/ \E due \in SUBSET queue[Sleep], expired \in BOOLEAN :
       TimeHandler(c, due, expired)
  \/ IpiHandler(c)

Next ==
  \/ \E c \in Cpu :
       Call(c) \/ CodeStep(c) \/ Interrupt(c) \/ Schedule(c) \/ Iret(c)
  \/ Halted

Spec == Init /\ [][Next]_vars

(* The timer fires on every processor and the interrupt path runs to its   *)
(* end; time passes, so each sleeper is found due; a quantum is longer     *)
(* than any step of kernel code, so a thread that keeps getting the        *)
(* processor gets on with the call it is in.  Nothing is assumed of user   *)
(* code.                                                                   *)
Fairness ==
  /\ \A c \in Cpu :
       /\ WF_vars(\E due \in SUBSET queue[Sleep] : TimeHandler(c, due, TRUE))
       /\ WF_vars(Schedule(c))
       /\ WF_vars(Iret(c))
       /\ WF_vars(IpiHandler(c))
  /\ \A t \in Thread \cup {Cleaner} :
       /\ SF_vars(\E due \in SUBSET queue[Sleep], expired \in BOOLEAN :
                    t \in due /\ TimeHandler(0, due, expired))
       /\ SF_vars(\E c \in Cpu : running[c] = t /\ CodeStep(c))

FairSpec == Spec /\ Fairness

-----------------------------------------------------------------------------
(* Safety.                                                                 *)

InReady(t)  == \E i \in 1 .. Len(ready) : ready[i] = t
InIdle(t)   == \E c \in Cpu : t \in idle[c]
InQueue(t)  == \E q \in QueueKey : t \in queue[q]
OnCpu(t)    == \E c \in Cpu : running[c] = t

(* A thread on a list is in the state that list stands for, so that        *)
(* Thread::remove_from_current, which looks the list up by the state,      *)
(* finds the thread there.                                                 *)
FiledByState ==
  /\ \A i \in 1 .. Len(ready) : state[ready[i]] = Ready
  /\ \A c \in Cpu : \A t \in idle[c] : state[t] = Idle
  /\ \A q \in QueueKey : \A t \in queue[q] : state[t] = q

(* No thread is twice on a list or on two lists: the lists are intrusive,  *)
(* through one pair of links per thread.                                   *)
NoDuplicates ==
  /\ \A i, j \in 1 .. Len(ready) : ready[i] = ready[j] => i = j
  /\ \A c, d \in Cpu : running[c] = running[d] => c = d
  /\ \A c, d \in Cpu : c # d => idle[c] \cap idle[d] = {}
  /\ \A t \in AllThreads : OnCpu(t) => ~(InReady(t) \/ InIdle(t) \/ InQueue(t))

(* A thread is on some list from its creation until the cleaner takes it,  *)
(* and on none after that.                                                 *)
OnListWhileLive ==
  \A t \in AllThreads :
    life[t] = "live" <=> OnCpu(t) \/ InReady(t) \/ InIdle(t) \/ InQueue(t)

(* Every live thread is on exactly one list of the scheduler, the one its  *)
(* state names, whatever the processors, the timer and the cleaner do.     *)
ListInv == FiledByState /\ NoDuplicates /\ OnListWhileLive

(* A call of block() does not return before the thread was taken off the   *)
(* processor and made Running again: schedule() finds the idle thread when *)
(* nothing else is ready, so it never returns false to a blocking thread.  *)
BlockedUntilWoken ==
  \A c \in Cpu :
    \/ state[running[c]] = Running
    \/ pc[running[c]] = "int"
    \/ pc[running[c]] \in {"ret", "exit"} /\ mode[c] = "sched"

(* "we will never switch to a thread that has a dead process" (mod.rs,     *)
(* schedule): the process of the thread schedule switches to is alive.     *)
SwitchToLiving ==
  [][\A c \in Cpu : running'[c] # running[c] => IsAlive(running'[c])]_vars

(* Process.cpus_running marks exactly the processors on which a thread of  *)
(* the process runs, for terminate() to interrupt.                         *)
MarksExact ==
  \A p \in Proc : \A c \in Cpu :
    /\ c \in marks[p] /\ Upgradable(p) => Owner(running[c]) = p
    /\ Owner(running[c]) = p /\ p # Kernel => c \in marks[p]

(* Statements of comments and assertions of the code that do not hold.     *)

(* mod.rs, Index for ThreadList: the list of the state exists. *)
IndexValid == fault # "index"

(* thread.rs, Thread::dealloc: nobody uses the thread any more; here, no   *)
(* processor is still on its stack.                                        *)
FreedNotInUse ==
  \A c \in Cpu : life[stk[c]] = "freed" => ~Upgradable(Owner(stk[c]))

-----------------------------------------------------------------------------
(* Liveness, up to the first fault.                                        *)

(* The ready list is served in order: no ready thread waits for ever. *)
ReadyRuns ==
  \A t \in Thread \cup {Cleaner} :
    state[t] = Ready /\ life[t] = "live" ~> state[t] # Ready \/ fault # "none"

(* The cleaner frees every thread that was destroyed. *)
DestroyedIsFreed ==
  \A t \in Thread : t \in queue[Destroy] ~> life[t] = "freed" \/ fault # "none"

(* A thread that waits in a join while its target is on the destroy list,  *)
(* so before the cleaner collected it, is woken.                           *)
JoinerWoken ==
  \A u \in Thread : \A t \in Thread \ {u} :
    u \in queue[Destroy] /\ t \in queue[Join(u)]
      ~> t \notin queue[Join(u)] \/ fault # "none"

(* aurora_kernel_syscalls: join blocks until the thread terminates; here,  *)
(* a thread that joins one that is gone already is not blocked for ever.   *)
JoinReturns ==
  \A t, u \in Thread :
    life[u] = "freed" /\ t \in queue[Join(u)]
      ~> t \notin queue[Join(u)] \/ fault # "none"

(* A terminate() call comes to its end. *)
TerminateReturns ==
  \A t \in AllThreads : target[t] # NoProc /\ pc[t] = "iter" ~> pc[t] # "iter" \/ fault # "none"
=============================================================================
