-------------------------- MODULE SchedulerProofs --------------------------
(***************************************************************************)
(* Proofs about module Scheduler, for any number of processors, threads    *)
(* and processes.                                                          *)
(***************************************************************************)
EXTENDS Scheduler, FiniteSetTheorems, TLAPS

-----------------------------------------------------------------------------
(* Facts about the constants.                                              *)

(* The kinds of ThreadState are different, so a state names one list. *)
LEMMA StateKinds ==
  /\ Running \in ThreadState /\ Ready \in ThreadState /\ Idle \in ThreadState
  /\ Destroy \in QueueKey /\ Sleep \in QueueKey
  /\ JoinState \subseteq QueueKey
  /\ ThreadState = {Running, Ready, Idle} \cup QueueKey
  /\ Running # Ready /\ Running # Idle /\ Ready # Idle
  /\ Destroy # Sleep
  /\ Running \notin QueueKey /\ Ready \notin QueueKey /\ Idle \notin QueueKey
  /\ Destroy \notin JoinState /\ Sleep \notin JoinState
BY DEF Running, Ready, Idle, Destroy, Sleep, Join, JoinState, ThreadState,
       QueueKey

(* The thread and processor names. *)
LEMMA Names ==
  /\ Cpu \subseteq AllThreads /\ Thread \subseteq AllThreads
  /\ Cleaner \in AllThreads /\ Cleaner \notin Cpu /\ Cleaner \notin Thread
  /\ NoThread \notin AllThreads
  /\ 0 \in Cpu
  /\ \A c \in Cpu : c \notin Thread
BY CpuAssumption, ThreadAssumption DEF AllThreads, Cpu

(* There are finitely many threads. *)
LEMMA FiniteThreads ==
  ASSUME NEW S, S \subseteq AllThreads
  PROVE  IsFiniteSet(S) /\ Cardinality(S) \in Nat
<1>1. IsFiniteSet(Cpu)
  BY CpuAssumption, FS_Interval DEF Cpu
<1>2. IsFiniteSet({Cleaner})
  BY FS_Singleton
<1>3. IsFiniteSet(Thread \cup {Cleaner})
  BY <1>2, ThreadAssumption, FS_Union
<1>4. IsFiniteSet(AllThreads)
  BY <1>1, <1>3, FS_Union DEF AllThreads
<1>5. IsFiniteSet(S)
  BY <1>4, FS_Subset
<1>. QED
  BY <1>5, FS_CardinalityType

(* The orders of a set of threads are sequences without repetition. *)
LEMMA OrdersSeq ==
  ASSUME NEW S, S \subseteq AllThreads, NEW w \in Orders(S)
  PROVE  /\ w \in Seq(S)
         /\ \A i \in 1 .. Len(w) : w[i] \in S
         /\ \A i, j \in 1 .. Len(w) : w[i] = w[j] => i = j
         /\ \A t \in S : \E i \in 1 .. Len(w) : w[i] = t
<1>. DEFINE n == Cardinality(S)
<1>1. n \in Nat
  BY FiniteThreads
<1>2. w \in [1 .. n -> S]
  BY DEF Orders
<1>3. w \in Seq(S) /\ Len(w) = n /\ DOMAIN w = 1 .. n
  BY <1>1, <1>2
<1>. QED
  BY <1>2, <1>3 DEF Orders

-----------------------------------------------------------------------------
(* Type correctness.                                                       *)

(* What the types need: a thread inside terminate() has a process, whose   *)
(* marks IterClear reads, and ensure() inserts nodes for Join states only. *)
CodeInv ==
  \A t \in AllThreads :
    /\ pc[t] \in {"kill", "mark", "iter"} => target[t] \in Proc
    /\ pc[t] = "insert" => arg[t] \in JoinState

TypeInv == TypeOK /\ CodeInv

(* The first state, as sched::init leaves it, is typed. *)
LEMMA TypeInit == Init => TypeInv
<1>. SUFFICES ASSUME Init PROVE TypeInv
  OBVIOUS
<1>1. ready \in Seq(AllThreads)
  BY Names DEF Init
<1>2. NoIter \in [marked : SUBSET Cpu, index : 0 .. NumCpus]
  BY CpuAssumption DEF NoIter
<1>3. TypeOK
  BY <1>1, <1>2, StateKinds, Names DEF Init, TypeOK, Labels
<1>4. CodeInv
  BY <1>3 DEF Init, CodeInv
<1>. QED
  BY <1>3, <1>4 DEF TypeInv

(* What WakeAll leaves of the types. *)
LEMMA WakeAllType ==
  ASSUME TypeOK, NEW q \in QueueKey, NEW S, S \subseteq queue[q], WakeAll(q, S)
  PROVE  /\ ready' \in Seq(AllThreads)
         /\ queue' \in [QueueKey -> SUBSET AllThreads]
         /\ state' \in [AllThreads -> ThreadState]
<1>1. S \subseteq AllThreads
  BY DEF TypeOK
<1>2. PICK w \in Orders(S) : ready' = ready \o w
  BY DEF WakeAll
<1>3. w \in Seq(AllThreads)
  BY <1>1, OrdersSeq
<1>4. ready' \in Seq(AllThreads)
  BY <1>2, <1>3 DEF TypeOK
<1>5. queue' \in [QueueKey -> SUBSET AllThreads]
  BY DEF WakeAll, TypeOK
<1>6. state' \in [AllThreads -> ThreadState]
  BY StateKinds DEF WakeAll, TypeOK
<1>. QED
  BY <1>4, <1>5, <1>6

(* Dropping Arcs keeps the state of a process typed. *)
LEMMA DropArcsType ==
  ASSUME TypeOK, DropArcs
  PROVE  pst' \in [Proc -> {"listed", "unlisted", "dead", "gone"}]
BY DEF TypeOK, DropArcs

(* A step to a label of which CodeInv says nothing. *)
LEMMA GotoType ==
  ASSUME TypeInv, NEW t \in AllThreads,
         NEW l \in Labels \ {"kill", "mark", "iter", "insert"}, Goto(t, l),
         \A u \in AllThreads \ {t} : arg'[u] = arg[u] /\ target'[u] = target[u]
  PROVE  pc' \in [AllThreads -> Labels] /\ CodeInv'
<1>1. pc' \in [AllThreads -> Labels]
  BY DEF TypeInv, TypeOK, Goto
<1>2. \A u \in AllThreads : pc'[u] = IF u = t THEN l ELSE pc[u]
  BY DEF TypeInv, TypeOK, Goto
<1>. QED
  BY <1>1, <1>2 DEF TypeInv, CodeInv

(* A thread that returns from its int 128 keeps the types. *)
LEMMA ResumeType ==
  ASSUME TypeInv, NEW t \in AllThreads, Resume(t)
  PROVE  /\ pc' \in [AllThreads -> Labels]
         /\ arg' \in [AllThreads -> ThreadState]
         /\ target' \in [AllThreads -> Proc \cup {NoProc}]
         /\ CodeInv'
<1>1. CASE pc[t] = "ret"
  <2>1. pc' = [pc EXCEPT ![t] = AfterInt(t)] /\ AfterInt(t) \in {"run", "collect"}
    BY <1>1 DEF Resume, Goto, AfterInt
  <2>2. pc' \in [AllThreads -> Labels]
    BY <2>1 DEF TypeInv, TypeOK, Labels
  <2>3. arg' \in [AllThreads -> ThreadState] /\ target' \in [AllThreads -> Proc \cup {NoProc}]
    BY <1>1, StateKinds DEF TypeInv, TypeOK, Resume
  <2>4. CodeInv'
    <3>. SUFFICES ASSUME NEW u \in AllThreads,
                         pc'[u] \in {"kill", "mark", "iter", "insert"}
                  PROVE  /\ pc'[u] \in {"kill", "mark", "iter"} => target'[u] \in Proc
                         /\ pc'[u] = "insert" => arg'[u] \in JoinState
      BY DEF CodeInv
    <3>1. u # t /\ pc'[u] = pc[u]
      BY <2>1 DEF TypeInv, TypeOK
    <3>2. target'[u] = target[u] /\ arg'[u] = arg[u]
      BY <1>1, <3>1 DEF Resume, TypeInv, TypeOK
    <3>. QED
      BY <3>1, <3>2 DEF TypeInv, CodeInv
  <2>. QED
    BY <2>2, <2>3, <2>4
<1>2. CASE pc[t] # "ret"
  BY <1>2 DEF TypeInv, TypeOK, CodeInv, Resume
<1>. QED
  BY <1>1, <1>2

(* A switch keeps the types. *)
LEMMA FileAndSwitchType ==
  ASSUME TypeInv, NEW c \in Cpu, NEW new \in AllThreads,
         NEW rest \in Seq(AllThreads), NEW doomed \in SUBSET AllThreads,
         NEW pool \in [Cpu -> SUBSET AllThreads],
         FileAndSwitch(c, new, rest, doomed, pool)
  PROVE  TypeInv'
<1>. DEFINE old == running[c]
            filed == FiledState(old)
<1>1. old \in AllThreads /\ filed \in ThreadState
  BY StateKinds DEF TypeInv, TypeOK, FiledState, DefaultState
<1>2. state' \in [AllThreads -> ThreadState]
  BY <1>1, StateKinds DEF FileAndSwitch, TypeInv, TypeOK
<1>3. ready' \in Seq(AllThreads)
  BY <1>1 DEF FileAndSwitch, PushReady
<1>4. idle' \in [Cpu -> SUBSET AllThreads]
  BY <1>1 DEF FileAndSwitch
<1>5. queue' \in [QueueKey -> SUBSET AllThreads]
  BY <1>1 DEF FileAndSwitch, TypeInv, TypeOK
<1>6. running' \in [Cpu -> AllThreads] /\ mode' \in [Cpu -> {"thread", "sched", "iret"}]
  BY DEF FileAndSwitch, TypeInv, TypeOK
<1>7. marks' \in [Proc -> SUBSET Cpu]
  BY DEF FileAndSwitch, SwitchMarks, TypeInv, TypeOK
<1>8. UNCHANGED <<nodes, life, code, stk, ipi, pst, fault>>
  BY DEF FileAndSwitch
<1>. QED
  BY <1>2, <1>3, <1>4, <1>5, <1>6, <1>7, <1>8 DEF TypeInv, TypeOK, CodeInv, code

(* schedule() keeps the types, whether it switches, panics or stays. *)
LEMMA ScheduleType ==
  ASSUME TypeInv, NEW c \in Cpu, Schedule(c)
  PROVE  TypeInv'
<1>1. PICK k \in 0 .. Len(ready) :
        LET doomed == {ready[i] : i \in 1 .. k} IN
        \/ /\ k < Len(ready)
           /\ SwitchTo(c, ready[k + 1], SubSeq(ready, k + 2, Len(ready)),
                       doomed, idle)
        \/ \E new \in idle[c] :
             SwitchTo(c, new, <<>>, doomed, [idle EXCEPT ![c] = @ \ {new}])
        \/ Stay(c, doomed)
  BY DEF Schedule
<1>. DEFINE doomed == {ready[i] : i \in 1 .. k}
<1>2. ready \in Seq(AllThreads) /\ doomed \in SUBSET AllThreads
  BY DEF TypeInv, TypeOK
<1>3. ASSUME NEW new, NEW rest, NEW pool, SwitchTo(c, new, rest, doomed, pool),
             new \in AllThreads, rest \in Seq(AllThreads),
             pool \in [Cpu -> SUBSET AllThreads]
      PROVE  TypeInv'
  <2>1. CASE FileAndSwitch(c, new, rest, doomed, pool)
    BY <1>2, <1>3, <2>1, FileAndSwitchType
  <2>2. CASE fault' = "index" /\ UNCHANGED <<state, lists, life, code, cpus, procs>>
    BY <2>2 DEF TypeInv, TypeOK, CodeInv, lists, code, cpus, procs
  <2>. QED
    BY <1>3, <2>1, <2>2 DEF SwitchTo
<1>4. CASE k < Len(ready) /\ SwitchTo(c, ready[k + 1],
                               SubSeq(ready, k + 2, Len(ready)), doomed, idle)
  <2>1. ready[k + 1] \in AllThreads
    BY <1>2, <1>4
  <2>2. SubSeq(ready, k + 2, Len(ready)) \in Seq(AllThreads)
    BY <1>2
  <2>3. idle \in [Cpu -> SUBSET AllThreads]
    BY DEF TypeInv, TypeOK
  <2>. QED
    BY <1>3, <1>4, <2>1, <2>2, <2>3
<1>5. CASE \E new \in idle[c] :
             SwitchTo(c, new, <<>>, doomed, [idle EXCEPT ![c] = @ \ {new}])
  <2>1. PICK new \in idle[c] :
             SwitchTo(c, new, <<>>, doomed, [idle EXCEPT ![c] = @ \ {new}])
    BY <1>5
  <2>2. new \in AllThreads /\ [idle EXCEPT ![c] = @ \ {new}] \in [Cpu -> SUBSET AllThreads]
    BY DEF TypeInv, TypeOK
  <2>3. <<>> \in Seq(AllThreads)
    OBVIOUS
  <2>. QED
    BY <1>3, <2>1, <2>2, <2>3
<1>6. CASE Stay(c, doomed)
  <2>1. running[c] \in AllThreads
    BY DEF TypeInv, TypeOK
  <2>2. /\ pc' \in [AllThreads -> Labels]
        /\ arg' \in [AllThreads -> ThreadState]
        /\ target' \in [AllThreads -> Proc \cup {NoProc}]
        /\ CodeInv'
    BY <1>6, <2>1, ResumeType DEF Stay
  <2>3. pst' \in [Proc -> {"listed", "unlisted", "dead", "gone"}]
    BY <1>6, DropArcsType DEF Stay, TypeInv
  <2>4. state' \in [AllThreads -> ThreadState]
    BY <1>6, StateKinds DEF Stay, TypeInv, TypeOK
  <2>5. ready' \in Seq(AllThreads)
    BY <1>6 DEF Stay
  <2>6. queue' \in [QueueKey -> SUBSET AllThreads] /\ mode' \in [Cpu -> {"thread", "sched", "iret"}]
    BY <1>2, <1>6 DEF Stay, TypeInv, TypeOK
  <2>7. UNCHANGED <<running, idle, nodes, life, iter, victim, stk, ipi, marks, fault>>
    BY <1>6 DEF Stay
  <2>. QED
    BY <2>2, <2>3, <2>4, <2>5, <2>6, <2>7 DEF TypeInv, TypeOK
<1>. QED
  BY <1>1, <1>4, <1>5, <1>6

(* The system calls keep the types. *)
LEMMA CallType ==
  ASSUME TypeInv, NEW c \in Cpu, Call(c)
  PROVE  TypeInv'
<1>. DEFINE t == running[c]
<1>1. t \in AllThreads
  BY DEF TypeInv, TypeOK
<1>2. ASSUME NEW u \in Thread, NewThread(c, u)
      PROVE  TypeInv'
  <2>1. ready' \in Seq(AllThreads)
    BY <1>2, Names DEF NewThread, TypeInv, TypeOK
  <2>2. state' \in [AllThreads -> ThreadState]
    BY <1>2, StateKinds DEF NewThread, TypeInv, TypeOK
  <2>. QED
    BY <1>2, <2>1, <2>2 DEF NewThread, TypeInv, TypeOK, CodeInv, code, cpus, procs
<1>3. ASSUME NEW s \in QueueKey, BlockCall(c, s)
      PROVE  TypeInv'
  <2>1. s \in ThreadState
    BY StateKinds
  <2>2. pc' \in [AllThreads -> Labels] /\ CodeInv'
    BY <1>1, <1>3 DEF BlockCall, Goto, TypeInv, TypeOK, CodeInv, Labels
  <2>. QED
    BY <1>3, <2>1, <2>2 DEF BlockCall, TypeInv, TypeOK, lists, cpus, procs
<1>4. ASSUME NEW p \in Killable, Terminate(c, p)
      PROVE  TypeInv'
  <2>1. p \in Proc
    BY ProcAssumption
  <2>2. pc' \in [AllThreads -> Labels] /\ CodeInv'
    BY <1>1, <1>4, <2>1 DEF Terminate, Goto, TypeInv, TypeOK, CodeInv, Labels
  <2>3. /\ pst' \in [Proc -> {"listed", "unlisted", "dead", "gone"}]
        /\ target' \in [AllThreads -> Proc \cup {NoProc}]
    BY <1>4, <2>1 DEF Terminate, TypeInv, TypeOK
  <2>. QED
    BY <1>4, <2>2, <2>3 DEF Terminate, TypeInv, TypeOK, lists, cpus
<1>5. ASSUME ProcCPanic(c)
      PROVE  TypeInv'
  BY <1>5 DEF ProcCPanic, TypeInv, TypeOK, CodeInv, lists, code, cpus, procs
<1>. QED
  BY <1>2, <1>3, <1>4, <1>5 DEF Call

(* The timer and the inter-processor interrupt keep the types. *)
LEMMA InterruptType ==
  ASSUME TypeInv, NEW c \in Cpu, Interrupt(c) \/ Iret(c)
  PROVE  TypeInv'
<1>1. ASSUME NEW due, NEW expired, TimeHandler(c, due, expired)
      PROVE  TypeInv'
  <2>1. due \subseteq queue[Sleep] /\ WakeAll(Sleep, due)
    BY <1>1 DEF TimeHandler, DueSets
  <2>2. /\ ready' \in Seq(AllThreads)
        /\ queue' \in [QueueKey -> SUBSET AllThreads]
        /\ state' \in [AllThreads -> ThreadState]
    BY <2>1, StateKinds, WakeAllType DEF TypeInv
  <2>3. mode' \in [Cpu -> {"thread", "sched", "iret"}]
    BY <1>1 DEF TimeHandler, TypeInv, TypeOK
  <2>. QED
    BY <1>1, <2>2, <2>3 DEF TimeHandler, TypeInv, TypeOK, CodeInv, code, procs
<1>2. ASSUME IpiHandler(c)
      PROVE  TypeInv'
  <2>1. pc' = pc \/ pc' = [pc EXCEPT ![running[c]] = "exit"]
    BY <1>2 DEF IpiHandler, Goto
  <2>2. pc' \in [AllThreads -> Labels] /\ CodeInv'
    BY <1>2, <2>1 DEF IpiHandler, TypeInv, TypeOK, CodeInv, Labels
  <2>. QED
    BY <1>2, <2>2 DEF IpiHandler, TypeInv, TypeOK, lists, procs
<1>3. ASSUME Iret(c)
      PROVE  TypeInv'
  <2>1. running[c] \in AllThreads
    BY DEF TypeInv, TypeOK
  <2>2. /\ pc' \in [AllThreads -> Labels]
        /\ arg' \in [AllThreads -> ThreadState]
        /\ target' \in [AllThreads -> Proc \cup {NoProc}]
        /\ CodeInv'
    BY <1>3, <2>1, ResumeType DEF Iret
  <2>3. pst' \in [Proc -> {"listed", "unlisted", "dead", "gone"}]
    BY <1>3, DropArcsType DEF Iret, TypeInv
  <2>4. /\ mode' \in [Cpu -> {"thread", "sched", "iret"}]
        /\ stk' \in [Cpu -> AllThreads]
        /\ fault' \in {"none", "index", "assert", "shared", "freed", "proc_c"}
        /\ UNCHANGED <<state, lists, life, iter, victim, ipi, marks>>
    BY <1>3, <2>1 DEF Iret, TypeInv, TypeOK
  <2>. QED
    BY <2>2, <2>3, <2>4 DEF TypeInv, TypeOK, lists
<1>. QED
  BY <1>1, <1>2, <1>3 DEF Interrupt

(* The steps of block(), the cleaner and terminate() keep the types. *)
LEMMA CodeStepType ==
  ASSUME TypeInv, NEW c \in Cpu, CodeStep(c)
  PROVE  TypeInv'
<1>. DEFINE t == running[c]
<1>0. t \in AllThreads
  BY DEF TypeInv, TypeOK
<1>1. CASE EnsureCheck(c)
  BY <1>0, <1>1 DEF EnsureCheck, Goto, TypeInv, TypeOK, CodeInv, Labels, lists, cpus, procs
<1>2. CASE EnsureInsert(c)
  <2>1. arg[t] \in JoinState
    BY <1>0, <1>2 DEF EnsureInsert, At, Goto, TypeInv, CodeInv
  <2>2. nodes' \subseteq JoinState
    BY <1>2, <2>1 DEF EnsureInsert, At, Goto, TypeInv, TypeOK
  <2>. QED
    BY <1>0, <1>2, <2>2 DEF EnsureInsert, At, Goto, TypeInv, TypeOK, CodeInv, Labels, cpus, procs
<1>3. CASE SetState(c)
  BY <1>0, <1>3 DEF SetState, At, Goto, TypeInv, TypeOK, CodeInv, Labels, lists, cpus, procs
<1>4. CASE IntSched(c)
  BY <1>0, <1>4 DEF IntSched, At, Goto, TypeInv, TypeOK, CodeInv, Labels, lists, procs
<1>5. CASE Collect(c)
  BY <1>0, <1>5, StateKinds DEF Collect, At, Goto, TypeInv, TypeOK, CodeInv, Labels, cpus, procs
<1>6. CASE Pop(c)
  <2>1. CASE \E v \in Reaped :
               /\ victim' = v
               /\ Goto(t, IF Upgradable(Owner(v)) THEN "remove" ELSE "free")
               /\ UNCHANGED arg
    <3>1. victim' \in AllThreads /\ (Goto(t, "remove") \/ Goto(t, "free")) /\ UNCHANGED arg
      BY <2>1 DEF Reaped
    <3>2. pc' \in [AllThreads -> Labels] /\ CodeInv'
      BY <1>0, <1>6, <3>1, GotoType DEF Pop, Labels
    <3>. QED
      BY <1>6, <3>1, <3>2 DEF Pop, TypeInv, TypeOK, lists, cpus, procs
  <2>2. CASE arg' = [arg EXCEPT ![t] = Sleep] /\ Goto(t, "ensure") /\ UNCHANGED victim
    <3>1. pc' \in [AllThreads -> Labels] /\ CodeInv'
      BY <1>0, <1>6, <2>2, GotoType DEF Pop, Labels, TypeInv, TypeOK
    <3>2. arg' \in [AllThreads -> ThreadState]
      BY <2>2, StateKinds DEF TypeInv, TypeOK
    <3>. QED
      BY <1>6, <2>2, <3>1, <3>2 DEF Pop, TypeInv, TypeOK, lists, cpus, procs
  <2>. QED
    BY <1>6, <2>1, <2>2 DEF Pop
<1>7. CASE RemoveThread(c)
  <2>1. pst' \in [Proc -> {"listed", "unlisted", "dead", "gone"}]
    BY <1>7, DropArcsType DEF RemoveThread, TypeInv
  <2>2. /\ ready' \in Seq(AllThreads)
        /\ queue' \in [QueueKey -> SUBSET AllThreads]
        /\ state' \in [AllThreads -> ThreadState]
    <3>1. CASE Join(victim) \in nodes /\ WakeAll(Join(victim), queue[Join(victim)])
      BY <3>1, StateKinds, WakeAllType DEF TypeInv, TypeOK
    <3>2. CASE UNCHANGED <<state, ready, queue>>
      BY <3>2 DEF TypeInv, TypeOK
    <3>. QED
      BY <1>7, <3>1, <3>2 DEF RemoveThread
  <2>3. pc' \in [AllThreads -> Labels] /\ CodeInv'
    <3>1. Goto(t, "dealloc") \/ Goto(t, "free")
      BY <1>7 DEF RemoveThread
    <3>. QED
      BY <1>0, <1>7, <3>1, GotoType DEF RemoveThread, Labels
  <2>. QED
    BY <1>7, <2>1, <2>2, <2>3 DEF RemoveThread, TypeInv, TypeOK, cpus
<1>8. CASE DeallocState(c)
  <2>1. pst' \in [Proc -> {"listed", "unlisted", "dead", "gone"}]
    BY <1>8, DropArcsType DEF DeallocState, TypeInv
  <2>. QED
    BY <1>0, <1>8, <2>1 DEF DeallocState, At, Goto, TypeInv, TypeOK, CodeInv, Labels, cpus
<1>9. CASE FreeThread(c)
  BY <1>0, <1>9 DEF FreeThread, At, Goto, TypeInv, TypeOK, CodeInv, Labels, lists, cpus, procs
<1>10. CASE SetDead(c)
  BY <1>0, <1>10 DEF SetDead, At, Goto, TypeInv, TypeOK, CodeInv, Labels, lists, cpus
<1>11. CASE IterClear(c)
  <2>1. target[t] \in Proc
    BY <1>0, <1>11 DEF IterClear, At, Goto, TypeInv, CodeInv
  <2>2. [marked |-> marks[target[t]], index |-> 0] \in [marked : SUBSET Cpu, index : 0 .. NumCpus]
    BY <2>1, CpuAssumption DEF TypeInv, TypeOK
  <2>3. iter' \in [AllThreads -> [marked : SUBSET Cpu, index : 0 .. NumCpus]]
    BY <1>11, <2>2 DEF IterClear, At, Goto, TypeInv, TypeOK
  <2>. QED
    BY <1>0, <1>11, <2>1, <2>3 DEF IterClear, At, Goto, TypeInv, TypeOK, CodeInv, Labels, lists, cpus, procs
<1>12. CASE SendIpi(c)
  <2>. DEFINE Iters == [marked : SUBSET Cpu, index : 0 .. NumCpus]
  <2>1. pst' \in [Proc -> {"listed", "unlisted", "dead", "gone"}]
    BY <1>12, DropArcsType DEF SendIpi, TypeInv
  <2>2. NoIter \in Iters
    BY CpuAssumption DEF NoIter
  <2>3. iter[t] \in Iters
    BY <1>0 DEF TypeInv, TypeOK
  <2>4. \A i \in Cpu : Advance(iter[t], i) \in Iters
    BY <2>3, CpuAssumption DEF Advance, Cpu
  <2>5. CASE \E i \in Cpu : /\ ipi' = [ipi EXCEPT ![i] = IF @ = "none" THEN "pending" ELSE @]
                            /\ iter' = [iter EXCEPT ![t] = Advance(@, i)]
                            /\ UNCHANGED <<pc, target>>
    <3>1. iter' \in [AllThreads -> Iters] /\ ipi' \in [Cpu -> {"none", "pending", "inservice"}]
      BY <1>0, <2>4, <2>5 DEF TypeInv, TypeOK
    <3>. QED
      BY <1>12, <2>1, <2>5, <3>1 DEF SendIpi, TypeInv, TypeOK, CodeInv, lists
  <2>6. CASE /\ iter' = [iter EXCEPT ![t] = NoIter]
             /\ Goto(t, "int") /\ UNCHANGED <<ipi, target>>
    <3>1. pc' \in [AllThreads -> Labels] /\ CodeInv'
      BY <1>0, <1>12, <2>6, GotoType DEF SendIpi, Labels
    <3>2. iter' \in [AllThreads -> Iters]
      BY <2>2, <2>6 DEF TypeInv, TypeOK
    <3>. QED
      BY <1>12, <2>1, <2>6, <3>1, <3>2 DEF SendIpi, TypeInv, TypeOK, lists
  <2>7. CASE /\ iter' = [iter EXCEPT ![t] = NoIter]
             /\ target' = [target EXCEPT ![t] = NoProc]
             /\ Goto(t, "run") /\ UNCHANGED ipi
    <3>1. pc' \in [AllThreads -> Labels] /\ CodeInv'
      BY <1>0, <1>12, <2>7, GotoType DEF SendIpi, Labels, TypeInv, TypeOK
    <3>2. iter' \in [AllThreads -> Iters] /\ target' \in [AllThreads -> Proc \cup {NoProc}]
      BY <2>2, <2>7 DEF TypeInv, TypeOK
    <3>. QED
      BY <1>12, <2>1, <2>7, <3>1, <3>2 DEF SendIpi, TypeInv, TypeOK, lists
  <2>. QED
    BY <1>12, <2>5, <2>6, <2>7 DEF SendIpi
<1>. QED
  BY <1>1, <1>2, <1>3, <1>4, <1>5, <1>6, <1>7, <1>8, <1>9, <1>10, <1>11, <1>12
  DEF CodeStep

(* TypeInv is inductive. *)
LEMMA TypeNext == TypeInv /\ [Next]_vars => TypeInv'
<1>. SUFFICES ASSUME TypeInv, [Next]_vars PROVE TypeInv'
  OBVIOUS
<1>1. CASE UNCHANGED vars
  BY <1>1 DEF TypeInv, TypeOK, CodeInv, vars, lists, code, cpus, procs
<1>2. CASE Next
  BY <1>1, <1>2, CallType, CodeStepType, InterruptType, ScheduleType DEF Next, Halted
<1>. QED
  BY <1>1, <1>2

(* Every variable keeps its type, and a CpuMarkerIter its bounds, whatever *)
(* the number of processors, threads and processes.                        *)
THEOREM TypeCorrect == Spec => []TypeOK
<1>1. TypeInv => TypeOK
  BY DEF TypeInv
<1>. QED
  BY <1>1, TypeInit, TypeNext, PTL DEF Spec

-----------------------------------------------------------------------------
(* The lists.                                                              *)

(* What the lists need: only the cleaner runs thread_cleaner, and the      *)
(* thread it deallocates is one it took off the destroy list.              *)
CleanerInv ==
  /\ \A t \in AllThreads :
       pc[t] \in {"collect", "pop", "remove", "dealloc", "free"} => t = Cleaner
  /\ pc[Cleaner] \in {"remove", "dealloc", "free"}
       => victim \in AllThreads /\ life[victim] = "reaped"

SchedInv == TypeInv /\ CleanerInv /\ ListInv

(* Before the first step the idle threads run and the cleaner is ready. *)
LEMMA SchedInit == Init => SchedInv
<1>. SUFFICES ASSUME Init PROVE SchedInv
  OBVIOUS
<1>1. TypeInv
  BY TypeInit
<1>2. CleanerInv
  BY Names DEF Init, CleanerInv
<1>3. Len(ready) = 1 /\ ready[1] = Cleaner
  BY DEF Init
<1>4. FiledByState
  BY <1>3, Names DEF Init, FiledByState
<1>5. \A t \in AllThreads : /\ OnCpu(t) <=> t \in Cpu
                            /\ InReady(t) <=> t = Cleaner
                            /\ ~InIdle(t) /\ ~InQueue(t)
  BY <1>3, Names DEF Init, OnCpu, InReady, InIdle, InQueue
<1>6. NoDuplicates
  BY <1>3, <1>5, Names DEF Init, NoDuplicates
<1>7. OnListWhileLive
  BY <1>5, Names DEF Init, OnListWhileLive, AllThreads
<1>. QED
  BY <1>1, <1>2, <1>4, <1>6, <1>7 DEF SchedInv, ListInv

(* A step that leaves the lists, the states and the lives alone. *)
LEMMA ListStutter ==
  ASSUME ListInv, UNCHANGED <<state, ready, running, idle, queue, life>>
  PROVE  ListInv'
BY DEF ListInv, FiledByState, NoDuplicates, OnListWhileLive, OnCpu, InReady,
       InIdle, InQueue

(* Waking threads of one list keeps them on exactly one list. *)
LEMMA WakeAllList ==
  ASSUME TypeOK, ListInv, NEW q \in QueueKey, NEW S, S \subseteq queue[q],
         WakeAll(q, S), UNCHANGED <<running, idle, life>>
  PROVE  ListInv'
<1>1. S \subseteq AllThreads /\ ready \in Seq(AllThreads)
  BY DEF TypeOK
<1>2. PICK w \in Orders(S) : ready' = ready \o w
  BY DEF WakeAll
<1>3. /\ w \in Seq(AllThreads)
      /\ \A i \in 1 .. Len(w) : w[i] \in S
      /\ \A i, j \in 1 .. Len(w) : w[i] = w[j] => i = j
      /\ \A t \in S : \E i \in 1 .. Len(w) : w[i] = t
  BY <1>1, OrdersSeq
<1>4. /\ Len(ready') = Len(ready) + Len(w)
      /\ \A i \in 1 .. Len(ready) : ready'[i] = ready[i]
      /\ \A i \in 1 .. Len(w) : ready'[Len(ready) + i] = w[i]
      /\ \A i \in 1 .. Len(ready') :
           i \in 1 .. Len(ready) \/ (i - Len(ready)) \in 1 .. Len(w)
      /\ \A i \in 1 .. Len(ready') : i > Len(ready) => ready'[i] = w[i - Len(ready)]
  BY <1>1, <1>2, <1>3
<1>5. \A t \in S : state[t] = q /\ ~InReady(t) /\ ~OnCpu(t)
  BY <1>1, StateKinds DEF ListInv, FiledByState, NoDuplicates, InQueue, InReady
<1>6. \A t \in AllThreads : InReady(t)' <=> InReady(t) \/ t \in S
  <2>. DEFINE n == Len(ready)
  <2>0. n \in Nat /\ Len(w) \in Nat
    BY <1>1, <1>3
  <2>1. ASSUME NEW t \in AllThreads, InReady(t)
        PROVE  InReady(t)'
    BY <1>4, <2>0, <2>1 DEF InReady
  <2>2. ASSUME NEW t \in S
        PROVE  InReady(t)'
    <3>1. PICK i \in 1 .. Len(w) : w[i] = t
      BY <1>3
    <3>2. n + i \in 1 .. Len(ready') /\ ready'[n + i] = t
      BY <1>4, <2>0, <3>1
    <3>. QED
      BY <3>2 DEF InReady
  <2>3. ASSUME NEW t \in AllThreads, InReady(t)', t \notin S
        PROVE  InReady(t)
    <3>1. PICK i \in 1 .. Len(ready') : ready'[i] = t
      BY <2>3 DEF InReady
    <3>2. i \in 1 .. n
      <4>1. SUFFICES ASSUME i > n PROVE FALSE
        BY <1>4, <2>0, <3>1
      <4>2. i - n \in 1 .. Len(w) /\ ready'[i] = w[i - n]
        BY <1>4, <2>0, <4>1
      <4>. QED
        BY <1>3, <2>3, <3>1, <4>2
    <3>. QED
      BY <1>4, <3>1, <3>2 DEF InReady
  <2>. QED
    BY <1>1, <2>1, <2>2, <2>3
<1>7. \A t \in AllThreads : state'[t] = IF t \in S THEN Ready ELSE state[t]
  BY DEF WakeAll
<1>8. \A r \in QueueKey : queue'[r] = IF r = q THEN queue[r] \ S ELSE queue[r]
  BY DEF WakeAll, TypeOK
<1>9. \A t \in AllThreads : (InQueue(t)' <=> InQueue(t) /\ t \notin S)
                            /\ (OnCpu(t)' <=> OnCpu(t))
                            /\ (InIdle(t)' <=> InIdle(t))
  <2>1. \A t \in AllThreads : (OnCpu(t)' <=> OnCpu(t)) /\ (InIdle(t)' <=> InIdle(t))
    BY DEF OnCpu, InIdle
  <2>2. ASSUME NEW t \in S, NEW r \in QueueKey, t \in queue'[r]
        PROVE  FALSE
    <3>1. t \in queue[r] /\ r # q
      BY <1>8, <2>2
    <3>. QED
      BY <1>5, <3>1 DEF ListInv, FiledByState
  <2>3. \A t \in AllThreads : t \notin S => \A r \in QueueKey : t \in queue'[r] <=> t \in queue[r]
    BY <1>8
  <2>. QED
    BY <2>1, <2>2, <2>3 DEF InQueue
<1>10. FiledByState'
  <2>1. \A i \in 1 .. Len(ready') : state'[ready'[i]] = Ready
    BY <1>1, <1>3, <1>4, <1>7 DEF ListInv, FiledByState
  <2>2. \A c \in Cpu : \A t \in idle[c] : t \in AllThreads /\ t \notin S /\ state'[t] = Idle
    BY <1>5, <1>7, StateKinds DEF ListInv, FiledByState, TypeOK
  <2>3. ASSUME NEW r \in QueueKey, NEW t \in queue'[r]
        PROVE  state'[t] = r
    <3>1. t \in queue[r] /\ state[t] = r
      BY <1>8 DEF ListInv, FiledByState
    <3>2. t \notin S
      BY <1>5, <1>8, <3>1
    <3>3. t \in AllThreads
      BY <3>1 DEF TypeOK
    <3>. QED
      BY <1>7, <3>1, <3>2, <3>3
  <2>. QED
    BY <2>1, <2>2, <2>3 DEF FiledByState
<1>11. NoDuplicates'
  <2>1. \A i, j \in 1 .. Len(ready') : ready'[i] = ready'[j] => i = j
    <3>. SUFFICES ASSUME NEW i \in 1 .. Len(ready'), NEW j \in 1 .. Len(ready'),
                         ready'[i] = ready'[j]
                  PROVE  i = j
      OBVIOUS
    <3>1. CASE i <= Len(ready) /\ j <= Len(ready)
      BY <1>1, <1>4, <3>1 DEF ListInv, NoDuplicates
    <3>2. ASSUME NEW a \in 1 .. Len(ready'), NEW b \in 1 .. Len(ready'),
                 ready'[a] = ready'[b], a <= Len(ready), b > Len(ready)
          PROVE  FALSE
      <4>0. Len(ready) \in Nat /\ Len(w) \in Nat
        BY <1>1, <1>3
      <4>1. a \in 1 .. Len(ready)
        BY <1>4, <3>2, <4>0
      <4>2. ready'[a] = ready[a]
        BY <1>4, <4>1
      <4>3. InReady(ready'[a])
        BY <4>1, <4>2 DEF InReady
      <4>4. b - Len(ready) \in 1 .. Len(w) /\ ready'[b] = w[b - Len(ready)]
        BY <1>4, <3>2, <4>0
      <4>5. ready'[b] \in S
        BY <1>3, <4>4
      <4>. QED
        BY <1>5, <3>2, <4>3, <4>5
    <3>4. CASE i > Len(ready) /\ j > Len(ready)
      <4>1. /\ i - Len(ready) \in 1 .. Len(w) /\ ready'[i] = w[i - Len(ready)]
            /\ j - Len(ready) \in 1 .. Len(w) /\ ready'[j] = w[j - Len(ready)]
        BY <1>1, <1>3, <1>4, <3>4
      <4>2. i - Len(ready) = j - Len(ready)
        BY <1>3, <4>1
      <4>. QED
        BY <1>1, <4>2
    <3>. QED
      BY <1>1, <3>1, <3>2, <3>4
  <2>2. \A t \in AllThreads : OnCpu(t)' => ~(InReady(t)' \/ InIdle(t)' \/ InQueue(t)')
    BY <1>5, <1>6, <1>9 DEF ListInv, NoDuplicates
  <2>. QED
    BY <2>1, <2>2 DEF ListInv, NoDuplicates
<1>12. OnListWhileLive'
  BY <1>1, <1>6, <1>9 DEF ListInv, OnListWhileLive, InQueue
<1>. QED
  BY <1>10, <1>11, <1>12 DEF ListInv

(* schedule() moves the threads it touches from one list to one other.     *)
LEMMA SwitchList ==
  ASSUME TypeOK, ListInv, NEW c \in Cpu, NEW new \in AllThreads,
         NEW rest \in Seq(AllThreads), NEW doomed \in SUBSET AllThreads,
         NEW pool \in [Cpu -> SUBSET AllThreads],
         FileAndSwitch(c, new, rest, doomed, pool),
         \A i, j \in 1 .. Len(rest) : rest[i] = rest[j] => i = j,
         \A t \in AllThreads : (\E i \in 1 .. Len(rest) : rest[i] = t)
                                <=> InReady(t) /\ t \notin doomed /\ t # new,
         \A t \in doomed : InReady(t) /\ t # new,
         InReady(new) \/ InIdle(new),
         \A d \in Cpu : pool[d] = idle[d] \ {new}
  PROVE  ListInv'
<1>. DEFINE old == running[c]
            filed == FiledState(old)
            InRest(t) == \E i \in 1 .. Len(rest) : rest[i] = t
<1>1. old \in AllThreads /\ filed \in {Ready, Idle} \cup QueueKey /\ Len(rest) \in Nat
  BY StateKinds DEF TypeOK, FiledState, DefaultState
<1>2. ~InReady(old) /\ ~InIdle(old) /\ ~InQueue(old) /\ OnCpu(old)
  BY <1>1 DEF ListInv, NoDuplicates, OnCpu
<1>3. new # old /\ old \notin doomed /\ ~InRest(old) /\ ~OnCpu(new)
  BY <1>1, <1>2 DEF ListInv, NoDuplicates
<1>4. /\ \A t \in AllThreads : InReady(t) => state[t] = Ready
      /\ \A t \in AllThreads : InIdle(t) => state[t] = Idle
      /\ \A q \in QueueKey : \A t \in queue[q] : t \in AllThreads /\ state[t] = q
  BY DEF ListInv, FiledByState, InReady, InIdle, TypeOK
<1>5. ~InQueue(new) /\ \A t \in doomed : ~InQueue(t) /\ ~InIdle(t) /\ ~OnCpu(t)
  BY <1>4, StateKinds DEF InQueue, ListInv, NoDuplicates
(* The lists after the step. *)
<1>6. \A t \in AllThreads : state'[t] = IF t = new THEN Running
                                        ELSE IF t = old THEN filed
                                        ELSE IF t \in doomed THEN Destroy
                                        ELSE state[t]
  BY DEF FileAndSwitch
<1>7. ready' = IF filed = Ready THEN Append(rest, old) ELSE rest
  BY DEF FileAndSwitch, PushReady
<1>8. \A d \in Cpu : idle'[d] = (idle[d] \ {new})
                                \cup (IF d = c /\ filed = Idle THEN {old} ELSE {})
  BY DEF FileAndSwitch
<1>9. \A q \in QueueKey : queue'[q] = queue[q] \cup (IF q = Destroy THEN doomed ELSE {})
                                              \cup (IF q = filed THEN {old} ELSE {})
  BY DEF FileAndSwitch
<1>10. \A d \in Cpu : running'[d] = IF d = c THEN new ELSE running[d]
  BY DEF FileAndSwitch, TypeOK
<1>11. UNCHANGED life
  BY DEF FileAndSwitch
(* Who is on which list after the step. *)
<1>12. \A t \in AllThreads : OnCpu(t)' <=> t = new \/ (OnCpu(t) /\ t # old)
  BY <1>10 DEF OnCpu, ListInv, NoDuplicates
<1>13. \A t \in AllThreads : InReady(t)' <=> InRest(t) \/ (t = old /\ filed = Ready)
  <2>1. CASE filed = Ready
    <3>1. /\ Len(ready') = Len(rest) + 1
          /\ \A i \in 1 .. Len(rest) : ready'[i] = rest[i]
          /\ ready'[Len(rest) + 1] = old
      BY <1>1, <1>7, <2>1
    <3>. QED
      BY <1>1, <2>1, <3>1 DEF InReady
  <2>2. CASE filed # Ready
    BY <1>7, <2>2 DEF InReady
  <2>. QED
    BY <2>1, <2>2
<1>14. \A t \in AllThreads : InIdle(t)' <=> (InIdle(t) /\ t # new) \/ (t = old /\ filed = Idle)
  BY <1>8 DEF InIdle
<1>15. \A t \in AllThreads : InQueue(t)' <=> InQueue(t) \/ t \in doomed \/ (t = old /\ filed \in QueueKey)
  BY <1>9, StateKinds DEF InQueue
<1>16. FiledByState'
  <2>1. \A i \in 1 .. Len(ready') : state'[ready'[i]] = Ready
    <3>1. \A i \in 1 .. Len(ready') : ready'[i] \in AllThreads
      BY <1>1, <1>7
    <3>2. \A t \in AllThreads : InReady(t)' => state'[t] = Ready
      BY <1>3, <1>4, <1>6, <1>13
    <3>. QED
      BY <3>1, <3>2 DEF InReady
  <2>2. \A d \in Cpu : \A t \in idle'[d] : state'[t] = Idle
    <3>. SUFFICES ASSUME NEW d \in Cpu, NEW t \in idle'[d] PROVE state'[t] = Idle
      OBVIOUS
    <3>1. t \in AllThreads
      BY <1>1, <1>8 DEF TypeOK
    <3>2. CASE t = old /\ filed = Idle
      BY <1>3, <1>6, <3>1, <3>2
    <3>3. CASE t \in idle[d] /\ t # new
      <4>1. InIdle(t)
        BY <3>3 DEF InIdle
      <4>2. t # old /\ t \notin doomed
        BY <1>2, <1>5, <4>1
      <4>. QED
        BY <1>4, <1>6, <3>1, <3>3, <4>1, <4>2
    <3>. QED
      BY <1>8, <3>2, <3>3
  <2>3. \A q \in QueueKey : \A t \in queue'[q] : state'[t] = q
    <3>. SUFFICES ASSUME NEW q \in QueueKey, NEW t \in queue'[q] PROVE state'[t] = q
      OBVIOUS
    <3>1. CASE t = old /\ q = filed
      BY <1>1, <1>3, <1>6, <3>1
    <3>2. CASE t \in doomed /\ q = Destroy
      BY <1>3, <1>6, <3>2
    <3>3. CASE t \in queue[q]
      <4>1. InQueue(t) /\ t \in AllThreads /\ state[t] = q
        BY <1>4, <3>3 DEF InQueue
      <4>2. t # new /\ t # old /\ t \notin doomed
        BY <1>2, <1>5, <4>1
      <4>. QED
        BY <1>6, <4>1, <4>2
    <3>. QED
      BY <1>9, <3>1, <3>2, <3>3
  <2>. QED
    BY <2>1, <2>2, <2>3 DEF FiledByState
<1>17. NoDuplicates'
  <2>1. \A i, j \in 1 .. Len(ready') : ready'[i] = ready'[j] => i = j
    <3>1. CASE filed = Ready
      <4>1. /\ Len(ready') = Len(rest) + 1
            /\ \A i \in 1 .. Len(rest) : ready'[i] = rest[i]
            /\ ready'[Len(rest) + 1] = old
        BY <1>1, <1>7, <3>1
      <4>2. \A i \in 1 .. Len(ready') : i \in 1 .. Len(rest) \/ i = Len(rest) + 1
        BY <1>1, <4>1
      <4>. QED
        BY <1>3, <4>1, <4>2
    <3>2. CASE filed # Ready
      BY <1>7, <3>2
    <3>. QED
      BY <3>1, <3>2
  <2>2. \A d, e \in Cpu : running'[d] = running'[e] => d = e
    BY <1>3, <1>10 DEF ListInv, NoDuplicates, OnCpu
  <2>3. \A d, e \in Cpu : d # e => idle'[d] \cap idle'[e] = {}
    <3>1. \A d \in Cpu : old \notin idle[d]
      BY <1>2 DEF InIdle
    <3>. QED
      BY <1>8, <3>1 DEF ListInv, NoDuplicates
  <2>4. \A t \in AllThreads : OnCpu(t)' => ~(InReady(t)' \/ InIdle(t)' \/ InQueue(t)')
    <3>. SUFFICES ASSUME NEW t \in AllThreads, OnCpu(t)'
                  PROVE  ~InReady(t)' /\ ~InIdle(t)' /\ ~InQueue(t)'
      OBVIOUS
    <3>1. CASE t = new
      BY <1>3, <1>5, <1>13, <1>14, <1>15, <3>1
    <3>2. CASE t # new /\ OnCpu(t) /\ t # old
      <4>1. ~InReady(t) /\ ~InIdle(t) /\ ~InQueue(t)
        BY <3>2 DEF ListInv, NoDuplicates
      <4>. QED
        BY <1>13, <1>14, <1>15, <3>2, <4>1
    <3>. QED
      BY <1>12, <3>1, <3>2
  <2>. QED
    BY <2>1, <2>2, <2>3, <2>4 DEF NoDuplicates
<1>18. OnListWhileLive'
  <2>. SUFFICES ASSUME NEW t \in AllThreads
                PROVE  OnCpu(t)' \/ InReady(t)' \/ InIdle(t)' \/ InQueue(t)'
                         <=> OnCpu(t) \/ InReady(t) \/ InIdle(t) \/ InQueue(t)
    BY <1>11 DEF ListInv, OnListWhileLive
  <2>1. CASE t = new
    BY <1>12, <2>1
  <2>2. CASE t = old
    BY <1>1, <1>2, <1>13, <1>14, <1>15, <2>2
  <2>3. CASE t \in doomed
    BY <1>15, <2>3
  <2>4. CASE t # new /\ t # old /\ t \notin doomed
    BY <1>12, <1>13, <1>14, <1>15, <2>4
  <2>. QED
    BY <2>1, <2>2, <2>3, <2>4
<1>. QED
  BY <1>16, <1>17, <1>18 DEF ListInv

(* schedule() keeps the lists, whether it switches, panics or stays. *)
LEMMA ScheduleList ==
  ASSUME TypeOK, ListInv, NEW c \in Cpu, Schedule(c)
  PROVE  ListInv'
<1>1. PICK k \in 0 .. Len(ready) :
        LET doomed == {ready[i] : i \in 1 .. k} IN
        \/ /\ k < Len(ready)
           /\ SwitchTo(c, ready[k + 1], SubSeq(ready, k + 2, Len(ready)),
                       doomed, idle)
        \/ /\ k = Len(ready)
           /\ \E new \in idle[c] :
                SwitchTo(c, new, <<>>, doomed, [idle EXCEPT ![c] = @ \ {new}])
        \/ /\ k = Len(ready)
           /\ Stay(c, doomed)
  BY DEF Schedule
<1>. DEFINE doomed == {ready[i] : i \in 1 .. k}
<1>2. /\ ready \in Seq(AllThreads) /\ doomed \in SUBSET AllThreads
      /\ Len(ready) \in Nat /\ k \in Nat /\ k <= Len(ready)
  BY DEF TypeOK
<1>3. \A i, j \in 1 .. Len(ready) : ready[i] = ready[j] => i = j
  BY DEF ListInv, NoDuplicates
<1>4. \A t \in doomed : InReady(t)
  BY <1>2 DEF InReady
<1>5. ASSUME UNCHANGED <<state, lists, life, code, cpus, procs>>
      PROVE  ListInv'
  BY <1>5, ListStutter DEF lists
<1>6. CASE k < Len(ready) /\ SwitchTo(c, ready[k + 1],
                               SubSeq(ready, k + 2, Len(ready)), doomed, idle)
  <2>. DEFINE new == ready[k + 1]
              rest == SubSeq(ready, k + 2, Len(ready))
              n == Len(ready) - (k + 1)
  <2>1. /\ n \in Nat /\ new \in AllThreads /\ rest \in Seq(AllThreads)
        /\ Len(rest) = n /\ \A i \in 1 .. n : rest[i] = ready[i + (k + 1)]
    BY <1>2, <1>6
  <2>2. InReady(new) /\ \A t \in doomed : t # new
    BY <1>2, <1>3, <1>6 DEF InReady
  <2>3. \A i, j \in 1 .. Len(rest) : rest[i] = rest[j] => i = j
    <3>. SUFFICES ASSUME NEW i \in 1 .. n, NEW j \in 1 .. n, rest[i] = rest[j]
                  PROVE  i = j
      BY <2>1
    <3>1. i + (k + 1) \in 1 .. Len(ready) /\ j + (k + 1) \in 1 .. Len(ready)
      BY <1>2, <2>1
    <3>2. i + (k + 1) = j + (k + 1)
      BY <1>3, <2>1, <3>1
    <3>. QED
      BY <1>2, <3>2
  <2>4. ASSUME NEW t \in AllThreads
        PROVE  (\E i \in 1 .. Len(rest) : rest[i] = t)
                 <=> InReady(t) /\ t \notin doomed /\ t # new
    <3>1. ASSUME NEW i \in 1 .. n, rest[i] = t
          PROVE  InReady(t) /\ t \notin doomed /\ t # new
      <4>1. i + (k + 1) \in 1 .. Len(ready) /\ ready[i + (k + 1)] = t
        BY <1>2, <2>1, <3>1
      <4>2. \A j \in 1 .. k + 1 : ready[j] # t
        BY <1>2, <1>3, <1>6, <4>1
      <4>. QED
        BY <1>2, <4>1, <4>2 DEF InReady
    <3>2. ASSUME InReady(t), t \notin doomed, t # new
          PROVE  \E i \in 1 .. Len(rest) : rest[i] = t
      <4>1. PICK j \in 1 .. Len(ready) : ready[j] = t
        BY <3>2 DEF InReady
      <4>2. j > k + 1
        BY <1>2, <3>2, <4>1
      <4>3. j - (k + 1) \in 1 .. n /\ rest[j - (k + 1)] = t
        BY <1>2, <2>1, <4>1, <4>2
      <4>. QED
        BY <2>1, <4>3
    <3>. QED
      BY <2>1, <3>1, <3>2
  <2>5. \A d \in Cpu : idle[d] = idle[d] \ {new}
    BY <2>1, <2>2, StateKinds DEF ListInv, FiledByState, InReady
  <2>6. idle \in [Cpu -> SUBSET AllThreads]
    BY DEF TypeOK
  <2>7. CASE FileAndSwitch(c, new, rest, doomed, idle)
    <3>1. \A t \in doomed : InReady(t) /\ t # new
      BY <1>4, <2>2
    <3>2. \A t \in AllThreads : (\E i \in 1 .. Len(rest) : rest[i] = t)
                                 <=> InReady(t) /\ t \notin doomed /\ t # new
      BY <2>4
    <3>3. doomed \in SUBSET AllThreads /\ new \in AllThreads /\ rest \in Seq(AllThreads)
      BY <1>2, <2>1
    <3>4. InReady(new) \/ InIdle(new)
      BY <2>2
    <3>. HIDE DEF doomed, new, rest
    <3>. QED
      BY <2>3, <2>5, <2>6, <2>7, <3>1, <3>2, <3>3, <3>4, SwitchList
  <2>. QED
    BY <1>5, <1>6, <2>7 DEF SwitchTo
<1>7. CASE k = Len(ready) /\ \E new \in idle[c] :
             SwitchTo(c, new, <<>>, doomed, [idle EXCEPT ![c] = @ \ {new}])
  <2>1. PICK new \in idle[c] :
             SwitchTo(c, new, <<>>, doomed, [idle EXCEPT ![c] = @ \ {new}])
    BY <1>7
  <2>. DEFINE pool == [idle EXCEPT ![c] = @ \ {new}]
              none == <<>>
  <2>2. new \in AllThreads /\ pool \in [Cpu -> SUBSET AllThreads] /\ InIdle(new)
    BY DEF TypeOK, InIdle
  <2>3. none \in Seq(AllThreads) /\ Len(none) = 0
    OBVIOUS
  <2>4. \A t \in AllThreads : InReady(t) => t \in doomed
    BY <1>2, <1>7 DEF InReady
  <2>5. ~InReady(new)
    BY <2>2, StateKinds DEF ListInv, FiledByState, InReady, InIdle
  <2>6. \A d \in Cpu : pool[d] = idle[d] \ {new}
    BY DEF TypeOK, ListInv, NoDuplicates
  <2>7. \A t \in AllThreads : (\E i \in 1 .. Len(none) : none[i] = t)
                               <=> InReady(t) /\ t \notin doomed /\ t # new
    BY <2>3, <2>4
  <2>8. \A i, j \in 1 .. Len(none) : none[i] = none[j] => i = j
    BY <2>3
  <2>9. CASE FileAndSwitch(c, new, none, doomed, pool)
    <3>1. \A t \in doomed : InReady(t) /\ t # new
      BY <1>4, <2>5
    <3>2. InReady(new) \/ InIdle(new)
      BY <2>2
    <3>3. doomed \in SUBSET AllThreads /\ new \in AllThreads /\ none \in Seq(AllThreads)
          /\ pool \in [Cpu -> SUBSET AllThreads]
      BY <1>2, <2>2, <2>3
    <3>. HIDE DEF doomed, pool, none
    <3>. QED
      BY <2>6, <2>7, <2>8, <2>9, <3>1, <3>2, <3>3, SwitchList
  <2>. QED
    BY <1>5, <2>1, <2>9 DEF SwitchTo
<1>8. CASE k = Len(ready) /\ Stay(c, doomed)
  <2>1. /\ \A t \in AllThreads : state'[t] = IF t \in doomed THEN Destroy ELSE state[t]
        /\ ready' = <<>> /\ UNCHANGED <<running, idle, life>>
        /\ \A q \in QueueKey : queue'[q] = IF q = Destroy THEN queue[q] \cup doomed ELSE queue[q]
    BY <1>8, StateKinds DEF Stay, TypeOK
  <2>2. \A t \in AllThreads : t \in doomed <=> InReady(t)
    BY <1>2, <1>8 DEF InReady
  <2>3. \A t \in AllThreads : ~InReady(t)'
    BY <2>1 DEF InReady
  <2>4. \A t \in AllThreads : (OnCpu(t)' <=> OnCpu(t)) /\ (InIdle(t)' <=> InIdle(t))
    BY <2>1 DEF OnCpu, InIdle
  <2>5. \A t \in AllThreads : InQueue(t)' <=> InQueue(t) \/ InReady(t)
    BY <2>1, <2>2, StateKinds DEF InQueue
  <2>6. \A t \in AllThreads : InReady(t) => state[t] = Ready
    BY DEF ListInv, FiledByState, InReady
  <2>7. FiledByState'
    <3>1. \A i \in 1 .. Len(ready') : state'[ready'[i]] = Ready
      BY <2>1
    <3>2. \A d \in Cpu : \A t \in idle'[d] : state'[t] = Idle
      BY <2>1, <2>2, <2>6, StateKinds DEF ListInv, FiledByState, TypeOK
    <3>3. ASSUME NEW q \in QueueKey, NEW t \in queue'[q]
          PROVE  state'[t] = q
      <4>1. CASE t \in queue[q]
        <5>1. t \in AllThreads /\ state[t] = q
          BY <4>1 DEF ListInv, FiledByState, TypeOK
        <5>2. t \notin doomed
          BY <2>2, <2>6, <5>1, StateKinds
        <5>. QED
          BY <2>1, <5>1, <5>2
      <4>2. CASE t \in doomed /\ q = Destroy
        BY <1>2, <2>1, <4>2
      <4>. QED
        BY <2>1, <3>3, <4>1, <4>2
    <3>. QED
      BY <3>1, <3>2, <3>3 DEF FiledByState
  <2>8. NoDuplicates'
    BY <2>1, <2>3, <2>4, <2>5 DEF ListInv, NoDuplicates
  <2>9. OnListWhileLive'
    BY <2>1, <2>3, <2>4, <2>5 DEF ListInv, OnListWhileLive
  <2>. QED
    BY <2>7, <2>8, <2>9 DEF ListInv
<1>. QED
  BY <1>1, <1>6, <1>7, <1>8

(* A new thread is on no list before new_thread pushes it. *)
LEMMA NewThreadList ==
  ASSUME TypeOK, ListInv, NEW c \in Cpu, NEW u \in Thread, NewThread(c, u)
  PROVE  ListInv'
<1>1. u \in AllThreads /\ ready \in Seq(AllThreads) /\ Len(ready) \in Nat
  BY Names DEF TypeOK
<1>2. ~OnCpu(u) /\ ~InReady(u) /\ ~InIdle(u) /\ ~InQueue(u)
  BY <1>1 DEF NewThread, ListInv, OnListWhileLive
<1>3. /\ ready' = Append(ready, u) /\ UNCHANGED <<running, idle, queue>>
      /\ \A t \in AllThreads : state'[t] = IF t = u THEN Ready ELSE state[t]
      /\ \A t \in AllThreads : life'[t] = IF t = u THEN "live" ELSE life[t]
  BY DEF NewThread, TypeOK
<1>4. /\ Len(ready') = Len(ready) + 1
      /\ \A i \in 1 .. Len(ready) : ready'[i] = ready[i] /\ ready[i] \in AllThreads
      /\ ready'[Len(ready) + 1] = u
      /\ \A i \in 1 .. Len(ready') : i \in 1 .. Len(ready) \/ i = Len(ready) + 1
  BY <1>1, <1>3
<1>5. \A t \in AllThreads : InReady(t)' <=> InReady(t) \/ t = u
  BY <1>1, <1>4 DEF InReady
<1>6. \A t \in AllThreads : /\ OnCpu(t)' <=> OnCpu(t)
                            /\ InIdle(t)' <=> InIdle(t)
                            /\ InQueue(t)' <=> InQueue(t)
  BY <1>3 DEF OnCpu, InIdle, InQueue
<1>7. FiledByState'
  <2>1. \A i \in 1 .. Len(ready') : state'[ready'[i]] = Ready
    BY <1>1, <1>3, <1>4 DEF ListInv, FiledByState
  <2>2. \A d \in Cpu : \A t \in idle'[d] : state'[t] = Idle
    BY <1>2, <1>3 DEF ListInv, FiledByState, InIdle, TypeOK
  <2>3. \A q \in QueueKey : \A t \in queue'[q] : state'[t] = q
    BY <1>2, <1>3 DEF ListInv, FiledByState, InQueue, TypeOK
  <2>. QED
    BY <2>1, <2>2, <2>3 DEF FiledByState
<1>8. NoDuplicates'
  <2>1. \A i, j \in 1 .. Len(ready') : ready'[i] = ready'[j] => i = j
    BY <1>2, <1>4 DEF ListInv, NoDuplicates, InReady
  <2>. QED
    BY <1>2, <1>3, <1>5, <1>6, <2>1 DEF ListInv, NoDuplicates
<1>9. OnListWhileLive'
  BY <1>3, <1>5, <1>6 DEF ListInv, OnListWhileLive
<1>. QED
  BY <1>7, <1>8, <1>9 DEF ListInv

(* set_state changes the state of a thread that is on a running list only. *)
LEMMA SetStateList ==
  ASSUME TypeOK, ListInv, NEW c \in Cpu, SetState(c)
  PROVE  ListInv'
<1>1. running[c] \in AllThreads /\ OnCpu(running[c])
  BY DEF TypeOK, OnCpu
<1>2. ~InReady(running[c]) /\ ~InIdle(running[c]) /\ ~InQueue(running[c])
  BY <1>1 DEF ListInv, NoDuplicates
<1>3. /\ UNCHANGED <<ready, running, idle, queue, life>>
      /\ \A t \in AllThreads : t # running[c] => state'[t] = state[t]
  BY DEF SetState, TypeOK, lists
<1>4. FiledByState'
  <2>1. \A i \in 1 .. Len(ready) : ready[i] \in AllThreads /\ ready[i] # running[c]
    BY <1>2 DEF InReady, TypeOK
  <2>2. \A d \in Cpu : \A t \in idle[d] : t \in AllThreads /\ t # running[c]
    BY <1>2 DEF InIdle, TypeOK
  <2>3. \A q \in QueueKey : \A t \in queue[q] : t \in AllThreads /\ t # running[c]
    BY <1>2 DEF InQueue, TypeOK
  <2>. QED
    BY <1>3, <2>1, <2>2, <2>3 DEF ListInv, FiledByState
<1>5. NoDuplicates' /\ OnListWhileLive'
  BY <1>3 DEF ListInv, NoDuplicates, OnListWhileLive, OnCpu, InReady, InIdle, InQueue
<1>. QED
  BY <1>4, <1>5 DEF ListInv

(* The cleaner takes over the threads of the destroy list. *)
LEMMA CollectList ==
  ASSUME TypeOK, ListInv, NEW c \in Cpu, Collect(c)
  PROVE  ListInv'
<1>. DEFINE D == queue[Destroy]
<1>1. D \subseteq AllThreads
  BY StateKinds DEF TypeOK
<1>2. /\ UNCHANGED <<state, ready, running, idle>>
      /\ \A q \in QueueKey : queue'[q] = IF q = Destroy THEN {} ELSE queue[q]
      /\ \A t \in AllThreads : life'[t] = IF t \in D THEN "reaped" ELSE life[t]
  BY StateKinds DEF Collect, TypeOK
<1>3. \A t \in D : InQueue(t) /\ state[t] = Destroy
  BY StateKinds DEF InQueue, ListInv, FiledByState
<1>4. \A t \in D : ~OnCpu(t) /\ ~InReady(t) /\ ~InIdle(t)
  BY <1>1, <1>3, StateKinds DEF ListInv, NoDuplicates, FiledByState, InReady, InIdle
<1>5. \A t \in AllThreads : /\ OnCpu(t)' <=> OnCpu(t)
                            /\ InIdle(t)' <=> InIdle(t)
                            /\ InReady(t)' <=> InReady(t)
  BY <1>2 DEF OnCpu, InIdle, InReady
<1>6. \A t \in AllThreads : InQueue(t)' <=> InQueue(t) /\ t \notin D
  <2>1. \A q \in QueueKey : \A t \in queue[q] : q # Destroy => t \notin D
    BY <1>3 DEF ListInv, FiledByState
  <2>. QED
    BY <1>2, <2>1, StateKinds DEF InQueue
<1>7. FiledByState'
  BY <1>2 DEF ListInv, FiledByState
<1>8. NoDuplicates'
  BY <1>2, <1>5, <1>6 DEF ListInv, NoDuplicates
<1>9. OnListWhileLive'
  BY <1>2, <1>4, <1>5, <1>6 DEF ListInv, OnListWhileLive
<1>. QED
  BY <1>7, <1>8, <1>9 DEF ListInv

(* The thread that is freed was on no list. *)
LEMMA FreeThreadList ==
  ASSUME TypeOK, ListInv, CleanerInv, NEW c \in Cpu, FreeThread(c)
  PROVE  ListInv'
<1>1. pc[Cleaner] = "free"
  BY DEF FreeThread, At, CleanerInv, TypeOK
<1>2. victim \in AllThreads /\ life[victim] = "reaped"
  BY <1>1 DEF CleanerInv
<1>3. /\ UNCHANGED <<state, ready, running, idle, queue>>
      /\ \A t \in AllThreads : life'[t] = IF t = victim THEN "freed" ELSE life[t]
  BY <1>2 DEF FreeThread, TypeOK, lists
<1>. QED
  BY <1>2, <1>3 DEF ListInv, FiledByState, NoDuplicates, OnListWhileLive, OnCpu,
     InReady, InIdle, InQueue

(* Every step keeps the lists, given the types and the cleaner's victim. *)
LEMMA ListNext ==
  ASSUME SchedInv, [Next]_vars
  PROVE  ListInv'
<1>. USE DEF SchedInv, TypeInv
<1>1. CASE UNCHANGED vars
  BY <1>1, ListStutter DEF vars, lists
<1>2. ASSUME NEW c \in Cpu, Call(c)
      PROVE  ListInv'
  <2>1. ASSUME NEW s \in QueueKey, BlockCall(c, s)
        PROVE  ListInv'
    BY <2>1, ListStutter DEF BlockCall, lists
  <2>2. ASSUME NEW p \in Killable, Terminate(c, p)
        PROVE  ListInv'
    BY <2>2, ListStutter DEF Terminate, lists
  <2>3. CASE ProcCPanic(c)
    BY <2>3, ListStutter DEF ProcCPanic, lists
  <2>. QED
    BY <1>2, <2>1, <2>2, <2>3, NewThreadList DEF Call
<1>3. ASSUME NEW c \in Cpu, CodeStep(c)
      PROVE  ListInv'
  <2>1. CASE EnsureCheck(c) \/ EnsureInsert(c) \/ IntSched(c) \/ Pop(c)
    BY <2>1, ListStutter DEF EnsureCheck, EnsureInsert, IntSched, Pop, lists
  <2>2. CASE DeallocState(c) \/ SetDead(c) \/ IterClear(c) \/ SendIpi(c)
    BY <2>2, ListStutter DEF DeallocState, SetDead, IterClear, SendIpi, lists
  <2>3. CASE RemoveThread(c)
    <3>1. CASE Join(victim) \in nodes /\ WakeAll(Join(victim), queue[Join(victim)])
      BY <2>3, <3>1, WakeAllList, StateKinds DEF RemoveThread, TypeOK
    <3>2. CASE UNCHANGED <<state, ready, queue>>
      BY <2>3, <3>2, ListStutter DEF RemoveThread
    <3>. QED
      BY <2>3, <3>1, <3>2 DEF RemoveThread
  <2>. QED
    BY <1>3, <2>1, <2>2, <2>3, SetStateList, CollectList, FreeThreadList DEF CodeStep
<1>4. ASSUME NEW c \in Cpu, Interrupt(c) \/ Iret(c)
      PROVE  ListInv'
  <2>1. ASSUME NEW due, NEW expired, TimeHandler(c, due, expired)
        PROVE  ListInv'
    <3>1. /\ due \subseteq queue[Sleep] /\ WakeAll(Sleep, due)
          /\ UNCHANGED <<running, idle, life>>
      BY <2>1 DEF TimeHandler, DueSets
    <3>. QED
      BY <3>1, StateKinds, WakeAllList
  <2>2. CASE IpiHandler(c)
    BY <2>2, ListStutter DEF IpiHandler, lists
  <2>3. CASE Iret(c)
    BY <2>3, ListStutter DEF Iret, lists
  <2>. QED
    BY <1>4, <2>1, <2>2, <2>3 DEF Interrupt
<1>. QED
  BY <1>1, <1>2, <1>3, <1>4, ScheduleList DEF Next, Halted

-----------------------------------------------------------------------------
(* The cleaner.                                                            *)

(* A step of thread t to label l that leaves reaped threads reaped. *)
LEMMA CleanerGoto ==
  ASSUME TypeOK, CleanerInv, NEW t \in AllThreads, NEW l,
         pc' = [pc EXCEPT ![t] = l], UNCHANGED victim,
         \A v \in AllThreads : life[v] = "reaped" => life'[v] = "reaped",
         l \in {"collect", "pop", "remove", "dealloc", "free"} => t = Cleaner,
         l \in {"remove", "dealloc", "free"}
           => pc[Cleaner] \in {"remove", "dealloc", "free"}
  PROVE  CleanerInv'
<1>1. \A u \in AllThreads : pc'[u] = IF u = t THEN l ELSE pc[u]
  BY DEF TypeOK
<1>. QED
  BY <1>1, Names DEF CleanerInv

(* A step that leaves the cleaner's code and the reaped threads alone. *)
LEMMA CleanerStutter ==
  ASSUME CleanerInv, UNCHANGED <<pc, victim>>,
         \A v \in AllThreads : life[v] = "reaped" => life'[v] = "reaped"
  PROVE  CleanerInv'
BY DEF CleanerInv

(* Returning from an int 128 does not disturb the cleaner's victim. *)
LEMMA ResumeCleaner ==
  ASSUME TypeOK, CleanerInv, NEW t \in AllThreads, Resume(t),
         UNCHANGED <<victim, life>>
  PROVE  CleanerInv'
<1>1. CASE pc[t] = "ret"
  <2>1. pc' = [pc EXCEPT ![t] = AfterInt(t)]
    BY <1>1 DEF Resume, Goto
  <2>2. AfterInt(t) \in {"run", "collect"} /\ (AfterInt(t) = "collect" => t = Cleaner)
    BY DEF AfterInt
  <2>. QED
    BY <2>1, <2>2, CleanerGoto
<1>2. CASE pc[t] # "ret"
  BY <1>2, CleanerStutter DEF Resume
<1>. QED
  BY <1>1, <1>2

(* The victim of the cleaner is a reaped thread until it is freed. *)
LEMMA CleanerCode ==
  ASSUME TypeOK, CleanerInv, NEW c \in Cpu, CodeStep(c)
  PROVE  CleanerInv'
<1>. DEFINE t == running[c]
<1>0. t \in AllThreads
  BY DEF TypeOK
<1>1. CASE EnsureCheck(c) \/ EnsureInsert(c) \/ SetState(c) \/ IntSched(c) \/ SetDead(c) \/ IterClear(c)
  <2>1. UNCHANGED <<victim, life>>
    BY <1>1 DEF EnsureCheck, EnsureInsert, SetState, IntSched, SetDead, IterClear
  <2>2. \E l \in {"insert", "set", "int", "ret", "mark", "iter"} : pc' = [pc EXCEPT ![t] = l]
    BY <1>1 DEF EnsureCheck, EnsureInsert, SetState, IntSched, SetDead, IterClear, Goto
  <2>. QED
    BY <1>0, <2>1, <2>2, CleanerGoto
<1>2. CASE SendIpi(c)
  <2>1. UNCHANGED <<victim, life>>
    BY <1>2 DEF SendIpi
  <2>2. UNCHANGED pc \/ pc' = [pc EXCEPT ![t] = "int"] \/ pc' = [pc EXCEPT ![t] = "run"]
    BY <1>2 DEF SendIpi, Goto
  <2>. QED
    BY <1>0, <2>1, <2>2, CleanerGoto, CleanerStutter
<1>3. CASE Collect(c)
  <2>1. pc[t] = "collect" /\ pc' = [pc EXCEPT ![t] = "pop"] /\ UNCHANGED victim
    BY <1>3 DEF Collect, At, Goto
  <2>2. \A v \in AllThreads : life[v] = "reaped" => life'[v] = "reaped"
    BY <1>3 DEF Collect
  <2>3. t = Cleaner
    BY <1>0, <2>1 DEF CleanerInv
  <2>. QED
    BY <1>0, <2>1, <2>2, <2>3, CleanerGoto
<1>4. CASE Pop(c)
  <2>1. pc[t] = "pop" /\ UNCHANGED life
    BY <1>4 DEF Pop, At
  <2>2. t = Cleaner
    BY <1>0, <2>1 DEF CleanerInv
  <2>3. CASE victim' \in Reaped /\ \E l \in {"remove", "free"} : pc' = [pc EXCEPT ![t] = l]
    <3>1. victim' \in AllThreads /\ life'[victim'] = "reaped"
      BY <2>1, <2>3 DEF Reaped
    <3>2. \A u \in AllThreads : u # t => pc'[u] = pc[u]
      BY <2>3 DEF TypeOK
    <3>. QED
      BY <2>2, <3>1, <3>2 DEF CleanerInv
  <2>4. CASE UNCHANGED victim /\ pc' = [pc EXCEPT ![t] = "ensure"]
    BY <1>0, <2>1, <2>4, CleanerGoto
  <2>. QED
    BY <1>4, <2>3, <2>4 DEF Pop, Goto
<1>5. CASE RemoveThread(c) \/ DeallocState(c)
  <2>1. pc[t] \in {"remove", "dealloc"} /\ UNCHANGED <<victim, life>>
    BY <1>5 DEF RemoveThread, DeallocState, At
  <2>2. t = Cleaner
    BY <1>0, <2>1 DEF CleanerInv
  <2>3. \E l \in {"dealloc", "free"} : pc' = [pc EXCEPT ![t] = l]
    BY <1>5 DEF RemoveThread, DeallocState, Goto
  <2>. QED
    BY <1>0, <2>1, <2>2, <2>3, CleanerGoto
<1>6. CASE FreeThread(c)
  <2>1. pc[t] = "free" /\ pc' = [pc EXCEPT ![t] = "pop"]
    BY <1>6 DEF FreeThread, At, Goto
  <2>2. t = Cleaner
    BY <1>0, <2>1 DEF CleanerInv
  <2>3. \A u \in AllThreads : pc'[u] = IF u = Cleaner THEN "pop" ELSE pc[u]
    BY <2>1, <2>2 DEF TypeOK
  <2>. QED
    BY <2>3, Names DEF CleanerInv
<1>. QED
  BY <1>1, <1>2, <1>3, <1>4, <1>5, <1>6 DEF CodeStep

(* Every step keeps what is known of the cleaner's victim. *)
LEMMA CleanerNext ==
  ASSUME SchedInv, [Next]_vars
  PROVE  CleanerInv'
<1>. USE DEF SchedInv, TypeInv
<1>1. CASE UNCHANGED vars
  BY <1>1, CleanerStutter DEF vars, code
<1>2. ASSUME NEW c \in Cpu, Call(c)
      PROVE  CleanerInv'
  <2>0. running[c] \in AllThreads
    BY DEF TypeOK
  <2>1. ASSUME NEW u \in Thread, NewThread(c, u)
        PROVE  CleanerInv'
    <3>1. \A v \in AllThreads : life[v] = "reaped" => life'[v] = "reaped"
      BY <2>1 DEF NewThread, TypeOK
    <3>. QED
      BY <2>1, <3>1, CleanerStutter DEF NewThread, code
  <2>2. ASSUME NEW s \in QueueKey, BlockCall(c, s)
        PROVE  CleanerInv'
    BY <2>0, <2>2, CleanerGoto DEF BlockCall, Goto
  <2>3. ASSUME NEW p \in Killable, Terminate(c, p)
        PROVE  CleanerInv'
    BY <2>0, <2>3, CleanerGoto DEF Terminate, Goto
  <2>4. CASE ProcCPanic(c)
    BY <2>4, CleanerStutter DEF ProcCPanic, code
  <2>. QED
    BY <1>2, <2>1, <2>2, <2>3, <2>4 DEF Call
<1>3. ASSUME NEW c \in Cpu, Interrupt(c) \/ Iret(c)
      PROVE  CleanerInv'
  <2>1. ASSUME NEW due, NEW expired, TimeHandler(c, due, expired)
        PROVE  CleanerInv'
    BY <2>1, CleanerStutter DEF TimeHandler, code
  <2>2. CASE IpiHandler(c)
    <3>1. UNCHANGED <<victim, life>> /\ running[c] \in AllThreads
      BY <2>2 DEF IpiHandler, TypeOK
    <3>2. CASE UNCHANGED pc
      BY <3>1, <3>2, CleanerStutter
    <3>3. CASE pc' = [pc EXCEPT ![running[c]] = "exit"]
      BY <3>1, <3>3, CleanerGoto
    <3>. QED
      BY <2>2, <3>2, <3>3 DEF IpiHandler, Goto
  <2>3. CASE Iret(c)
    BY <2>3, ResumeCleaner DEF Iret, TypeOK
  <2>. QED
    BY <1>3, <2>1, <2>2, <2>3 DEF Interrupt
<1>4. ASSUME NEW c \in Cpu, Schedule(c)
      PROVE  CleanerInv'
  <2>1. ASSUME NEW new, NEW rest, NEW doomed, NEW pool, SwitchTo(c, new, rest, doomed, pool)
        PROVE  CleanerInv'
    BY <2>1, CleanerStutter DEF SwitchTo, FileAndSwitch, code
  <2>2. ASSUME NEW doomed, Stay(c, doomed)
        PROVE  CleanerInv'
    BY <2>2, ResumeCleaner DEF Stay, TypeOK
  <2>. QED
    BY <1>4, <2>1, <2>2 DEF Schedule
<1>. QED
  BY <1>1, <1>2, <1>3, <1>4, CleanerCode DEF Next, Halted

(* SchedInv is inductive. *)
LEMMA SchedNext == SchedInv /\ [Next]_vars => SchedInv'
BY TypeNext, CleanerNext, ListNext DEF SchedInv

(* Every live thread is on exactly one list of the scheduler, the one its  *)
(* state names, for any number of processors, threads and processes.       *)
THEOREM ListsCorrect == Spec => []ListInv
<1>1. SchedInv => ListInv
  BY DEF SchedInv
<1>. QED
  BY <1>1, SchedInit, SchedNext, PTL DEF Spec

-----------------------------------------------------------------------------
(* Switches.                                                               *)

(* What SwitchToLiving needs: only idle threads are ever Idle, and their   *)
(* process, the kernel, is never terminated.                               *)
KernelInv ==
  /\ pst[Kernel] = "listed"
  /\ \A t \in AllThreads :
       /\ target[t] # Kernel
       /\ arg[t] # Idle
       /\ state[t] = Idle => t \in Cpu

SwitchInv == SchedInv /\ KernelInv

(* At first every process is listed and no thread is Idle. *)
LEMMA SwitchInit == Init => SwitchInv
<1>. SUFFICES ASSUME Init PROVE KernelInv
  BY SchedInit DEF SwitchInv
<1>. QED
  BY StateKinds, ProcAssumption DEF Init, KernelInv

(* Dropping Arcs leaves a listed process listed. *)
LEMMA DropArcsKernel ==
  ASSUME pst[Kernel] = "listed", DropArcs
  PROVE  pst'[Kernel] = "listed"
BY ProcAssumption DEF DropArcs

(* Returning from an int 128 makes no target and no argument. *)
LEMMA ResumeKernel ==
  ASSUME TypeOK, KernelInv, NEW t \in AllThreads, Resume(t)
  PROVE  \A u \in AllThreads : target'[u] # Kernel /\ arg'[u] # Idle
<1>1. CASE pc[t] = "ret"
  BY <1>1, StateKinds, ProcAssumption DEF Resume, TypeOK, KernelInv
<1>2. CASE pc[t] # "ret"
  BY <1>2 DEF Resume, KernelInv
<1>. QED
  BY <1>1, <1>2

(* A thread on an idle list is an idle thread. *)
LEMMA IdleIsIdle ==
  ASSUME SwitchInv, NEW c \in Cpu, NEW t \in idle[c]
  PROVE  t \in Cpu
BY DEF SwitchInv, SchedInv, TypeInv, TypeOK, ListInv, FiledByState, KernelInv

(* The calls keep KernelInv: terminate() is called on killable processes. *)
LEMMA KernelCall ==
  ASSUME SwitchInv, NEW c \in Cpu, Call(c)
  PROVE  KernelInv'
<1>. USE DEF SwitchInv, SchedInv, TypeInv
<1>0. running[c] \in AllThreads
  BY DEF TypeOK
<1>1. ASSUME NEW t \in Thread, NewThread(c, t)
      PROVE  KernelInv'
  BY <1>1, StateKinds DEF NewThread, KernelInv, TypeOK, code, procs
<1>2. ASSUME NEW s \in QueueKey, BlockCall(c, s)
      PROVE  KernelInv'
  BY <1>0, <1>2, StateKinds DEF BlockCall, KernelInv, TypeOK, procs
<1>3. ASSUME NEW p \in Killable, Terminate(c, p)
      PROVE  KernelInv'
  <2>1. p # Kernel /\ p \in Proc
    BY ProcAssumption
  <2>2. pst'[Kernel] = "listed"
    BY <1>3, <2>1, ProcAssumption DEF Terminate, KernelInv, TypeOK
  <2>3. \A u \in AllThreads : target'[u] # Kernel
    BY <1>0, <1>3, <2>1 DEF Terminate, KernelInv, TypeOK
  <2>. QED
    BY <1>3, <2>2, <2>3 DEF Terminate, KernelInv
<1>4. CASE ProcCPanic(c)
  BY <1>4 DEF ProcCPanic, KernelInv, code, procs
<1>. QED
  BY <1>1, <1>2, <1>3, <1>4 DEF Call

(* The steps of kernel code keep KernelInv. *)
LEMMA KernelCode ==
  ASSUME SwitchInv, NEW c \in Cpu, CodeStep(c)
  PROVE  KernelInv'
<1>. USE DEF SwitchInv, SchedInv, TypeInv
<1>0. running[c] \in AllThreads
  BY DEF TypeOK
<1>1. CASE EnsureCheck(c) \/ EnsureInsert(c) \/ IntSched(c) \/ Collect(c)
  BY <1>1 DEF EnsureCheck, EnsureInsert, IntSched, Collect, KernelInv, procs
<1>2. CASE SetState(c)
  BY <1>0, <1>2 DEF SetState, KernelInv, TypeOK, procs
<1>3. CASE Pop(c)
  BY <1>0, <1>3, StateKinds DEF Pop, KernelInv, TypeOK, procs
<1>4. CASE RemoveThread(c)
  <2>1. \A u \in AllThreads : state'[u] = Idle => state[u] = Idle
    BY <1>4, StateKinds DEF RemoveThread, WakeAll
  <2>. QED
    BY <1>4, <2>1, DropArcsKernel DEF RemoveThread, KernelInv
<1>5. CASE DeallocState(c)
  BY <1>5, DropArcsKernel DEF DeallocState, KernelInv
<1>6. CASE FreeThread(c) \/ IterClear(c)
  BY <1>6 DEF FreeThread, IterClear, KernelInv, procs
<1>7. CASE SetDead(c)
  BY <1>0, <1>7, ProcAssumption DEF SetDead, KernelInv, TypeOK
<1>8. CASE SendIpi(c)
  <2>1. \A u \in AllThreads : target'[u] # Kernel
    BY <1>0, <1>8, ProcAssumption DEF SendIpi, KernelInv, TypeOK
  <2>. QED
    BY <1>8, <2>1, DropArcsKernel DEF SendIpi, KernelInv
<1>. QED
  BY <1>1, <1>2, <1>3, <1>4, <1>5, <1>6, <1>7, <1>8 DEF CodeStep

(* schedule() files nobody but an idle thread as Idle. *)
LEMMA KernelSchedule ==
  ASSUME SwitchInv, NEW c \in Cpu, Schedule(c)
  PROVE  KernelInv'
<1>. USE DEF SwitchInv, SchedInv, TypeInv
<1>0. running[c] \in AllThreads
  BY DEF TypeOK
<1>1. ASSUME NEW new, NEW rest, NEW doomed, NEW pool,
             FileAndSwitch(c, new, rest, doomed, pool)
      PROVE  KernelInv'
  <2>1. FiledState(running[c]) = Idle => running[c] \in Cpu
    BY <1>0, StateKinds DEF FiledState, DefaultState, KernelInv
  <2>2. \A u \in AllThreads : state'[u] = Idle => u \in Cpu
    BY <1>1, <2>1, StateKinds DEF FileAndSwitch, KernelInv
  <2>. QED
    BY <1>1, <2>2 DEF FileAndSwitch, KernelInv, code
<1>2. ASSUME NEW new, NEW rest, NEW doomed, NEW pool,
             SwitchTo(c, new, rest, doomed, pool)
      PROVE  KernelInv'
  BY <1>1, <1>2 DEF SwitchTo, KernelInv, code, procs
<1>3. ASSUME NEW doomed, Stay(c, doomed)
      PROVE  KernelInv'
  <2>1. \A u \in AllThreads : state'[u] = Idle => u \in Cpu
    BY <1>3, StateKinds DEF Stay, KernelInv
  <2>2. pst'[Kernel] = "listed"
    BY <1>3, DropArcsKernel DEF Stay, KernelInv
  <2>3. \A u \in AllThreads : target'[u] # Kernel /\ arg'[u] # Idle
    BY <1>0, <1>3, ResumeKernel DEF Stay
  <2>. QED
    BY <2>1, <2>2, <2>3 DEF KernelInv
<1>. QED
  BY <1>2, <1>3 DEF Schedule

(* SwitchInv is inductive. *)
LEMMA SwitchNext == SwitchInv /\ [Next]_vars => SwitchInv'
<1>. SUFFICES ASSUME SwitchInv, [Next]_vars PROVE KernelInv'
  BY SchedNext DEF SwitchInv
<1>1. CASE UNCHANGED vars
  BY <1>1 DEF vars, code, procs, SwitchInv, KernelInv
<1>2. ASSUME NEW c \in Cpu, Interrupt(c) \/ Iret(c)
      PROVE  KernelInv'
  <2>1. ASSUME NEW due, NEW expired, TimeHandler(c, due, expired)
        PROVE  KernelInv'
    <3>1. \A u \in AllThreads : state'[u] = Idle => state[u] = Idle
      BY <2>1, StateKinds DEF TimeHandler, WakeAll
    <3>. QED
      BY <2>1, <3>1 DEF TimeHandler, KernelInv, SwitchInv, code, procs
  <2>2. CASE IpiHandler(c)
    BY <2>2 DEF IpiHandler, KernelInv, SwitchInv, code, procs
  <2>3. CASE Iret(c)
    <3>1. \A u \in AllThreads : target'[u] # Kernel /\ arg'[u] # Idle
      BY <2>3, ResumeKernel DEF Iret, SwitchInv, SchedInv, TypeInv, TypeOK
    <3>2. pst'[Kernel] = "listed"
      BY <2>3, DropArcsKernel DEF Iret, SwitchInv, KernelInv
    <3>. QED
      BY <2>3, <3>1, <3>2 DEF Iret, SwitchInv, KernelInv
  <2>. QED
    BY <1>2, <2>1, <2>2, <2>3 DEF Interrupt
<1>. QED
  BY <1>1, <1>2, KernelCall, KernelCode, KernelSchedule DEF Next, Halted

(* A step that gives a processor another thread is a switch of schedule(). *)
LEMMA SwitchIsSchedule ==
  ASSUME [Next]_vars, running' # running
  PROVE  \E c \in Cpu : Schedule(c)
<1>1. ASSUME NEW c \in Cpu, Call(c)
      PROVE  running' = running
  BY <1>1 DEF Call, NewThread, BlockCall, Terminate, ProcCPanic, lists
<1>2. ASSUME NEW c \in Cpu, CodeStep(c)
      PROVE  running' = running
  <2>1. CASE EnsureCheck(c) \/ EnsureInsert(c) \/ SetState(c) \/ IntSched(c)
    BY <2>1 DEF EnsureCheck, EnsureInsert, SetState, IntSched, lists
  <2>2. CASE Collect(c) \/ Pop(c) \/ RemoveThread(c) \/ DeallocState(c) \/ FreeThread(c)
    BY <2>2 DEF Collect, Pop, RemoveThread, DeallocState, FreeThread, lists
  <2>3. CASE SetDead(c) \/ IterClear(c) \/ SendIpi(c)
    BY <2>3 DEF SetDead, IterClear, SendIpi, lists
  <2>. QED
    BY <1>2, <2>1, <2>2, <2>3 DEF CodeStep
<1>3. ASSUME NEW c \in Cpu, Interrupt(c) \/ Iret(c)
      PROVE  running' = running
  BY <1>3 DEF Interrupt, TimeHandler, IpiHandler, Iret, lists
<1>4. UNCHANGED vars => running' = running
  BY DEF vars, lists
<1>. QED
  BY <1>1, <1>2, <1>3, <1>4 DEF Next, Halted

(* The thread schedule() switches to belongs to a living process. *)
LEMMA ScheduleLiving ==
  ASSUME SwitchInv, NEW c \in Cpu, Schedule(c), NEW d \in Cpu,
         running'[d] # running[d]
  PROVE  IsAlive(running'[d])
<1>0. running \in [Cpu -> AllThreads]
  BY DEF SwitchInv, SchedInv, TypeInv, TypeOK
<1>1. ASSUME NEW new, NEW rest, NEW doomed, NEW pool,
             SwitchTo(c, new, rest, doomed, pool)
      PROVE  running'[d] = new
  BY <1>0, <1>1 DEF SwitchTo, FileAndSwitch, lists
<1>2. ASSUME NEW new \in idle[c]
      PROVE  IsAlive(new)
  <2>1. new \in Cpu /\ new \notin Thread
    BY <1>2, IdleIsIdle, Names
  <2>. QED
    BY <2>1 DEF IsAlive, Owner, SwitchInv, KernelInv
<1>3. ASSUME NEW doomed, Stay(c, doomed)
      PROVE  FALSE
  BY <1>3 DEF Stay
<1>. QED
  BY <1>1, <1>2, <1>3 DEF Schedule, DeadPrefix

(* "we will never switch to a thread that has a dead process": a step of   *)
(* the scheduler gives a processor a thread of a living process only, for  *)
(* any number of processors, threads and processes.                        *)
THEOREM SwitchesToLiving == Spec => SwitchToLiving
<1>1. SwitchInv /\ [Next]_vars
        => [\A c \in Cpu : running'[c] # running[c] => IsAlive(running'[c])]_vars
  BY SwitchIsSchedule, ScheduleLiving
<1>. QED
  BY <1>1, SwitchInit, SwitchNext, PTL DEF Spec, SwitchToLiving

-----------------------------------------------------------------------------
(* The marks of the processes.                                             *)

(* What MarksExact needs: a process that some thread is terminating is not *)
(* dropped, so set_dead never brings a process back.                       *)
ArcInv ==
  \A t \in AllThreads : target[t] \in Proc => pst[target[t]] # "gone"

MarkInv == TypeInv /\ ArcInv /\ MarksExact

(* At first only idle threads run, and no process is marked. *)
LEMMA MarkInit == Init => MarkInv
<1>. SUFFICES ASSUME Init PROVE ArcInv /\ MarksExact
  BY TypeInit DEF MarkInv
<1>. QED
  BY Names, ProcAssumption DEF Init, ArcInv, MarksExact, Owner

(* A process is not dropped while a target names it, and stays dropped. *)
LEMMA DropArcsArc ==
  ASSUME TypeOK, ArcInv, DropArcs,
         \A t \in AllThreads : target'[t] = target[t] \/ target'[t] = NoProc
  PROVE  ArcInv' /\ \A p \in Proc : pst[p] = "gone" => pst'[p] = "gone"
<1>1. \A p \in Proc : pst[p] = "gone" => pst'[p] = "gone"
  BY DEF DropArcs
<1>2. ASSUME NEW t \in AllThreads, target'[t] \in Proc
      PROVE  pst'[target'[t]] # "gone"
  <2>1. target'[t] = target[t] /\ pst[target[t]] # "gone"
    BY <1>2, ProcAssumption DEF ArcInv
  <2>2. PICK q \in Proc : q = target'[t]
    BY <1>2
  <2>3. HoldsArc(t, q)' /\ pst[q] # "gone"
    BY <2>1, <2>2 DEF HoldsArc
  <2>4. pst'[q] = pst[q]
    BY <2>3 DEF DropArcs
  <2>. QED
    BY <2>2, <2>3, <2>4
<1>. QED
  BY <1>1, <1>2 DEF ArcInv

(* Returning from an int 128 makes no target. *)
LEMMA ResumeTarget ==
  ASSUME TypeOK, NEW t \in AllThreads, Resume(t)
  PROVE  \A u \in AllThreads : target'[u] = target[u] \/ target'[u] = NoProc
<1>1. CASE pc[t] = "ret"
  BY <1>1 DEF Resume, TypeOK
<1>2. CASE pc[t] # "ret"
  BY <1>2 DEF Resume
<1>. QED
  BY <1>1, <1>2

(* No step takes a target's process away or brings one back. *)
LEMMA ArcNext ==
  ASSUME TypeInv, ArcInv, [Next]_vars
  PROVE  ArcInv' /\ \A p \in Proc : Upgradable(p)' => Upgradable(p)
<1>. USE DEF TypeInv
<1>. DEFINE Kept == ArcInv' /\ \A p \in Proc : pst[p] = "gone" => pst'[p] = "gone"
<1>. SUFFICES Kept
  BY DEF Upgradable
<1>0. \A c \in Cpu : running[c] \in AllThreads
  BY DEF TypeOK
<1>1. ASSUME UNCHANGED <<pst, target>> PROVE Kept
  BY <1>1 DEF ArcInv
<1>. HIDE DEF Kept
<1>2. ASSUME NEW c \in Cpu, Call(c) PROVE Kept
  <2>1. ASSUME NEW q \in Killable, Terminate(c, q) PROVE Kept
    <3>1. /\ q \in Proc /\ pst[q] # "gone"
          /\ pst' = [pst EXCEPT ![q] = IF @ = "listed" THEN "unlisted" ELSE @]
          /\ target' = [target EXCEPT ![running[c]] = q]
      BY <2>1, ProcAssumption DEF Terminate, Upgradable
    <3>2. \A p \in Proc : pst'[p] = "gone" <=> pst[p] = "gone"
      BY <3>1 DEF TypeOK
    <3>3. \A t \in AllThreads : target'[t] = target[t] \/ target'[t] = q
      BY <1>0, <3>1 DEF TypeOK
    <3>. QED
      BY <3>1, <3>2, <3>3 DEF Kept, ArcInv
  <2>2. ASSUME ~ \E q \in Killable : Terminate(c, q) PROVE UNCHANGED <<pst, target>>
    BY <1>2, <2>2 DEF Call, NewThread, BlockCall, ProcCPanic, code, procs
  <2>. QED
    BY <1>1, <2>1, <2>2
<1>3. ASSUME NEW c \in Cpu, CodeStep(c) PROVE Kept
  <2>1. CASE EnsureCheck(c) \/ EnsureInsert(c) \/ SetState(c) \/ IntSched(c) \/ Collect(c)
    BY <1>1, <2>1 DEF EnsureCheck, EnsureInsert, SetState, IntSched, Collect, procs
  <2>2. CASE Pop(c) \/ FreeThread(c) \/ IterClear(c)
    BY <1>1, <2>2 DEF Pop, FreeThread, IterClear, procs
  <2>3. CASE RemoveThread(c) \/ DeallocState(c)
    BY <2>3, DropArcsArc DEF RemoveThread, DeallocState, Kept
  <2>4. CASE SendIpi(c)
    <3>1. \A t \in AllThreads : target'[t] = target[t] \/ target'[t] = NoProc
      BY <1>0, <2>4 DEF SendIpi, TypeOK
    <3>. QED
      BY <2>4, <3>1, DropArcsArc DEF SendIpi, Kept
  <2>5. CASE SetDead(c)
    <3>1. /\ target[running[c]] \in Proc /\ target' = target
          /\ pst' = [pst EXCEPT ![target[running[c]]] = "dead"]
      BY <1>0, <2>5 DEF SetDead, At, CodeInv
    <3>2. \A p \in Proc : pst'[p] = "gone" <=> pst[p] = "gone"
      BY <1>0, <3>1 DEF TypeOK, ArcInv
    <3>. QED
      BY <3>1, <3>2 DEF Kept, ArcInv
  <2>. QED
    BY <1>3, <2>1, <2>2, <2>3, <2>4, <2>5 DEF CodeStep
<1>4. ASSUME NEW c \in Cpu, Interrupt(c) PROVE Kept
  BY <1>1, <1>4 DEF Interrupt, TimeHandler, IpiHandler, code, procs
<1>5. ASSUME NEW c \in Cpu, Iret(c) PROVE Kept
  BY <1>0, <1>5, ResumeTarget, DropArcsArc DEF Iret, Kept
<1>6. ASSUME NEW c \in Cpu, Schedule(c) PROVE Kept
  <2>1. ASSUME NEW new, NEW rest, NEW doomed, NEW pool, SwitchTo(c, new, rest, doomed, pool)
        PROVE  UNCHANGED <<pst, target>>
    BY <2>1 DEF SwitchTo, FileAndSwitch, code, procs
  <2>2. ASSUME NEW doomed, Stay(c, doomed) PROVE Kept
    BY <1>0, <2>2, ResumeTarget, DropArcsArc DEF Stay, Kept
  <2>. QED
    BY <1>1, <1>6, <2>1, <2>2 DEF Schedule
<1>7. ASSUME UNCHANGED vars PROVE Kept
  BY <1>1, <1>7 DEF vars, procs, code
<1>. QED
  BY <1>2, <1>3, <1>4, <1>5, <1>6, <1>7 DEF Next, Halted

(* schedule() takes the mark of the processor from the old process and     *)
(* gives it to the new one, also when they are one.                        *)
LEMMA SwitchMarksExact ==
  ASSUME TypeInv, MarksExact, NEW c \in Cpu, NEW new, NEW rest, NEW doomed, NEW pool,
         FileAndSwitch(c, new, rest, doomed, pool)
  PROVE  MarksExact'
<1>1. /\ running' = [running EXCEPT ![c] = new] /\ pst' = pst
      /\ marks' = SwitchMarks(c, running[c], new)
  BY DEF FileAndSwitch
<1>. SUFFICES ASSUME NEW p \in Proc, NEW d \in Cpu
              PROVE  /\ d \in marks'[p] /\ Upgradable(p)' => Owner(running'[d]) = p
                     /\ Owner(running'[d]) = p /\ p # Kernel => d \in marks'[p]
  BY DEF MarksExact, Owner
<1>2. /\ d \in marks[p] /\ Upgradable(p) => Owner(running[d]) = p
      /\ Owner(running[d]) = p /\ p # Kernel => d \in marks[p]
  BY DEF MarksExact
<1>3. Upgradable(p)' <=> Upgradable(p)
  BY <1>1 DEF Upgradable
<1>4. marks'[p] = (marks[p] \ (IF p = Owner(running[c]) /\ Upgradable(p) THEN {c} ELSE {}))
                    \cup (IF p = Owner(new) THEN {c} ELSE {})
  BY <1>1 DEF SwitchMarks
<1>5. running'[d] = IF d = c THEN new ELSE running[d]
  BY <1>1 DEF TypeInv, TypeOK
<1>. QED
  BY <1>2, <1>3, <1>4, <1>5

(* MarkInv is inductive: no other step touches the marks. *)
LEMMA MarkNext == MarkInv /\ [Next]_vars => MarkInv'
<1>. SUFFICES ASSUME MarkInv, [Next]_vars PROVE MarksExact'
  BY TypeNext, ArcNext DEF MarkInv
<1>1. ASSUME UNCHANGED <<running, marks>> PROVE MarksExact'
  <2>1. \A p \in Proc : Upgradable(p)' => Upgradable(p)
    BY ArcNext DEF MarkInv
  <2>. QED
    BY <1>1, <2>1 DEF MarkInv, MarksExact, Owner
<1>2. ASSUME NEW c \in Cpu, Schedule(c) PROVE MarksExact'
  <2>1. ASSUME NEW new, NEW rest, NEW doomed, NEW pool, SwitchTo(c, new, rest, doomed, pool)
        PROVE  MarksExact'
    BY <1>1, <2>1, SwitchMarksExact DEF SwitchTo, MarkInv, lists, procs
  <2>2. ASSUME NEW doomed, Stay(c, doomed) PROVE MarksExact'
    BY <1>1, <2>2 DEF Stay
  <2>. QED
    BY <1>2, <2>1, <2>2 DEF Schedule
<1>3. ASSUME NEW c \in Cpu, Call(c) PROVE UNCHANGED <<running, marks>>
  BY <1>3 DEF Call, NewThread, BlockCall, Terminate, ProcCPanic, lists, procs
<1>4. ASSUME NEW c \in Cpu, CodeStep(c) PROVE UNCHANGED <<running, marks>>
  <2>1. CASE EnsureCheck(c) \/ EnsureInsert(c) \/ SetState(c) \/ IntSched(c) \/ Collect(c)
    BY <2>1 DEF EnsureCheck, EnsureInsert, SetState, IntSched, Collect, lists, procs
  <2>2. CASE Pop(c) \/ FreeThread(c) \/ RemoveThread(c) \/ DeallocState(c)
    BY <2>2 DEF Pop, FreeThread, RemoveThread, DeallocState, lists, procs
  <2>3. CASE SetDead(c) \/ IterClear(c) \/ SendIpi(c)
    BY <2>3 DEF SetDead, IterClear, SendIpi, lists, procs
  <2>. QED
    BY <1>4, <2>1, <2>2, <2>3 DEF CodeStep
<1>5. ASSUME NEW c \in Cpu, Interrupt(c) \/ Iret(c) PROVE UNCHANGED <<running, marks>>
  BY <1>5 DEF Interrupt, TimeHandler, IpiHandler, Iret, lists, procs
<1>6. UNCHANGED vars => UNCHANGED <<running, marks>>
  BY DEF vars, lists, procs
<1>. QED
  BY <1>1, <1>2, <1>3, <1>4, <1>5, <1>6 DEF Next, Halted

(* cpus_running marks exactly the processors that run a thread of the      *)
(* process, for any number of processors and processes                     *)
(* (Process::set_running in schedule()).                                   *)
THEOREM MarksCorrect == Spec => []MarksExact
<1>1. MarkInv => MarksExact
  BY DEF MarkInv
<1>. QED
  BY <1>1, MarkInit, MarkNext, PTL DEF Spec

-----------------------------------------------------------------------------
(* The idle threads, and the return of schedule().                         *)

(* The idle thread of a processor runs there or waits on its idle list,    *)
(* and never blocks.                                                       *)
IdleInv ==
  \A c \in Cpu :
    /\ pc[c] = "run" /\ state[c] \in {Running, Idle}
    /\ idle[c] \subseteq {c}
    /\ running[c] \in Cpu => running[c] = c
    /\ c \in idle[c] \/ running[c] = c

BlockInv == SwitchInv /\ IdleInv /\ BlockedUntilWoken

(* At first the idle threads run. *)
LEMMA BlockInit == Init => BlockInv
<1>. SUFFICES ASSUME Init PROVE IdleInv /\ BlockedUntilWoken
  BY SwitchInit DEF BlockInv
<1>. QED
  BY Names DEF Init, IdleInv, BlockedUntilWoken

(* A step on processor c that switches no threads: what it must keep of    *)
(* the threads that run, and what of the one that takes it.                *)
LEMMA BlockFrame ==
  ASSUME BlockInv, NEW c \in Cpu, UNCHANGED <<running, idle>>,
         \A u \in AllThreads \ {running[c]} : pc'[u] = pc[u],
         \A d \in Cpu \ {c} : mode'[d] = mode[d] /\ state'[running[d]] = state[running[d]],
         \A d \in Cpu : state'[d] = state[d],
         running[c] \in Cpu => pc'[running[c]] = pc[running[c]],
         \/ state'[running[c]] = Running
         \/ pc'[running[c]] = "int"
         \/ pc'[running[c]] \in {"ret", "exit"} /\ mode'[c] = "sched"
  PROVE  IdleInv' /\ BlockedUntilWoken'
<1>. USE DEF BlockInv, SwitchInv, SchedInv, TypeInv
<1>1. \A d \in Cpu : pc'[d] = pc[d]
  BY Names
<1>2. IdleInv'
  BY <1>1 DEF IdleInv
<1>3. ASSUME NEW d \in Cpu, d # c
      PROVE  /\ running[d] \in AllThreads /\ running[d] # running[c]
             /\ pc'[running[d]] = pc[running[d]] /\ mode'[d] = mode[d]
             /\ state'[running[d]] = state[running[d]]
  BY <1>3 DEF TypeOK, ListInv, NoDuplicates
<1>4. BlockedUntilWoken'
  BY <1>3 DEF BlockedUntilWoken
<1>. QED
  BY <1>2, <1>4

(* An idle thread is in no call. *)
LEMMA IdleInNoCall ==
  ASSUME BlockInv, NEW c \in Cpu, NEW l, At(c, l), l # "run"
  PROVE  running[c] \in AllThreads /\ running[c] \notin Cpu
BY DEF BlockInv, SwitchInv, SchedInv, TypeInv, TypeOK, IdleInv, At

(* A thread that is in thread code and not about to block is Running. *)
LEMMA InCodeRunning ==
  ASSUME BlockInv, NEW c \in Cpu, NEW l, At(c, l), l # "int"
  PROVE  state[running[c]] = Running
BY DEF BlockInv, BlockedUntilWoken, At

(* Whoever is woken does not run, and is no idle thread. *)
LEMMA WakeAllBlock ==
  ASSUME BlockInv, NEW q \in QueueKey, NEW S, S \subseteq queue[q], WakeAll(q, S)
  PROVE  \A d \in Cpu : state'[running[d]] = state[running[d]] /\ state'[d] = state[d]
<1>. USE DEF BlockInv, SwitchInv, SchedInv, TypeInv
<1>. SUFFICES ASSUME NEW d \in Cpu
              PROVE  state'[running[d]] = state[running[d]] /\ state'[d] = state[d]
  OBVIOUS
<1>1. running[d] \in AllThreads /\ d \in AllThreads
  BY Names DEF TypeOK
<1>2. running[d] \notin S
  BY <1>1 DEF ListInv, NoDuplicates, OnCpu, InQueue
<1>3. d \notin S
  BY StateKinds DEF ListInv, FiledByState, IdleInv
<1>. QED
  BY <1>1, <1>2, <1>3 DEF WakeAll

(* The calls. *)
LEMMA BlockCalls ==
  ASSUME BlockInv, NEW c \in Cpu, Call(c)
  PROVE  IdleInv' /\ BlockedUntilWoken'
<1>. DEFINE t == running[c]
<1>0. /\ t \in AllThreads /\ state[t] = Running
      /\ state \in [AllThreads -> ThreadState] /\ pc \in [AllThreads -> Labels]
  <2>1. At(c, "run")
    BY DEF Call, NewThread, BlockCall, Terminate, ProcCPanic
  <2>. QED
    BY <2>1, InCodeRunning DEF BlockInv, SwitchInv, SchedInv, TypeInv, TypeOK
<1>1. ASSUME NEW u \in Thread, NewThread(c, u) PROVE IdleInv' /\ BlockedUntilWoken'
  <2>1. /\ life[u] = "unborn" /\ state' = [state EXCEPT ![u] = Ready]
        /\ UNCHANGED <<running, idle, pc, mode>>
    BY <1>1 DEF NewThread, code, cpus
  <2>2. \A d \in Cpu : running[d] \in AllThreads /\ running[d] # u
    BY <2>1 DEF BlockInv, SwitchInv, SchedInv, TypeInv, TypeOK, ListInv, OnListWhileLive, OnCpu
  <2>3. \A d \in Cpu : state'[running[d]] = state[running[d]] /\ state'[d] = state[d]
    BY <1>0, <2>1, <2>2, Names
  <2>. QED
    BY <1>0, <2>1, <2>3, BlockFrame
<1>2. ASSUME NEW q \in QueueKey, BlockCall(c, q) PROVE IdleInv' /\ BlockedUntilWoken'
  <2>1. /\ UNCHANGED <<state, running, idle, mode>> /\ t \notin Cpu
        /\ pc' = [pc EXCEPT ![t] = "ensure"]
    BY <1>2 DEF BlockCall, Goto, lists, cpus
  <2>. QED
    BY <1>0, <2>1, BlockFrame
<1>3. ASSUME NEW q \in Killable, Terminate(c, q) PROVE IdleInv' /\ BlockedUntilWoken'
  <2>1. /\ UNCHANGED <<state, running, idle, mode>> /\ t \notin Cpu
        /\ pc' = [pc EXCEPT ![t] = "kill"]
    BY <1>3 DEF Terminate, Goto, lists, cpus
  <2>. QED
    BY <1>0, <2>1, BlockFrame
<1>4. CASE ProcCPanic(c)
  BY <1>0, <1>4, BlockFrame DEF ProcCPanic, lists, code, cpus
<1>. QED
  BY <1>1, <1>2, <1>3, <1>4 DEF Call

(* The steps of kernel code. *)
LEMMA BlockCode ==
  ASSUME BlockInv, NEW c \in Cpu, CodeStep(c)
  PROVE  IdleInv' /\ BlockedUntilWoken'
<1>. DEFINE t == running[c]
<1>0. /\ t \in AllThreads /\ t \notin Cpu
      /\ state \in [AllThreads -> ThreadState] /\ pc \in [AllThreads -> Labels]
      /\ mode \in [Cpu -> {"thread", "sched", "iret"}]
      /\ \A d \in Cpu : running[d] \in AllThreads /\ (d # c => running[d] # t)
  <2>1. t \in AllThreads /\ t \notin Cpu
    BY IdleInNoCall
    DEF CodeStep, EnsureCheck, EnsureInsert, SetState, IntSched, Collect, Pop, RemoveThread,
        DeallocState, FreeThread, SetDead, IterClear, SendIpi
  <2>. QED
    BY <2>1 DEF BlockInv, SwitchInv, SchedInv, TypeInv, TypeOK, ListInv, NoDuplicates
<1>1. ASSUME UNCHANGED <<running, idle, mode, state>>, state[t] = Running,
             \A u \in AllThreads \ {t} : pc'[u] = pc[u]
      PROVE  IdleInv' /\ BlockedUntilWoken'
  BY <1>0, <1>1, BlockFrame
<1>2. CASE EnsureCheck(c) \/ EnsureInsert(c)
  BY <1>0, <1>1, <1>2, InCodeRunning DEF EnsureCheck, EnsureInsert, Goto, lists, cpus
<1>3. CASE SetState(c)
  <2>1. /\ UNCHANGED <<running, idle, mode>> /\ state' = [state EXCEPT ![t] = arg[t]]
        /\ pc' = [pc EXCEPT ![t] = "int"]
    BY <1>3 DEF SetState, Goto, lists, cpus
  <2>. QED
    BY <1>0, <2>1, BlockFrame, Names
<1>4. CASE IntSched(c)
  <2>1. /\ UNCHANGED <<running, idle, state>> /\ mode' = [mode EXCEPT ![c] = "sched"]
        /\ pc' = [pc EXCEPT ![t] = "ret"]
    BY <1>4 DEF IntSched, Goto, lists, cpus
  <2>. QED
    BY <1>0, <2>1, BlockFrame
<1>5. CASE Collect(c) \/ DeallocState(c) \/ FreeThread(c)
  BY <1>0, <1>1, <1>5, InCodeRunning DEF Collect, DeallocState, FreeThread, Goto, lists, cpus
<1>6. CASE Pop(c)
  BY <1>0, <1>1, <1>6, InCodeRunning DEF Pop, Goto, lists, cpus
<1>7. CASE RemoveThread(c)
  <2>1. /\ UNCHANGED <<running, idle, mode>> /\ state[t] = Running
        /\ \A u \in AllThreads \ {t} : pc'[u] = pc[u]
    BY <1>0, <1>7, InCodeRunning DEF RemoveThread, Goto, cpus
  <2>2. CASE UNCHANGED state
    BY <1>1, <2>1, <2>2
  <2>3. CASE Join(victim) \in nodes /\ WakeAll(Join(victim), queue[Join(victim)])
    <3>1. Join(victim) \in QueueKey
      BY <2>3, StateKinds DEF BlockInv, SwitchInv, SchedInv, TypeInv, TypeOK
    <3>. QED
      BY <1>0, <2>1, <2>3, <3>1, WakeAllBlock, BlockFrame
  <2>. QED
    BY <1>7, <2>2, <2>3 DEF RemoveThread
<1>8. CASE SetDead(c) \/ IterClear(c)
  BY <1>0, <1>1, <1>8, InCodeRunning DEF SetDead, IterClear, Goto, lists, cpus
<1>9. CASE SendIpi(c)
  BY <1>0, <1>1, <1>9, InCodeRunning DEF SendIpi, Goto, lists
<1>. QED
  BY <1>2, <1>3, <1>4, <1>5, <1>6, <1>7, <1>8, <1>9 DEF CodeStep

(* Interrupts and the end of their path. *)
LEMMA BlockInterrupt ==
  ASSUME BlockInv, NEW c \in Cpu, Interrupt(c) \/ Iret(c)
  PROVE  IdleInv' /\ BlockedUntilWoken'
<1>. DEFINE t == running[c]
<1>0. /\ t \in AllThreads
      /\ state \in [AllThreads -> ThreadState] /\ pc \in [AllThreads -> Labels]
      /\ mode \in [Cpu -> {"thread", "sched", "iret"}]
      /\ t \in Cpu => pc[t] = "run"
  BY DEF BlockInv, SwitchInv, SchedInv, TypeInv, TypeOK, IdleInv
<1>1. ASSUME mode[c] # "sched" PROVE state[t] = Running \/ pc[t] = "int"
  BY <1>1 DEF BlockInv, BlockedUntilWoken
<1>2. ASSUME NEW due, NEW expired, TimeHandler(c, due, expired)
      PROVE  IdleInv' /\ BlockedUntilWoken'
  <2>1. /\ due \subseteq queue[Sleep] /\ WakeAll(Sleep, due) /\ mode[c] = "thread"
        /\ UNCHANGED <<running, idle, pc>> /\ \A d \in Cpu \ {c} : mode'[d] = mode[d]
    BY <1>0, <1>2 DEF TimeHandler, DueSets, Interruptible, code
  <2>2. \A d \in Cpu : state'[running[d]] = state[running[d]] /\ state'[d] = state[d]
    BY <2>1, StateKinds, WakeAllBlock
  <2>. QED
    BY <1>0, <1>1, <2>1, <2>2, BlockFrame
<1>3. CASE IpiHandler(c)
  <2>1. /\ mode[c] = "thread" /\ UNCHANGED <<running, idle, state>>
        /\ \A d \in Cpu \ {c} : mode'[d] = mode[d]
    BY <1>0, <1>3 DEF IpiHandler, Interruptible, lists
  <2>2. CASE IsAlive(t)
    <3>1. pc' = pc
      BY <1>3, <2>2 DEF IpiHandler
    <3>. QED
      BY <1>0, <1>1, <2>1, <3>1, BlockFrame
  <2>3. CASE ~IsAlive(t)
    <3>1. t \notin Cpu
      <4>1. t \in Cpu => Owner(t) = Kernel
        BY Names DEF Owner
      <4>2. pst[Kernel] = "listed"
        BY DEF BlockInv, SwitchInv, KernelInv
      <4>. QED
        BY <2>3, <4>1, <4>2 DEF IsAlive
    <3>2. pc' = [pc EXCEPT ![t] = "exit"] /\ mode'[c] = "sched"
      BY <1>0, <1>3, <2>3 DEF IpiHandler, Goto
    <3>3. pc'[t] = "exit" /\ \A u \in AllThreads \ {t} : pc'[u] = pc[u]
      BY <1>0, <3>2
    <3>. QED
      BY <1>0, <2>1, <3>1, <3>2, <3>3, BlockFrame
  <2>. QED
    BY <2>2, <2>3
<1>4. CASE Iret(c)
  <2>1. /\ mode[c] = "iret" /\ UNCHANGED <<running, idle, state>> /\ Resume(t)
        /\ \A d \in Cpu \ {c} : mode'[d] = mode[d]
    BY <1>0, <1>4 DEF Iret, lists
  <2>2. /\ \A u \in AllThreads \ {t} : pc'[u] = pc[u]
        /\ pc[t] # "ret" => pc'[t] = pc[t]
    BY <1>0, <2>1 DEF Resume, Goto
  <2>. QED
    BY <1>0, <1>1, <2>1, <2>2, BlockFrame
<1>. QED
  BY <1>2, <1>3, <1>4 DEF Interrupt

(* A switch: the idle thread goes to the idle list of its processor when   *)
(* another one is ready, and comes from there when none is.                *)
LEMMA BlockSwitch ==
  ASSUME BlockInv, NEW c \in Cpu, NEW new \in AllThreads, NEW rest, NEW doomed, NEW pool,
         FileAndSwitch(c, new, rest, doomed, pool),
         \A u \in doomed : InReady(u),
         \/ InReady(new) /\ pool = idle
         \/ new \in idle[c] /\ pool = [idle EXCEPT ![c] = @ \ {new}]
  PROVE  IdleInv' /\ BlockedUntilWoken'
<1>. USE DEF BlockInv, SwitchInv, SchedInv, TypeInv
<1>. DEFINE old == running[c]
            filed == FiledState(old)
<1>1. /\ state' = [t \in AllThreads |-> IF t = new THEN Running
                                        ELSE IF t = old THEN filed
                                        ELSE IF t \in doomed THEN Destroy ELSE state[t]]
      /\ idle' = IF filed = Idle THEN [pool EXCEPT ![c] = @ \cup {old}] ELSE pool
      /\ running' = [running EXCEPT ![c] = new]
      /\ mode' = [mode EXCEPT ![c] = "iret"] /\ pc' = pc
  BY DEF FileAndSwitch, code
<1>2. /\ \A d \in Cpu : running[d] \in AllThreads /\ d \in AllThreads
      /\ running \in [Cpu -> AllThreads] /\ idle \in [Cpu -> SUBSET AllThreads]
      /\ mode \in [Cpu -> {"thread", "sched", "iret"}]
  BY Names DEF TypeOK
<1>3. \A d \in Cpu : ~InReady(running[d]) /\ ~InIdle(running[d])
  BY <1>2 DEF ListInv, NoDuplicates, OnCpu
<1>4. \A d \in Cpu : ~InReady(d)
  BY StateKinds DEF ListInv, FiledByState, IdleInv, InReady
<1>5. \A d \in Cpu : running[d] # new
  BY <1>3 DEF InIdle
<1>6. old \in Cpu => old = c /\ filed = Idle
  <2>. SUFFICES ASSUME old \in Cpu PROVE old = c /\ filed = Idle
    OBVIOUS
  <2>1. old = c /\ pc[old] = "run"
    BY DEF IdleInv
  <2>2. state[old] = Running
    BY <2>1 DEF BlockedUntilWoken
  <2>. QED
    BY <2>1, <2>2 DEF FiledState, DefaultState
<1>7. old \notin Cpu => filed # Idle
  BY <1>2, StateKinds DEF FiledState, DefaultState, KernelInv
<1>8. new \in Cpu => new = c /\ old # c
  <2>. SUFFICES ASSUME new \in Cpu PROVE new = c /\ old # c
    OBVIOUS
  <2>1. new \in idle[c]
    BY <1>4
  <2>. QED
    BY <1>5, <2>1 DEF IdleInv
<1>. HIDE DEF filed
<1>9. BlockedUntilWoken'
  <2>. SUFFICES ASSUME NEW d \in Cpu
                PROVE  \/ state'[running'[d]] = Running
                       \/ pc'[running'[d]] = "int"
                       \/ pc'[running'[d]] \in {"ret", "exit"} /\ mode'[d] = "sched"
    BY DEF BlockedUntilWoken
  <2>1. CASE d = c
    BY <1>1, <1>2, <2>1
  <2>2. CASE d # c
    <3>1. running'[d] = running[d] /\ mode'[d] = mode[d]
      BY <1>1, <1>2, <2>2
    <3>2. running[d] # new /\ running[d] # old /\ running[d] \notin doomed
      BY <1>3, <1>5, <2>2 DEF ListInv, NoDuplicates
    <3>3. state'[running[d]] = state[running[d]]
      BY <1>1, <1>2, <3>2
    <3>. QED
      BY <1>1, <3>1, <3>3 DEF BlockedUntilWoken
  <2>. QED
    BY <2>1, <2>2
<1>10. IdleInv'
  <2>. SUFFICES ASSUME NEW d \in Cpu
                PROVE  /\ pc'[d] = "run" /\ state'[d] \in {Running, Idle}
                       /\ idle'[d] \subseteq {d}
                       /\ running'[d] \in Cpu => running'[d] = d
                       /\ d \in idle'[d] \/ running'[d] = d
    BY DEF IdleInv
  <2>0. /\ pc[d] = "run" /\ state[d] \in {Running, Idle} /\ idle[d] \subseteq {d}
        /\ running[d] \in Cpu => running[d] = d
        /\ d \in idle[d] \/ running[d] = d
    BY DEF IdleInv
  <2>1. pc'[d] = "run" /\ state'[d] \in {Running, Idle}
    <3>1. d \notin doomed
      BY <1>4
    <3>2. state'[d] = IF d = new THEN Running ELSE IF d = old THEN filed ELSE state[d]
      BY <1>1, <1>2, <3>1
    <3>. QED
      BY <1>1, <1>6, <2>0, <3>2
  <2>2. CASE d # c
    <3>1. running'[d] = running[d] /\ pool[d] = idle[d] /\ idle'[d] = pool[d]
      BY <1>1, <1>2, <2>2
    <3>. QED
      BY <2>0, <2>1, <3>1
  <2>3. CASE d = c
    <3>1. running'[d] = new /\ (new \in Cpu => new = d)
      BY <1>1, <1>2, <1>8, <2>3
    <3>2. CASE InReady(new) /\ pool = idle
      <4>1. CASE old \in Cpu
        <5>1. idle' = [idle EXCEPT ![c] = @ \cup {c}]
          BY <1>1, <1>6, <3>2, <4>1
        <5>. QED
          BY <1>2, <2>0, <2>1, <2>3, <3>1, <5>1
      <4>2. CASE old \notin Cpu
        BY <1>1, <1>7, <2>0, <2>1, <2>3, <3>1, <3>2, <4>2
      <4>. QED
        BY <4>1, <4>2
    <3>3. CASE new \in idle[c] /\ pool = [idle EXCEPT ![c] = @ \ {new}]
      <4>1. new = c /\ old # c /\ old \notin Cpu
        BY <1>5, <2>0, <2>3, <3>3
      <4>2. idle' = [idle EXCEPT ![c] = @ \ {new}]
        BY <1>1, <1>7, <3>3, <4>1
      <4>. QED
        BY <1>2, <2>0, <2>1, <2>3, <3>1, <4>1, <4>2
    <3>. QED
      BY <3>2, <3>3
  <2>. QED
    BY <2>2, <2>3
<1>. QED
  BY <1>9, <1>10

(* schedule() returns false to nobody but the idle thread. *)
LEMMA BlockStay ==
  ASSUME BlockInv, NEW c \in Cpu, NEW doomed, Stay(c, doomed), idle[c] = {},
         \A u \in doomed : InReady(u)
  PROVE  IdleInv' /\ BlockedUntilWoken'
<1>. USE DEF BlockInv, SwitchInv, SchedInv, TypeInv
<1>1. running[c] = c /\ pc[c] = "run" /\ c \in AllThreads
  BY Names DEF IdleInv
<1>2. state[c] = Running
  BY <1>1 DEF BlockedUntilWoken
<1>3. /\ UNCHANGED <<running, idle, pc>> /\ mode' = [mode EXCEPT ![c] = "thread"]
      /\ state' = [t \in AllThreads |-> IF t \in doomed THEN Destroy ELSE state[t]]
  BY <1>1 DEF Stay, Resume
<1>4. \A d \in Cpu : /\ running[d] \in AllThreads /\ running[d] \notin doomed
                     /\ d \in AllThreads /\ d \notin doomed
  <2>1. \A d \in Cpu : running[d] \in AllThreads /\ d \in AllThreads
    BY Names DEF TypeOK
  <2>2. \A d \in Cpu : ~InReady(running[d])
    BY <2>1 DEF ListInv, NoDuplicates, OnCpu
  <2>3. \A d \in Cpu : ~InReady(d)
    BY StateKinds DEF ListInv, FiledByState, IdleInv, InReady
  <2>. QED
    BY <2>1, <2>2, <2>3
<1>5. \A d \in Cpu : state'[running[d]] = state[running[d]] /\ state'[d] = state[d]
  BY <1>3, <1>4
<1>6. \A d \in Cpu \ {c} : mode'[d] = mode[d]
  BY <1>3 DEF TypeOK
<1>. HIDE DEF BlockInv
<1>. QED
  BY <1>1, <1>2, <1>3, <1>5, <1>6, BlockFrame

(* schedule(), in all its outcomes. *)
LEMMA BlockSchedule ==
  ASSUME BlockInv, NEW c \in Cpu, Schedule(c)
  PROVE  IdleInv' /\ BlockedUntilWoken'
<1>1. PICK k \in 0 .. Len(ready) :
        LET doomed == {ready[i] : i \in 1 .. k} IN
        \/ /\ k < Len(ready)
           /\ SwitchTo(c, ready[k + 1], SubSeq(ready, k + 2, Len(ready)), doomed, idle)
        \/ /\ k = Len(ready)
           /\ \E new \in idle[c] :
                SwitchTo(c, new, <<>>, doomed, [idle EXCEPT ![c] = @ \ {new}])
        \/ /\ k = Len(ready) /\ idle[c] = {}
           /\ Stay(c, doomed)
  BY DEF Schedule
<1>. DEFINE doomed == {ready[i] : i \in 1 .. k}
<1>2. /\ ready \in Seq(AllThreads) /\ Len(ready) \in Nat
      /\ idle \in [Cpu -> SUBSET AllThreads]
  BY DEF BlockInv, SwitchInv, SchedInv, TypeInv, TypeOK
<1>3. \A u \in doomed : InReady(u)
  BY <1>2 DEF InReady
<1>. HIDE DEF doomed
<1>4. ASSUME NEW new \in AllThreads, NEW rest, NEW pool, SwitchTo(c, new, rest, doomed, pool),
             \/ InReady(new) /\ pool = idle
             \/ new \in idle[c] /\ pool = [idle EXCEPT ![c] = @ \ {new}]
      PROVE  IdleInv' /\ BlockedUntilWoken'
  <2>1. CASE FileAndSwitch(c, new, rest, doomed, pool)
    BY <1>3, <1>4, <2>1, BlockSwitch
  <2>2. CASE UNCHANGED <<state, lists, life, code, cpus, procs>>
    BY <2>2 DEF BlockInv, IdleInv, BlockedUntilWoken, lists, code, cpus
  <2>. QED
    BY <1>4, <2>1, <2>2 DEF SwitchTo
<1>5. CASE k < Len(ready) /\ SwitchTo(c, ready[k + 1], SubSeq(ready, k + 2, Len(ready)),
                                      doomed, idle)
  <2>1. ready[k + 1] \in AllThreads /\ InReady(ready[k + 1])
    BY <1>2, <1>5 DEF InReady
  <2>. QED
    BY <1>4, <1>5, <2>1
<1>6. ASSUME NEW new \in idle[c], SwitchTo(c, new, <<>>, doomed, [idle EXCEPT ![c] = @ \ {new}])
      PROVE  IdleInv' /\ BlockedUntilWoken'
  BY <1>2, <1>4, <1>6
<1>7. CASE idle[c] = {} /\ Stay(c, doomed)
  BY <1>3, <1>7, BlockStay
<1>. QED
  BY <1>1, <1>5, <1>6, <1>7 DEF doomed

(* BlockInv is inductive. *)
LEMMA BlockNext == BlockInv /\ [Next]_vars => BlockInv'
<1>. SUFFICES ASSUME BlockInv, [Next]_vars PROVE IdleInv' /\ BlockedUntilWoken'
  BY SwitchNext DEF BlockInv
<1>1. CASE UNCHANGED vars
  BY <1>1 DEF vars, lists, code, cpus, BlockInv, IdleInv, BlockedUntilWoken
<1>. QED
  BY <1>1, BlockCalls, BlockCode, BlockInterrupt, BlockSchedule DEF Next, Halted

(* A thread that blocks does not go on before schedule() took it off the   *)
(* processor and gave it one again: whatever the other processors do,      *)
(* there is an idle thread to switch to (schedule(), int_sched).           *)
THEOREM BlockingCorrect == Spec => []BlockedUntilWoken
<1>1. BlockInv => BlockedUntilWoken
  BY DEF BlockInv
<1>. QED
  BY <1>1, BlockInit, BlockNext, PTL DEF Spec
=============================================================================
