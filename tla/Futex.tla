------------------------------- MODULE Futex -------------------------------
(***************************************************************************)
(* The sleeping lock of the kernel, from top to bottom: libutil's RawFutex *)
(* (lock, try_lock, unlock and the lazily created id), the UtilCalls of    *)
(* the kernel, the FutexMap of the current process, and KFutex (block and  *)
(* unblock) with the scheduler's FutexBlock list.                          *)
(*                                                                         *)
(* One action is one atomic operation or one critical section.  Scheduling *)
(* is left out: any thread may take its next step, since preemption is     *)
(* possible between any two of them (module Scheduler).  block(FutexBlock) *)
(* is one step: between set_state and int 128 the thread can only be       *)
(* switched from, which files it on the FutexBlock list and releases       *)
(* block_lock under the lock of the thread list, and schedule never        *)
(* returns to it before that (BlockedUntilWoken of Scheduler).             *)
(*                                                                         *)
(* `alive` and destroy() are left out: dec_ref compares the count before   *)
(* the decrement with 0, and a capability adds one, so it never destroys;  *)
(* that the thread list keeps the node of a futex for ever is in `nodes`.  *)
(***************************************************************************)
EXTENDS Integers, Sequences, FiniteSets

CONSTANTS
  Thread,    \* threads of the kernel and of user processes
  Proc,      \* processes
  ProcOf,    \* the process of each thread
  Lock,      \* RawFutex objects
  MaxId,     \* bound: kernel futexes created per process
  NoId,      \* usize::MAX in RawFutex.id
  NoThread,  \* "no thread"
  NoLock     \* "no lock"

Id == 0 .. MaxId - 1

ASSUME ThreadAssumption == IsFiniteSet(Thread)
ASSUME IdAssumption == MaxId \in Nat /\ NoId \notin Id
ASSUME NoneAssumption == NoThread \notin Thread /\ NoLock \notin Lock
ASSUME ProcOfAssumption == ProcOf \in [Thread -> Proc]

(* A KFutex is named by the process and the id it was created with. *)
KFutex == Proc \X Id

VARIABLES
  count,       \* RawFutex.count
  id,          \* RawFutex.id
  home,        \* history: the process whose FutexMap the id was made in
  next_id,     \* FutexMap.next_id of each process
  data,        \* FutexMap.data of each process: the ids it holds
  data_lock,   \* holder of the lock of FutexMap.data
  wait_count,  \* KFutex.wait_count
  block_lock,  \* holder of KFutex.block_lock
  blocked,     \* the FutexBlock list of each KFutex, oldest first
  nodes,       \* the KFutexes that have such a list in the thread list
  pc,          \* where each thread stands
  op,          \* "block" or "unblock": why a thread is inside RawFutex::id
  lk,          \* the lock a thread holds or is working on
  cid,         \* the id a thread passes to FutexMap
  new_id,      \* the id a thread created in RawFutex::id
  fault        \* "InvlId" once an unwrap() of a FutexMap call has panicked

locks  == <<count, id, home>>
maps   == <<next_id, data, data_lock>>
futexs == <<wait_count, block_lock, blocked, nodes>>
locals == <<op, lk, cid, new_id>>
vars   == <<locks, maps, futexs, pc, locals, fault>>

Labels == {"idle", "hold", "id", "new", "cas", "destroy", "map", "add",
           "want", "locked", "parked", "wake", "move"}

(* Every variable keeps its type.  The count of a lock never goes below    *)
(* zero, in spite of the try_lock that stores 1: what RawFutex::unlock     *)
(* subtracts was always added before.                                      *)
TypeOK ==
  /\ count \in [Lock -> Nat]
  /\ id \in [Lock -> Id \cup {NoId}]
  /\ home \in [Lock -> SUBSET Proc]
  /\ next_id \in [Proc -> 0 .. MaxId]
  /\ data \in [Proc -> SUBSET Id]
  /\ data_lock \in [Proc -> Thread \cup {NoThread}]
  /\ wait_count \in [KFutex -> Int]
  /\ block_lock \in [KFutex -> Thread \cup {NoThread}]
  /\ blocked \in [KFutex -> Seq(Thread)]
  /\ nodes \subseteq KFutex
  /\ pc \in [Thread -> Labels]
  /\ op \in [Thread -> {"block", "unblock"}]
  /\ lk \in [Thread -> Lock \cup {NoLock}]
  /\ cid \in [Thread -> Id \cup {NoId}]
  /\ new_id \in [Thread -> Id \cup {NoId}]
  /\ fault \in {"none", "InvlId"}

Init ==
  /\ count = [l \in Lock |-> 0]
  /\ id = [l \in Lock |-> NoId]
  /\ home = [l \in Lock |-> {}]
  /\ next_id = [p \in Proc |-> 0]
  /\ data = [p \in Proc |-> {}]
  /\ data_lock = [p \in Proc |-> NoThread]
  /\ wait_count = [f \in KFutex |-> 0]
  /\ block_lock = [f \in KFutex |-> NoThread]
  /\ blocked = [f \in KFutex |-> <<>>]
  /\ nodes = {}
  /\ pc = [t \in Thread |-> "idle"]
  /\ op = [t \in Thread |-> "block"]
  /\ lk = [t \in Thread |-> NoLock]
  /\ cid = [t \in Thread |-> NoId]
  /\ new_id = [t \in Thread |-> NoId]
  /\ fault = "none"

-----------------------------------------------------------------------------
(* Thread t stands at l; panic() stops every thread. *)
At(t, l) == fault = "none" /\ pc[t] = l
Goto(t, l) == pc' = [pc EXCEPT ![t] = l]

(* The futex that cid[t] names in the map of the thread's own process. *)
Kf(t) == <<ProcOf[t], cid[t]>>

DataFree(t) == data_lock[ProcOf[t]] = NoThread

(* Mutant: the first waiter is taken for the owner. *)
LockCallOffByOne(t, l) ==
  /\ At(t, "idle")
  /\ count' = [count EXCEPT ![l] = @ + 1]
  /\ lk' = [lk EXCEPT ![t] = l]
  /\ op' = [op EXCEPT ![t] = "block"]
  /\ Goto(t, IF count[l] > 1 THEN "id" ELSE "hold")
  /\ UNCHANGED <<id, home, maps, futexs, cid, new_id, fault>>

(* RawFutex::lock *)
LockCall(t, l) ==
  /\ At(t, "idle")
  /\ count' = [count EXCEPT ![l] = @ + 1]
  /\ lk' = [lk EXCEPT ![t] = l]
  /\ op' = [op EXCEPT ![t] = "block"]
  /\ Goto(t, IF count[l] > 0 THEN "id" ELSE "hold")
  /\ UNCHANGED <<id, home, maps, futexs, cid, new_id, fault>>

(* Mutant: try_lock does not count its caller. *)
TryLockNoCount(t, l) ==
  /\ At(t, "idle")
  /\ count[l] = 0
  /\ lk' = [lk EXCEPT ![t] = l]
  /\ Goto(t, "hold")
  /\ UNCHANGED <<locks, maps, futexs, op, cid, new_id, fault>>

(* RawFutex::try_lock; a failure changes nothing. *)
TryLock(t, l) ==
  /\ At(t, "idle")
  /\ count[l] = 0
  /\ count' = [count EXCEPT ![l] = 1]
  /\ lk' = [lk EXCEPT ![t] = l]
  /\ Goto(t, "hold")
  /\ UNCHANGED <<id, home, maps, futexs, op, cid, new_id, fault>>

(* RawFutex::unlock *)
Unlock(t) ==
  LET l == lk[t] IN
  /\ At(t, "hold")
  /\ count' = [count EXCEPT ![l] = @ - 1]
  /\ \/ /\ count[l] > 1
        /\ op' = [op EXCEPT ![t] = "unblock"]
        /\ Goto(t, "id")
        /\ UNCHANGED lk
     \/ /\ count[l] <= 1
        /\ lk' = [lk EXCEPT ![t] = NoLock]
        /\ Goto(t, "idle")
        /\ UNCHANGED op
  /\ UNCHANGED <<id, home, maps, futexs, cid, new_id, fault>>

-----------------------------------------------------------------------------
(* RawFutex::id                                                            *)

IdLoad(t) ==
  LET i == id[lk[t]] IN
  /\ At(t, "id")
  /\ cid' = [cid EXCEPT ![t] = i]
  /\ Goto(t, IF i # NoId THEN "map" ELSE "new")
  /\ UNCHANGED <<locks, maps, futexs, op, lk, new_id, fault>>

(* futex_new: KFutex::new makes a node for the threads that will block,    *)
(* and the futex is entered in the map of the current process.             *)
FutexNew(t) ==
  LET p == ProcOf[t]
      i == next_id[p]
  IN
  /\ At(t, "new")
  /\ DataFree(t)
  /\ i < MaxId
  /\ next_id' = [next_id EXCEPT ![p] = i + 1]
  /\ data' = [data EXCEPT ![p] = @ \cup {i}]
  /\ nodes' = nodes \cup {<<p, i>>}
  /\ new_id' = [new_id EXCEPT ![t] = i]
  /\ Goto(t, "cas")
  /\ UNCHANGED <<locks, data_lock, wait_count, block_lock, blocked,
                 op, lk, cid, fault>>

(* Mutant: a plain store instead of compare_exchange. *)
StoreId(t) ==
  /\ At(t, "cas")
  /\ id' = [id EXCEPT ![lk[t]] = new_id[t]]
  /\ home' = [home EXCEPT ![lk[t]] = {ProcOf[t]}]
  /\ cid' = [cid EXCEPT ![t] = new_id[t]]
  /\ new_id' = [new_id EXCEPT ![t] = NoId]
  /\ Goto(t, "map")
  /\ UNCHANGED <<count, maps, futexs, op, lk, fault>>

(* The compare_exchange of the id. *)
CompareExchange(t) ==
  LET l == lk[t] IN
  /\ At(t, "cas")
  /\ \/ /\ id[l] = NoId
        /\ id' = [id EXCEPT ![l] = new_id[t]]
        /\ home' = [home EXCEPT ![l] = {ProcOf[t]}]
        /\ cid' = [cid EXCEPT ![t] = new_id[t]]
        /\ new_id' = [new_id EXCEPT ![t] = NoId]
        /\ Goto(t, "map")
     \/ /\ id[l] # NoId
        /\ cid' = [cid EXCEPT ![t] = id[l]]
        /\ Goto(t, "destroy")
        /\ UNCHANGED <<id, home, new_id>>
  /\ UNCHANGED <<count, maps, futexs, op, lk, fault>>

(* Mutant: the futex that lost the race stays in the map. *)
FutexDestroyNothing(t) ==
  /\ At(t, "destroy")
  /\ new_id' = [new_id EXCEPT ![t] = NoId]
  /\ Goto(t, "map")
  /\ UNCHANGED <<locks, maps, futexs, op, lk, cid, fault>>

(* futex_destroy of the futex nobody else has seen: it leaves the map, and *)
(* its node stays in the thread list.                                      *)
FutexDestroy(t) ==
  /\ At(t, "destroy")
  /\ DataFree(t)
  /\ data' = [data EXCEPT ![ProcOf[t]] = @ \ {new_id[t]}]
  /\ new_id' = [new_id EXCEPT ![t] = NoId]
  /\ Goto(t, "map")
  /\ UNCHANGED <<locks, next_id, data_lock, futexs, op, lk, cid, fault>>

-----------------------------------------------------------------------------
(* FutexMap::block and unblock look the id up in the map of the current    *)
(* process; block lets go of the map, unblock keeps it locked until it is  *)
(* done.  The UtilCalls unwrap the result.                                 *)
FutexMapGet(t) ==
  LET p == ProcOf[t] IN
  /\ At(t, "map")
  /\ DataFree(t)
  /\ fault' = IF cid[t] \in data[p] THEN fault ELSE "InvlId"
  /\ data_lock' = [data_lock EXCEPT ![p] = IF op[t] = "unblock" THEN t ELSE @]
  /\ Goto(t, IF op[t] = "unblock" THEN "wake" ELSE "add")
  /\ UNCHANGED <<locks, next_id, data, futexs, locals>>

-----------------------------------------------------------------------------
(* KFutex::block                                                           *)

(* fetch_add: a negative count means that an unblock came first. *)
BlockAdd(t) ==
  LET f == Kf(t) IN
  /\ At(t, "add")
  /\ wait_count' = [wait_count EXCEPT ![f] = @ + 1]
  /\ Goto(t, IF wait_count[f] >= 0 THEN "want" ELSE "hold")
  /\ UNCHANGED <<locks, maps, block_lock, blocked, nodes, locals, fault>>

(* KFutex::lock, a spin lock on block_lock. *)
BlockLock(t) ==
  LET f == Kf(t) IN
  /\ At(t, "want")
  /\ block_lock[f] = NoThread
  /\ block_lock' = [block_lock EXCEPT ![f] = t]
  /\ Goto(t, "locked")
  /\ UNCHANGED <<locks, maps, wait_count, blocked, nodes, locals, fault>>

(* Mutant: schedule does not call atomic_process. *)
BlockParkLocked(t) ==
  LET f == Kf(t) IN
  /\ At(t, "locked")
  /\ blocked' = [blocked EXCEPT ![f] = Append(@, t)]
  /\ Goto(t, "parked")
  /\ UNCHANGED <<locks, maps, wait_count, block_lock, nodes, locals, fault>>

(* block(FutexBlock): atomic_process releases block_lock as schedule files *)
(* the thread.                                                             *)
BlockPark(t) ==
  LET f == Kf(t) IN
  /\ At(t, "locked")
  /\ blocked' = [blocked EXCEPT ![f] = Append(@, t)]
  /\ block_lock' = [block_lock EXCEPT ![f] = NoThread]
  /\ Goto(t, "parked")
  /\ UNCHANGED <<locks, maps, wait_count, nodes, locals, fault>>

-----------------------------------------------------------------------------
(* KFutex::unblock with n = 1                                              *)

(* Mutant: unblock does not take block_lock. *)
UnblockNoLock(t) ==
  /\ At(t, "wake")
  /\ Goto(t, "move")
  /\ UNCHANGED <<locks, maps, futexs, locals, fault>>

UnblockLock(t) ==
  LET f == Kf(t) IN
  /\ At(t, "wake")
  /\ block_lock[f] = NoThread
  /\ block_lock' = [block_lock EXCEPT ![f] = t]
  /\ Goto(t, "move")
  /\ UNCHANGED <<locks, maps, wait_count, blocked, nodes, locals, fault>>

(* Under the lock of the thread list: the oldest blocked thread, if there  *)
(* is one, becomes ready and returns from its lock(); all locks are given  *)
(* back.                                                                   *)
UnblockMove(t) ==
  LET f == Kf(t) IN
  /\ At(t, "move")
  /\ wait_count' = [wait_count EXCEPT ![f] = @ - 1]
  /\ \/ /\ blocked[f] # <<>>
        /\ blocked' = [blocked EXCEPT ![f] = Tail(@)]
        /\ pc' = [pc EXCEPT ![t] = "idle", ![Head(blocked[f])] = "hold"]
     \/ /\ blocked[f] = <<>>
        /\ Goto(t, "idle")
        /\ UNCHANGED blocked
  /\ block_lock' = [block_lock EXCEPT ![f] = NoThread]
  /\ data_lock' = [data_lock EXCEPT ![ProcOf[t]] = NoThread]
  /\ lk' = [lk EXCEPT ![t] = NoLock]
  /\ UNCHANGED <<locks, next_id, data, nodes, op, cid, new_id, fault>>

-----------------------------------------------------------------------------
(* The next step of a call that is under way. *)
Step(t) ==
  \/ IdLoad(t) \/ FutexNew(t) \/ CompareExchange(t) \/ FutexDestroy(t)
  \/ FutexMapGet(t)
  \/ BlockAdd(t) \/ BlockLock(t) \/ BlockPark(t)
  \/ UnblockLock(t) \/ UnblockMove(t)

Next ==
  \E t \in Thread :
    \/ \E l \in Lock : LockCall(t, l) \/ TryLock(t, l)
    \/ Unlock(t)
    \/ Step(t)

Spec == Init /\ [][Next]_vars

(* Every thread is scheduled again and again, a guard is dropped some      *)
(* time, and a spinning thread gets a spin lock that is free again and     *)
(* again.                                                                  *)
Fairness ==
  \A t \in Thread :
    /\ WF_vars(Unlock(t))
    /\ WF_vars(IdLoad(t) \/ CompareExchange(t) \/ BlockAdd(t)
               \/ BlockPark(t) \/ UnblockMove(t))
    /\ SF_vars(FutexNew(t) \/ FutexDestroy(t) \/ FutexMapGet(t)
               \/ BlockLock(t) \/ UnblockLock(t))

FairSpec == Spec /\ Fairness

-----------------------------------------------------------------------------
(* What holds.                                                             *)

Holds(t, l) == pc[t] = "hold" /\ lk[t] = l

(* Thread t is inside lock(), or inside unlock(), of l. *)
InLock(t, l)   == lk[t] = l /\ op[t] = "block" /\ pc[t] \notin {"idle", "hold"}
InUnlock(t, l) == lk[t] = l /\ op[t] = "unblock" /\ pc[t] \notin {"idle", "hold"}

(* The futex stack behaves as a lock: RawFutex::lock returns to one thread *)
(* at a time, although the permit travels from unlock to lock through a    *)
(* counter of the lock, a counter of the KFutex and a list of the          *)
(* scheduler, each updated at its own time.                                *)
Abstract == INSTANCE Mutex WITH
  holders <- [l \in Lock |-> {t \in Thread : Holds(t, l)}],
  waiting <- [l \in Lock |-> {t \in Thread : InLock(t, l)}]

ImplementsMutex == Abstract!Spec

(* All threads that work on a lock use the same KFutex, the one that was   *)
(* made in the map they look it up in and whose id is published, however   *)
(* many of them created one.  It is so for the threads of one process: in  *)
(* another process the id names another KFutex, or none.                   *)
OneFutexPerLock ==
  \A t \in Thread :
    pc[t] \in {"destroy", "map", "add", "want", "locked", "parked", "wake", "move"}
      => /\ cid[t] = id[lk[t]] /\ cid[t] # NoId
         /\ home[lk[t]] = {ProcOf[t]}

(* A capability in the FutexMap of a process is that of a lock it was      *)
(* published for by a thread of that process, or its creator, a thread of  *)
(* that process, is about to publish or to destroy it: the loser of the    *)
(* race for the id leaves no entry in its map.  (It does leave the node of *)
(* its futex in the thread list: see NodesFreed.)                          *)
NoLeak ==
  \A p \in Proc : \A i \in data[p] :
    \/ \E l \in Lock : id[l] = i /\ p \in home[l]
    \/ \E t \in Thread : ProcOf[t] = p /\ new_id[t] = i

(* block_lock is held by the thread that took it until that thread is      *)
(* filed or done: the force_unlock in the scheduler releases no lock but   *)
(* that of the blocking thread.                                            *)
BlockLockOwned ==
  \A f \in KFutex, t \in Thread :
    block_lock[f] = t <=> pc[t] \in {"locked", "move"} /\ Kf(t) = f

(* An unlock() comes to its end: it spins on block_lock with the map of    *)
(* the process locked, and no thread that holds block_lock needs the map.  *)
UnlockReturns ==
  \A t \in Thread, l \in Lock : InUnlock(t, l) ~> pc[t] = "idle" \/ fault # "none"

-----------------------------------------------------------------------------
(* What the code says and does not do.                                     *)

(* sync.rs, KFutex::block: block_lock solves the race with unblock; here,  *)
(* a thread in lock() gets the lock, when every holder lets it go.         *)
LockReturns ==
  \A t \in Thread, l \in Lock : InLock(t, l) ~> Holds(t, l)

(* The syscall document: an object without references left is freed.  Of   *)
(* a KFutex that is what KFutex::destroy is for, which takes its node from *)
(* the thread list; so a node is there only for a KFutex in a map.         *)
NodesFreed == \A f \in nodes : f[2] \in data[f[1]]

(* util/mod.rs, UtilCalls: the unwrap() of FutexMap::block and unblock     *)
(* never panics.                                                           *)
IdResolves == fault # "InvlId"
=============================================================================
