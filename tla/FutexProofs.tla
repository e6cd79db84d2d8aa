---------------------------- MODULE FutexProofs ----------------------------
(***************************************************************************)
(* Proofs about module Futex, for any number of threads, processes and     *)
(* locks.                                                                  *)
(***************************************************************************)
EXTENDS Futex, FiniteSetTheorems, TLAPS

-----------------------------------------------------------------------------
(* The inductive invariant.                                                *)

(* What the label of a thread says of its local variables. *)
PcInv ==
  \A t \in Thread :
    /\ lk[t] = NoLock <=> pc[t] = "idle"
    /\ new_id[t] = NoId <=> pc[t] \notin {"cas", "destroy"}
    /\ pc[t] \in {"add", "want", "locked", "parked"} => op[t] = "block"
    /\ pc[t] \in {"wake", "move"} => op[t] = "unblock"

(* An id that a thread has read is the one its lock is published with. *)
IdRead ==
  \A t \in Thread :
    pc[t] \in {"destroy", "map", "add", "want", "locked", "parked", "wake", "move"}
      => cid[t] = id[lk[t]] /\ cid[t] # NoId

(* The id of a lock is made in the map of some process of a thread. *)
HomeInv ==
  \A l \in Lock :
    /\ home[l] = {} <=> id[l] = NoId
    /\ \A p \in home[l] : \E t \in Thread : p = ProcOf[t]

(* The FutexBlock list of a KFutex has parked threads only, each once. *)
BlockedInv ==
  \A f \in KFutex :
    /\ \A i \in 1 .. Len(blocked[f]) :
         pc[blocked[f][i]] = "parked" /\ Kf(blocked[f][i]) = f
    /\ \A i, j \in 1 .. Len(blocked[f]) : blocked[f][i] = blocked[f][j] => i = j

(* The threads that RawFutex.count counts: those that hold the lock and    *)
(* those on their way into it.  Holders and Waiters are what they are for  *)
(* a user of the lock.                                                     *)
Counted(l) == {t \in Thread : Holds(t, l) \/ InLock(t, l)}

Holders(l) == {t \in Thread : Holds(t, l)}
Waiters(l) == {t \in Thread : InLock(t, l)}

CountInv == \A l \in Lock : count[l] = Cardinality(Counted(l))

FutexInv ==
  /\ TypeOK /\ PcInv /\ IdRead /\ HomeInv /\ NoLeak
  /\ BlockLockOwned /\ BlockedInv /\ CountInv

(* Ids created by process p are created once, and published for one lock. *)
IdsInv(p) ==
  /\ \A l \in Lock : id[l] # NoId => id[l] < next_id[p]
  /\ \A t \in Thread : new_id[t] # NoId => new_id[t] < next_id[p]
  /\ \A t, u \in Thread : new_id[t] = new_id[u] /\ new_id[t] # NoId => t = u
  /\ \A t \in Thread, l \in Lock : new_id[t] = id[l] => id[l] = NoId
  /\ \A l, m \in Lock : id[l] = id[m] /\ id[l] # NoId => l = m

(* A KFutex that is not published has not been used. *)
UnusedInv(p) ==
  \A i \in Id : (\A l \in Lock : id[l] # i) => wait_count[<<p, i>>] = 0

(* The threads that have the right to l, or are handing it on; those that  *)
(* wait in its KFutex; and the KFutex's wait_count.                        *)
Permit(l) == {t \in Thread : Holds(t, l) \/ InUnlock(t, l)}
Queued(l) == {t \in Thread : lk[t] = l /\ pc[t] \in {"want", "locked", "parked"}}
WaitCount(p, l) == IF id[l] = NoId THEN 0 ELSE wait_count[<<p, id[l]>>]

(* There is one right to each lock.  While a thread has it, wait_count is  *)
(* the number of waiters; it is -1 when unblock() left the right in the    *)
(* KFutex for the next block(), and then nobody waits.                     *)
LockRight(p, l) ==
  /\ \A t, u \in Permit(l) : t = u
  /\ Permit(l) # {} => count[l] > 0 /\ WaitCount(p, l) = Cardinality(Queued(l))
  /\ WaitCount(p, l) < 0 =>
       /\ WaitCount(p, l) = -1
       /\ Permit(l) = {} /\ Queued(l) = {} /\ count[l] > 0
  /\ count[l] = 0 => WaitCount(p, l) = 0

PermitInv(p) == \A l \in Lock : LockRight(p, l)

MutexInv(p) == FutexInv /\ IdsInv(p) /\ UnusedInv(p) /\ PermitInv(p)

-----------------------------------------------------------------------------
(* Facts about the constants and about sets of threads.                    *)

(* There are finitely many threads. *)
LEMMA ThreadCard ==
  ASSUME NEW S, S \subseteq Thread
  PROVE  /\ IsFiniteSet(S) /\ Cardinality(S) \in Nat
         /\ Cardinality(S) = 0 <=> S = {}
BY ThreadAssumption, FS_Subset, FS_CardinalityType, FS_EmptySet

(* One more thread. *)
LEMMA CardAdd ==
  ASSUME NEW S, S \subseteq Thread, NEW t \in Thread, t \notin S
  PROVE  Cardinality(S \cup {t}) = Cardinality(S) + 1
BY ThreadCard, FS_AddElement

(* One thread less. *)
LEMMA CardDel ==
  ASSUME NEW S, S \subseteq Thread, NEW t \in S
  PROVE  /\ Cardinality(S \ {t}) = Cardinality(S) - 1
         /\ Cardinality(S) > 0
<1>1. /\ IsFiniteSet(S) /\ Cardinality(S) \in Nat /\ Cardinality(S) # 0
  BY ThreadCard
<1>2. Cardinality(S \ {t}) = Cardinality(S) - 1
  BY <1>1, FS_RemoveElement
<1>. QED
  BY <1>1, <1>2

(* The futex that a thread names. *)
LEMMA KfType ==
  ASSUME TypeOK, NEW t \in Thread
  PROVE  /\ ProcOf[t] \in Proc
         /\ cid[t] # NoId => Kf(t) \in KFutex
BY ProcOfAssumption DEF TypeOK, Kf, KFutex

-----------------------------------------------------------------------------
(* One lemma per part of the invariant: no step breaks it.                 *)

(* The initial states satisfy the invariant: no lock is held or asked for. *)
LEMMA FutexInit == Init => FutexInv
<1>. SUFFICES ASSUME Init PROVE FutexInv
  OBVIOUS
<1>1. TypeOK
  BY IdAssumption DEF Init, TypeOK, Labels
<1>2. PcInv /\ IdRead /\ HomeInv /\ NoLeak /\ BlockedInv
  BY DEF Init, PcInv, IdRead, HomeInv, NoLeak, BlockedInv
<1>3. BlockLockOwned
  BY NoneAssumption DEF Init, BlockLockOwned
<1>4. CountInv
  <2>. SUFFICES ASSUME NEW l \in Lock PROVE count[l] = Cardinality(Counted(l))
    BY DEF CountInv
  <2>1. Counted(l) = {}
    BY DEF Init, Counted, Holds, InLock
  <2>. QED
    BY <2>1, FS_EmptySet DEF Init
<1>. QED
  BY <1>1, <1>2, <1>3, <1>4 DEF FutexInv

(* No step changes the type of a variable; unlock() subtracts from a count *)
(* that counts at least its caller.                                        *)
LEMMA TypeStep ==
  ASSUME FutexInv, Next
  PROVE  TypeOK'
<1>. USE DEF FutexInv, TypeOK, At, Goto, Labels, locks, maps, futexs, locals
<1>1. ASSUME NEW t \in Thread, NEW l \in Lock, LockCall(t, l) PROVE TypeOK'
  BY <1>1 DEF LockCall
<1>2. ASSUME NEW t \in Thread, NEW l \in Lock, TryLock(t, l) PROVE TypeOK'
  BY <1>2 DEF TryLock
<1>3. ASSUME NEW t \in Thread, Unlock(t) PROVE TypeOK'
  <2>1. lk[t] \in Lock /\ t \in Counted(lk[t])
    BY <1>3 DEF Unlock, PcInv, Counted, Holds
  <2>2. count[lk[t]] > 0
    BY <2>1, CardDel DEF CountInv, Counted
  <2>3. count' \in [Lock -> Nat]
    <3>1. count[lk[t]] - 1 \in Nat
      BY <2>1, <2>2
    <3>. QED
      BY <1>3, <2>1, <3>1 DEF Unlock
  <2>. QED
    BY <1>3, <2>1, <2>3 DEF Unlock
<1>4. ASSUME NEW t \in Thread, IdLoad(t) PROVE TypeOK'
  BY <1>4 DEF IdLoad, PcInv
<1>5. ASSUME NEW t \in Thread, FutexNew(t) PROVE TypeOK'
  <2>1. next_id[ProcOf[t]] \in Id /\ next_id[ProcOf[t]] + 1 \in 0 .. MaxId
    <3>1. next_id[ProcOf[t]] \in 0 .. MaxId /\ next_id[ProcOf[t]] < MaxId
      BY <1>5, ProcOfAssumption DEF FutexNew
    <3>2. MaxId \in Nat
      BY IdAssumption
    <3>. QED
      BY <3>1, <3>2 DEF Id
  <2>2. next_id' \in [Proc -> 0 .. MaxId]
    BY <1>5, <2>1 DEF FutexNew
  <2>3. data' \in [Proc -> SUBSET Id]
    <3>1. data[ProcOf[t]] \cup {next_id[ProcOf[t]]} \in SUBSET Id
      BY <2>1, ProcOfAssumption
    <3>. QED
      BY <1>5, <3>1 DEF FutexNew
  <2>4. nodes' \subseteq KFutex
    <3>1. <<ProcOf[t], next_id[ProcOf[t]]>> \in KFutex
      BY <2>1, ProcOfAssumption DEF KFutex
    <3>. QED
      BY <1>5, <3>1 DEF FutexNew
  <2>5. new_id' \in [Thread -> Id \cup {NoId}] /\ pc' \in [Thread -> Labels]
    BY <1>5, <2>1 DEF FutexNew
  <2>6. UNCHANGED <<count, id, home, data_lock, wait_count, block_lock, blocked,
                    op, lk, cid, fault>>
    BY <1>5 DEF FutexNew
  <2>. QED
    <3>1. /\ count' \in [Lock -> Nat] /\ id' \in [Lock -> Id \cup {NoId}]
          /\ home' \in [Lock -> SUBSET Proc]
          /\ data_lock' \in [Proc -> Thread \cup {NoThread}]
          /\ wait_count' \in [KFutex -> Int]
      BY <2>6
    <3>2. /\ block_lock' \in [KFutex -> Thread \cup {NoThread}]
          /\ blocked' \in [KFutex -> Seq(Thread)]
          /\ op' \in [Thread -> {"block", "unblock"}]
          /\ lk' \in [Thread -> Lock \cup {NoLock}]
          /\ cid' \in [Thread -> Id \cup {NoId}] /\ fault' \in {"none", "InvlId"}
      BY <2>6
    <3>. QED
      BY <2>2, <2>3, <2>4, <2>5, <3>1, <3>2
<1>6. ASSUME NEW t \in Thread, CompareExchange(t) PROVE TypeOK'
  <2>1. lk[t] \in Lock /\ new_id[t] \in Id
    BY <1>6 DEF CompareExchange, PcInv
  <2>2. CASE id[lk[t]] = NoId
    <3>1. home' \in [Lock -> SUBSET Proc]
      <4>1. {ProcOf[t]} \in SUBSET Proc
        BY ProcOfAssumption
      <4>2. home' = [home EXCEPT ![lk[t]] = {ProcOf[t]}]
        BY <1>6, <2>2 DEF CompareExchange
      <4>. QED
        BY <2>1, <4>1, <4>2
    <3>2. /\ id' \in [Lock -> Id \cup {NoId}]
          /\ cid' \in [Thread -> Id \cup {NoId}] /\ new_id' \in [Thread -> Id \cup {NoId}]
      BY <1>6, <2>1, <2>2 DEF CompareExchange
    <3>3. pc' \in [Thread -> Labels] /\ UNCHANGED <<count, maps, futexs, op, lk, fault>>
      BY <1>6, <2>1, <2>2 DEF CompareExchange
    <3>. QED
      BY <3>1, <3>2, <3>3
  <2>3. CASE id[lk[t]] # NoId
    BY <1>6, <2>1, <2>3 DEF CompareExchange
  <2>. QED
    BY <2>2, <2>3
<1>7. ASSUME NEW t \in Thread, FutexDestroy(t) PROVE TypeOK'
  BY <1>7 DEF FutexDestroy
<1>8. ASSUME NEW t \in Thread, FutexMapGet(t) PROVE TypeOK'
  BY ProcOfAssumption, <1>8 DEF FutexMapGet
<1>9. ASSUME NEW t \in Thread, BlockAdd(t) PROVE TypeOK'
  BY <1>9, KfType DEF BlockAdd, IdRead
<1>10. ASSUME NEW t \in Thread, BlockLock(t) PROVE TypeOK'
  BY <1>10, KfType DEF BlockLock, IdRead
<1>11. ASSUME NEW t \in Thread, BlockPark(t) PROVE TypeOK'
  BY <1>11, KfType DEF BlockPark, IdRead
<1>12. ASSUME NEW t \in Thread, UnblockLock(t) PROVE TypeOK'
  BY <1>12, KfType DEF UnblockLock, IdRead
<1>13. ASSUME NEW t \in Thread, UnblockMove(t) PROVE TypeOK'
  <2>1. Kf(t) \in KFutex
    BY <1>13, KfType DEF UnblockMove, IdRead
  <2>2. ASSUME blocked[Kf(t)] # <<>>
        PROVE  pc' \in [Thread -> Labels] /\ blocked' \in [KFutex -> Seq(Thread)]
    <3>1. Head(blocked[Kf(t)]) \in Thread /\ Tail(blocked[Kf(t)]) \in Seq(Thread)
      BY <2>1, <2>2
    <3>. QED
      BY <1>13, <2>1, <2>2, <3>1 DEF UnblockMove
  <2>3. ASSUME blocked[Kf(t)] = <<>>
        PROVE  pc' \in [Thread -> Labels] /\ blocked' \in [KFutex -> Seq(Thread)]
    BY <1>13, <2>1, <2>3 DEF UnblockMove
  <2>4. pc' \in [Thread -> Labels] /\ blocked' \in [KFutex -> Seq(Thread)]
    BY <2>2, <2>3
  <2>5. wait_count' \in [KFutex -> Int]
    BY <1>13, <2>1 DEF UnblockMove
  <2>. QED
    BY <1>13, <2>4, <2>5 DEF UnblockMove
<1>. QED
  BY <1>1, <1>2, <1>3, <1>4, <1>5, <1>6, <1>7, <1>8, <1>9, <1>10, <1>11,
     <1>12, <1>13 DEF Next, Step

(* The thread that unblock() takes from the list is another one, parked in *)
(* the lock() of some lock with this KFutex.                               *)
LEMMA HeadParked ==
  ASSUME FutexInv, NEW t \in Thread, At(t, "move"), blocked[Kf(t)] # <<>>
  PROVE  LET h == Head(blocked[Kf(t)]) IN
         /\ Kf(t) \in KFutex
         /\ h \in Thread /\ h # t
         /\ pc[h] = "parked" /\ op[h] = "block" /\ lk[h] \in Lock
         /\ Kf(h) = Kf(t)
<1>. DEFINE s == blocked[Kf(t)]
<1>1. Kf(t) \in KFutex
  BY KfType DEF At, FutexInv, IdRead
<1>2. s \in Seq(Thread) /\ Len(s) > 0 /\ Head(s) = s[1] /\ Head(s) \in Thread
  BY <1>1 DEF FutexInv, TypeOK
<1>3. pc[s[1]] = "parked" /\ Kf(s[1]) = Kf(t)
  BY <1>1, <1>2 DEF FutexInv, BlockedInv
<1>. QED
  BY <1>1, <1>2, <1>3 DEF FutexInv, TypeOK, PcInv, At

(* The labels keep agreeing with the local variables. *)
LEMMA PcStep ==
  ASSUME FutexInv, Next
  PROVE  PcInv'
<1>. USE DEF FutexInv, TypeOK, At, Goto, locks, maps, futexs, locals, PcInv
<1>1. ASSUME NEW t \in Thread, NEW l \in Lock, LockCall(t, l) PROVE PcInv'
  BY <1>1, NoneAssumption, IdAssumption DEF LockCall
<1>2. ASSUME NEW t \in Thread, NEW l \in Lock, TryLock(t, l) PROVE PcInv'
  BY <1>2, NoneAssumption, IdAssumption DEF TryLock
<1>3. ASSUME NEW t \in Thread, Unlock(t) PROVE PcInv'
  BY <1>3, NoneAssumption, IdAssumption DEF Unlock
<1>4. ASSUME NEW t \in Thread, IdLoad(t) PROVE PcInv'
  BY <1>4, NoneAssumption, IdAssumption DEF IdLoad
<1>5. ASSUME NEW t \in Thread, FutexNew(t) PROVE PcInv'
  <2>1. next_id[ProcOf[t]] # NoId
    <3>1. next_id[ProcOf[t]] \in 0 .. MaxId /\ next_id[ProcOf[t]] < MaxId
      BY <1>5, ProcOfAssumption DEF FutexNew
    <3>2. MaxId \in Nat
      BY IdAssumption
    <3>3. next_id[ProcOf[t]] \in Id
      BY <3>1, <3>2 DEF Id
    <3>. QED
      BY <3>3, IdAssumption
  <2>. QED
    BY <1>5, <2>1 DEF FutexNew
<1>6. ASSUME NEW t \in Thread, CompareExchange(t) PROVE PcInv'
  BY <1>6, NoneAssumption, IdAssumption DEF CompareExchange
<1>7. ASSUME NEW t \in Thread, FutexDestroy(t) PROVE PcInv'
  BY <1>7, NoneAssumption, IdAssumption DEF FutexDestroy
<1>8. ASSUME NEW t \in Thread, FutexMapGet(t) PROVE PcInv'
  BY <1>8, NoneAssumption, IdAssumption DEF FutexMapGet
<1>9. ASSUME NEW t \in Thread, BlockAdd(t) PROVE PcInv'
  BY <1>9, NoneAssumption, IdAssumption DEF BlockAdd
<1>10. ASSUME NEW t \in Thread, BlockLock(t) PROVE PcInv'
  BY <1>10, NoneAssumption, IdAssumption DEF BlockLock
<1>11. ASSUME NEW t \in Thread, BlockPark(t) PROVE PcInv'
  BY <1>11, NoneAssumption, IdAssumption DEF BlockPark
<1>12. ASSUME NEW t \in Thread, UnblockLock(t) PROVE PcInv'
  BY <1>12, NoneAssumption, IdAssumption DEF UnblockLock
<1>13. ASSUME NEW t \in Thread, UnblockMove(t) PROVE PcInv'
  <2>1. CASE blocked[Kf(t)] # <<>>
    BY <1>13, <2>1, HeadParked DEF UnblockMove
  <2>2. CASE blocked[Kf(t)] = <<>>
    BY <1>13, <2>2 DEF UnblockMove
  <2>. QED
    BY <2>1, <2>2
<1>. QED
  BY <1>1, <1>2, <1>3, <1>4, <1>5, <1>6, <1>7, <1>8,
     <1>9, <1>10, <1>11, <1>12, <1>13 DEF Next, Step

(* An id is published once and read after that. *)
LEMMA IdReadStep ==
  ASSUME FutexInv, Next
  PROVE  IdRead'
<1>. USE DEF FutexInv, TypeOK, At, Goto, locks, maps, futexs, locals, PcInv, IdRead
<1>1. ASSUME NEW t \in Thread, NEW l \in Lock, LockCall(t, l) PROVE IdRead'
  BY <1>1, NoneAssumption DEF LockCall
<1>2. ASSUME NEW t \in Thread, NEW l \in Lock, TryLock(t, l) PROVE IdRead'
  BY <1>2, NoneAssumption DEF TryLock
<1>3. ASSUME NEW t \in Thread, Unlock(t) PROVE IdRead'
  BY <1>3, NoneAssumption DEF Unlock
<1>4. ASSUME NEW t \in Thread, IdLoad(t) PROVE IdRead'
  BY <1>4, NoneAssumption DEF IdLoad
<1>5. ASSUME NEW t \in Thread, FutexNew(t) PROVE IdRead'
  BY <1>5, NoneAssumption DEF FutexNew
<1>6. ASSUME NEW t \in Thread, CompareExchange(t) PROVE IdRead'
  <2>1. lk[t] \in Lock /\ new_id[t] \in Id
    BY <1>6 DEF CompareExchange
  <2>. SUFFICES ASSUME NEW u \in Thread,
                       pc'[u] \in {"destroy", "map", "add", "want", "locked",
                                  "parked", "wake", "move"}
                PROVE  cid'[u] = id'[lk[u]] /\ cid'[u] # NoId
    BY <1>6 DEF CompareExchange
  <2>2. CASE u = t
    BY <1>6, <2>1, <2>2, IdAssumption DEF CompareExchange
  <2>3. CASE u # t
    <3>1. lk[u] \in Lock /\ cid[u] = id[lk[u]] /\ cid[u] # NoId
      BY <1>6, <2>3 DEF CompareExchange
    <3>2. id'[lk[u]] = id[lk[u]] /\ cid'[u] = cid[u]
      BY <1>6, <2>1, <2>3, <3>1 DEF CompareExchange
    <3>. QED
      BY <3>1, <3>2
  <2>. QED
    BY <2>2, <2>3
<1>7. ASSUME NEW t \in Thread, FutexDestroy(t) PROVE IdRead'
  BY <1>7, NoneAssumption DEF FutexDestroy
<1>8. ASSUME NEW t \in Thread, FutexMapGet(t) PROVE IdRead'
  BY <1>8, NoneAssumption DEF FutexMapGet
<1>9. ASSUME NEW t \in Thread, BlockAdd(t) PROVE IdRead'
  BY <1>9, NoneAssumption DEF BlockAdd
<1>10. ASSUME NEW t \in Thread, BlockLock(t) PROVE IdRead'
  BY <1>10, NoneAssumption DEF BlockLock
<1>11. ASSUME NEW t \in Thread, BlockPark(t) PROVE IdRead'
  BY <1>11, NoneAssumption DEF BlockPark
<1>12. ASSUME NEW t \in Thread, UnblockLock(t) PROVE IdRead'
  BY <1>12, NoneAssumption DEF UnblockLock
<1>13. ASSUME NEW t \in Thread, UnblockMove(t) PROVE IdRead'
  <2>1. CASE blocked[Kf(t)] # <<>>
    BY <1>13, <2>1, HeadParked DEF UnblockMove
  <2>2. CASE blocked[Kf(t)] = <<>>
    BY <1>13, <2>2 DEF UnblockMove
  <2>. QED
    BY <2>1, <2>2
<1>. QED
  BY <1>1, <1>2, <1>3, <1>4, <1>5, <1>6, <1>7, <1>8,
     <1>9, <1>10, <1>11, <1>12, <1>13 DEF Next, Step

(* Only the compare_exchange publishes an id, and it publishes a new one. *)
LEMMA HomeStep ==
  ASSUME FutexInv, Next
  PROVE  HomeInv'
<1>1. CASE UNCHANGED <<id, home>>
  BY <1>1 DEF FutexInv, HomeInv
<1>2. ASSUME NEW t \in Thread, CompareExchange(t) PROVE HomeInv'
  <2>1. CASE id[lk[t]] = NoId
    <3>1. /\ lk[t] \in Lock /\ new_id[t] # NoId
          /\ id' = [id EXCEPT ![lk[t]] = new_id[t]]
          /\ home' = [home EXCEPT ![lk[t]] = {ProcOf[t]}]
      BY <1>2, <2>1 DEF CompareExchange, At, FutexInv, TypeOK, PcInv
    <3>. QED
      BY <3>1 DEF FutexInv, HomeInv, TypeOK
  <2>2. CASE id[lk[t]] # NoId
    BY <1>1, <1>2, <2>2 DEF CompareExchange
  <2>. QED
    BY <2>1, <2>2
<1>3. ASSUME NEW t \in Thread, NEW l \in Lock, LockCall(t, l) \/ TryLock(t, l)
      PROVE  HomeInv'
  BY <1>1, <1>3 DEF LockCall, TryLock
<1>4. ASSUME NEW t \in Thread,
             Unlock(t) \/ IdLoad(t) \/ FutexNew(t) \/ FutexDestroy(t) \/ FutexMapGet(t)
      PROVE  HomeInv'
  BY <1>1, <1>4 DEF Unlock, IdLoad, FutexNew, FutexDestroy, FutexMapGet, locks
<1>5. ASSUME NEW t \in Thread, BlockAdd(t) \/ BlockLock(t) \/ BlockPark(t)
                               \/ UnblockLock(t) \/ UnblockMove(t)
      PROVE  HomeInv'
  BY <1>1, <1>5 DEF BlockAdd, BlockLock, BlockPark, UnblockLock, UnblockMove, locks
<1>. QED
  BY <1>2, <1>3, <1>4, <1>5 DEF Next, Step

(* block_lock changes hands only through NoThread, and its holder's label  *)
(* and futex stay as they are.                                             *)
LEMMA BlockLockStep ==
  ASSUME FutexInv, Next
  PROVE  BlockLockOwned'
<1>. USE DEF FutexInv, TypeOK, At, Goto, locks, maps, futexs, locals, BlockLockOwned, Kf
<1>1. ASSUME NEW t \in Thread, NEW l \in Lock, LockCall(t, l) PROVE BlockLockOwned'
  BY <1>1, NoneAssumption DEF LockCall
<1>2. ASSUME NEW t \in Thread, NEW l \in Lock, TryLock(t, l) PROVE BlockLockOwned'
  BY <1>2, NoneAssumption DEF TryLock
<1>3. ASSUME NEW t \in Thread, Unlock(t) PROVE BlockLockOwned'
  BY <1>3, NoneAssumption DEF Unlock
<1>4. ASSUME NEW t \in Thread, IdLoad(t) PROVE BlockLockOwned'
  BY <1>4, NoneAssumption DEF IdLoad
<1>5. ASSUME NEW t \in Thread, FutexNew(t) PROVE BlockLockOwned'
  BY <1>5, NoneAssumption DEF FutexNew
<1>6. ASSUME NEW t \in Thread, CompareExchange(t) PROVE BlockLockOwned'
  <2>1. /\ block_lock' = block_lock
        /\ pc[t] \notin {"locked", "move"} /\ pc'[t] \notin {"locked", "move"}
        /\ \A u \in Thread : u # t => pc'[u] = pc[u] /\ cid'[u] = cid[u]
    BY <1>6 DEF CompareExchange
  <2>. SUFFICES ASSUME NEW f \in KFutex, NEW u \in Thread
                PROVE  block_lock'[f] = u
                       <=> pc'[u] \in {"locked", "move"} /\ Kf(u)' = f
    OBVIOUS
  <2>2. CASE u = t
    BY <2>1, <2>2
  <2>3. CASE u # t
    BY <2>1, <2>3
  <2>. QED
    BY <2>2, <2>3
<1>7. ASSUME NEW t \in Thread, FutexDestroy(t) PROVE BlockLockOwned'
  BY <1>7, NoneAssumption DEF FutexDestroy
<1>8. ASSUME NEW t \in Thread, FutexMapGet(t) PROVE BlockLockOwned'
  BY <1>8, NoneAssumption DEF FutexMapGet
<1>9. ASSUME NEW t \in Thread, BlockAdd(t) PROVE BlockLockOwned'
  BY <1>9, NoneAssumption DEF BlockAdd
<1>10. ASSUME NEW t \in Thread, BlockLock(t) PROVE BlockLockOwned'
  <2>1. Kf(t) \in KFutex
    BY <1>10, KfType DEF BlockLock, IdRead
  <2>. QED
    BY <1>10, <2>1, NoneAssumption DEF BlockLock
<1>11. ASSUME NEW t \in Thread, BlockPark(t) PROVE BlockLockOwned'
  <2>1. Kf(t) \in KFutex
    BY <1>11, KfType DEF BlockPark, IdRead
  <2>. QED
    BY <1>11, <2>1, NoneAssumption DEF BlockPark
<1>12. ASSUME NEW t \in Thread, UnblockLock(t) PROVE BlockLockOwned'
  <2>1. Kf(t) \in KFutex
    BY <1>12, KfType DEF UnblockLock, IdRead
  <2>. QED
    BY <1>12, <2>1, NoneAssumption DEF UnblockLock
<1>13. ASSUME NEW t \in Thread, UnblockMove(t) PROVE BlockLockOwned'
  <2>1. Kf(t) \in KFutex
    BY <1>13, KfType DEF UnblockMove, IdRead
  <2>2. CASE blocked[Kf(t)] # <<>>
    <3>. DEFINE h == Head(blocked[Kf(t)])
    <3>1. h \in Thread /\ h # t /\ pc[h] = "parked"
      BY <1>13, <2>2, HeadParked DEF UnblockMove
    <3>2. /\ block_lock' = [block_lock EXCEPT ![Kf(t)] = NoThread] /\ cid' = cid
          /\ pc' = [pc EXCEPT ![t] = "idle", ![h] = "hold"]
      BY <1>13, <2>2 DEF UnblockMove
    <3>. HIDE DEF h
    <3>3. \A u \in Thread : pc'[u] \in {"locked", "move"}
                           <=> pc[u] \in {"locked", "move"} /\ u # t
      BY <3>1, <3>2
    <3>4. pc[t] = "move" /\ block_lock[Kf(t)] = t
      BY <1>13, <2>1 DEF UnblockMove
    <3>. SUFFICES ASSUME NEW f \in KFutex, NEW u \in Thread
                  PROVE  block_lock'[f] = u
                         <=> pc'[u] \in {"locked", "move"} /\ Kf(u) = f
      BY <3>2 DEF Kf
    <3>. QED
      BY <2>1, <3>2, <3>3, <3>4, NoneAssumption
  <2>3. CASE blocked[Kf(t)] = <<>>
    BY <1>13, <2>1, <2>3, NoneAssumption DEF UnblockMove
  <2>. QED
    BY <2>2, <2>3
<1>. QED
  BY <1>1, <1>2, <1>3, <1>4, <1>5, <1>6, <1>7, <1>8,
     <1>9, <1>10, <1>11, <1>12, <1>13 DEF Next, Step

(* A KFutex leaves the hands of its creator published or destroyed. *)
LEMMA NoLeakStep ==
  ASSUME FutexInv, Next
  PROVE  NoLeak'
<1>1. CASE UNCHANGED <<id, home, data, new_id>>
  BY <1>1 DEF FutexInv, NoLeak
<1>2. ASSUME NEW t \in Thread, FutexNew(t) PROVE NoLeak'
  <2>. DEFINE n == next_id[ProcOf[t]]
  <2>1. /\ id' = id /\ home' = home /\ new_id' = [new_id EXCEPT ![t] = n]
        /\ data' = [data EXCEPT ![ProcOf[t]] = @ \cup {n}]
        /\ new_id[t] = NoId
    BY <1>2 DEF FutexNew, locks, FutexInv, PcInv, At
  <2>. HIDE DEF n
  <2>. SUFFICES ASSUME NEW p \in Proc, NEW i \in data'[p]
                PROVE  \/ \E l \in Lock : id'[l] = i /\ p \in home'[l]
                       \/ \E u \in Thread : ProcOf[u] = p /\ new_id'[u] = i
    BY DEF NoLeak
  <2>2. CASE i \in data[p]
    <3>1. i # NoId
      BY <2>2, IdAssumption DEF FutexInv, TypeOK
    <3>2. \A u \in Thread : new_id[u] = i => new_id'[u] = i
      BY <2>1, <3>1 DEF FutexInv, TypeOK
    <3>. QED
      BY <2>1, <2>2, <3>2 DEF FutexInv, NoLeak
  <2>3. CASE i \notin data[p]
    <3>1. p = ProcOf[t] /\ i = n
      BY <2>1, <2>3, ProcOfAssumption DEF FutexInv, TypeOK
    <3>2. new_id'[t] = i
      BY <2>1, <3>1 DEF FutexInv, TypeOK
    <3>. QED
      BY <3>1, <3>2
  <2>. QED
    BY <2>2, <2>3
<1>3. ASSUME NEW t \in Thread, CompareExchange(t) PROVE NoLeak'
  <2>1. CASE id[lk[t]] = NoId
    <3>1. /\ lk[t] \in Lock /\ data' = data
          /\ id' = [id EXCEPT ![lk[t]] = new_id[t]]
          /\ home' = [home EXCEPT ![lk[t]] = {ProcOf[t]}]
          /\ new_id' = [new_id EXCEPT ![t] = NoId]
      BY <1>3, <2>1 DEF CompareExchange, At, maps, FutexInv, TypeOK, PcInv
    <3>. SUFFICES ASSUME NEW p \in Proc, NEW i \in data[p]
                  PROVE  \/ \E l \in Lock : id'[l] = i /\ p \in home'[l]
                         \/ \E u \in Thread : ProcOf[u] = p /\ new_id'[u] = i
      BY <3>1 DEF NoLeak
    <3>2. i # NoId
      BY IdAssumption DEF FutexInv, TypeOK
    <3>3. CASE \E l \in Lock : id[l] = i /\ p \in home[l]
      BY <2>1, <3>1, <3>2, <3>3 DEF FutexInv, TypeOK
    <3>4. CASE \E u \in Thread : ProcOf[u] = p /\ new_id[u] = i
      <4>1. PICK u \in Thread : ProcOf[u] = p /\ new_id[u] = i
        BY <3>4
      <4>2. CASE u = t
        BY <3>1, <4>1, <4>2 DEF FutexInv, TypeOK
      <4>3. CASE u # t
        BY <3>1, <4>1, <4>3 DEF FutexInv, TypeOK
      <4>. QED
        BY <4>2, <4>3
    <3>. QED
      BY <3>3, <3>4 DEF FutexInv, NoLeak
  <2>2. CASE id[lk[t]] # NoId
    BY <1>1, <1>3, <2>2 DEF CompareExchange, maps
  <2>. QED
    BY <2>1, <2>2
<1>4. ASSUME NEW t \in Thread, FutexDestroy(t) PROVE NoLeak'
  <2>1. /\ id' = id /\ home' = home /\ new_id' = [new_id EXCEPT ![t] = NoId]
        /\ data' = [data EXCEPT ![ProcOf[t]] = @ \ {new_id[t]}]
    BY <1>4 DEF FutexDestroy, locks
  <2>. SUFFICES ASSUME NEW p \in Proc, NEW i \in data'[p]
                PROVE  \/ \E l \in Lock : id'[l] = i /\ p \in home'[l]
                       \/ \E u \in Thread : ProcOf[u] = p /\ new_id'[u] = i
    BY DEF NoLeak
  <2>2. i \in data[p] /\ (p = ProcOf[t] => i # new_id[t])
    BY <2>1 DEF FutexInv, TypeOK
  <2>3. \A u \in Thread : ProcOf[u] = p /\ new_id[u] = i => new_id'[u] = i
    BY <2>1, <2>2 DEF FutexInv, TypeOK
  <2>. QED
    BY <2>1, <2>2, <2>3 DEF FutexInv, NoLeak
<1>5. ASSUME NEW t \in Thread, NEW l \in Lock, LockCall(t, l) \/ TryLock(t, l)
      PROVE  NoLeak'
  BY <1>1, <1>5 DEF LockCall, TryLock, locks, maps
<1>6. ASSUME NEW t \in Thread, Unlock(t) \/ IdLoad(t) \/ FutexMapGet(t) \/ BlockAdd(t)
      PROVE  NoLeak'
  BY <1>1, <1>6 DEF Unlock, IdLoad, FutexMapGet, BlockAdd, locks, maps, locals
<1>7. ASSUME NEW t \in Thread,
             BlockLock(t) \/ BlockPark(t) \/ UnblockLock(t) \/ UnblockMove(t)
      PROVE  NoLeak'
  BY <1>1, <1>7 DEF BlockLock, BlockPark, UnblockLock, UnblockMove, locks, maps, locals
<1>. QED
  BY <1>2, <1>3, <1>4, <1>5, <1>6, <1>7 DEF Next, Step

(* A list changes at its ends only, and a parked thread stays as it is. *)
LEMMA BlockedStep ==
  ASSUME FutexInv, Next
  PROVE  BlockedInv'
<1>. USE DEF At, Goto, locks, maps, futexs, locals
<1>0. \A f \in KFutex : blocked[f] \in Seq(Thread)
  BY DEF FutexInv, TypeOK
<1>1. ASSUME UNCHANGED blocked,
             \A u \in Thread : pc[u] = "parked" => pc'[u] = "parked" /\ cid'[u] = cid[u]
      PROVE  BlockedInv'
  <2>. SUFFICES ASSUME NEW f \in KFutex, NEW i \in 1 .. Len(blocked[f])
                PROVE  pc'[blocked[f][i]] = "parked" /\ Kf(blocked[f][i])' = f
    BY <1>1 DEF FutexInv, BlockedInv
  <2>1. blocked[f][i] \in Thread /\ pc[blocked[f][i]] = "parked" /\ Kf(blocked[f][i]) = f
    BY <1>0 DEF FutexInv, BlockedInv
  <2>. QED
    BY <1>1, <2>1 DEF Kf
<1>2. ASSUME NEW t \in Thread, NEW l \in Lock, LockCall(t, l) \/ TryLock(t, l)
      PROVE  BlockedInv'
  BY <1>1, <1>2 DEF LockCall, TryLock, FutexInv, TypeOK
<1>3. ASSUME NEW t \in Thread, Unlock(t) \/ BlockAdd(t) \/ UnblockLock(t)
      PROVE  BlockedInv'
  BY <1>1, <1>3 DEF Unlock, BlockAdd, UnblockLock, FutexInv, TypeOK
<1>4. ASSUME NEW t \in Thread, IdLoad(t) \/ FutexNew(t) \/ FutexDestroy(t)
      PROVE  BlockedInv'
  BY <1>1, <1>4 DEF IdLoad, FutexNew, FutexDestroy, FutexInv, TypeOK
<1>5. ASSUME NEW t \in Thread, CompareExchange(t) \/ FutexMapGet(t) \/ BlockLock(t)
      PROVE  BlockedInv'
  BY <1>1, <1>5 DEF CompareExchange, FutexMapGet, BlockLock, FutexInv, TypeOK
<1>6. ASSUME NEW t \in Thread, BlockPark(t) PROVE BlockedInv'
  <2>. DEFINE g == Kf(t)
              s == blocked[g]
  <2>1. /\ g \in KFutex /\ s \in Seq(Thread)
        /\ blocked' = [blocked EXCEPT ![g] = Append(s, t)]
        /\ cid' = cid /\ pc' = [pc EXCEPT ![t] = "parked"] /\ pc[t] = "locked"
    BY <1>0, <1>6, KfType DEF BlockPark, FutexInv, IdRead
  <2>2. \A i \in 1 .. Len(s) : /\ s[i] \in Thread /\ s[i] # t
                               /\ pc'[s[i]] = "parked" /\ Kf(s[i]) = g
    BY <2>1 DEF FutexInv, TypeOK, BlockedInv
  <2>3. /\ Len(Append(s, t)) = Len(s) + 1 /\ Append(s, t)[Len(s) + 1] = t
        /\ Len(s) \in Nat
        /\ \A i \in 1 .. Len(s) : Append(s, t)[i] = s[i]
    BY <2>1
  <2>0. \A u : Kf(u)' = Kf(u)
    BY <2>1 DEF Kf
  <2>. SUFFICES ASSUME NEW f \in KFutex
                PROVE  /\ \A i \in 1 .. Len(blocked'[f]) :
                            pc'[blocked'[f][i]] = "parked" /\ Kf(blocked'[f][i]) = f
                       /\ \A i, j \in 1 .. Len(blocked'[f]) :
                            blocked'[f][i] = blocked'[f][j] => i = j
    BY <2>0 DEF BlockedInv
  <2>4. CASE f = g
    <3>1. blocked'[f] = Append(s, t)
      BY <2>1, <2>4 DEF FutexInv, TypeOK
    <3>2. pc'[t] = "parked" /\ Kf(t) = g
      BY <2>1 DEF FutexInv, TypeOK
    <3>3. \A i, j \in 1 .. Len(s) : s[i] = s[j] => i = j
      BY <2>1 DEF FutexInv, BlockedInv
    <3>. HIDE DEF g, s
    <3>. QED
      BY <2>2, <2>3, <2>4, <3>1, <3>2, <3>3
  <2>5. CASE f # g
    <3>1. blocked'[f] = blocked[f] /\ blocked[f] \in Seq(Thread)
      BY <1>0, <2>1, <2>5 DEF FutexInv, TypeOK
    <3>2. \A i \in 1 .. Len(blocked[f]) :
             /\ blocked[f][i] \in Thread
             /\ pc[blocked[f][i]] = "parked" /\ Kf(blocked[f][i]) = f
      BY <3>1 DEF FutexInv, BlockedInv
    <3>3. \A u \in Thread : pc[u] = "parked" => pc'[u] = "parked"
      BY <2>1 DEF FutexInv, TypeOK
    <3>. QED
      BY <3>1, <3>2, <3>3 DEF FutexInv, BlockedInv
  <2>. QED
    BY <2>4, <2>5
<1>7. ASSUME NEW t \in Thread, UnblockMove(t) PROVE BlockedInv'
  <2>. DEFINE g == Kf(t)
              s == blocked[g]
  <2>1. CASE s # <<>>
    <3>1. /\ g \in KFutex /\ s \in Seq(Thread) /\ Head(s) \in Thread
          /\ blocked' = [blocked EXCEPT ![g] = Tail(s)]
          /\ cid' = cid /\ pc' = [pc EXCEPT ![t] = "idle", ![Head(s)] = "hold"]
          /\ pc[t] = "move" /\ Kf(Head(s)) = g
      BY <1>0, <1>7, <2>1, HeadParked DEF UnblockMove
    <3>2. /\ Len(Tail(s)) = Len(s) - 1 /\ Len(s) \in Nat /\ Len(s) > 0 /\ Head(s) = s[1]
          /\ \A i \in 1 .. Len(s) - 1 : Tail(s)[i] = s[i + 1]
      BY <2>1, <3>1
    <3>3. \A i, j \in 1 .. Len(s) : s[i] = s[j] => i = j
      BY <3>1 DEF FutexInv, BlockedInv
    <3>4. \A f \in KFutex : \A i \in 1 .. Len(blocked[f]) :
             /\ blocked[f][i] \in Thread
             /\ pc[blocked[f][i]] = "parked" /\ Kf(blocked[f][i]) = f
      BY <1>0 DEF FutexInv, BlockedInv
    <3>5. \A u \in Thread : pc[u] = "parked" /\ u # Head(s) => pc'[u] = "parked"
      BY <3>1 DEF FutexInv, TypeOK
    <3>. SUFFICES ASSUME NEW f \in KFutex
                  PROVE  /\ \A i \in 1 .. Len(blocked'[f]) :
                              pc'[blocked'[f][i]] = "parked" /\ Kf(blocked'[f][i]) = f
                         /\ \A i, j \in 1 .. Len(blocked'[f]) :
                              blocked'[f][i] = blocked'[f][j] => i = j
      <4>1. cid' = cid
        BY <3>1
      <4>. QED
        BY <4>1 DEF BlockedInv, Kf
    <3>6. CASE f = g
      <4>1. blocked'[f] = Tail(s)
        BY <3>1, <3>6 DEF FutexInv, TypeOK
      <4>2. \A i \in 1 .. Len(s) - 1 :
              /\ s[i + 1] \in Thread /\ s[i + 1] # Head(s)
              /\ pc[s[i + 1]] = "parked" /\ Kf(s[i + 1]) = g
        BY <3>1, <3>2, <3>3, <3>4
      <4>. HIDE DEF g, s
      <4>. QED
        BY <3>2, <3>3, <3>5, <3>6, <4>1, <4>2
    <3>7. CASE f # g
      <4>1. blocked'[f] = blocked[f]
        BY <3>1, <3>7 DEF FutexInv, TypeOK
      <4>2. \A i \in 1 .. Len(blocked[f]) : blocked[f][i] # Head(s)
        BY <3>1, <3>4, <3>7
      <4>. QED
        BY <3>4, <3>5, <4>1, <4>2 DEF FutexInv, BlockedInv
    <3>. QED
      BY <3>6, <3>7
  <2>2. CASE s = <<>>
    BY <1>1, <1>7, <2>2 DEF UnblockMove, FutexInv, TypeOK
  <2>. QED
    BY <2>1, <2>2
<1>. QED
  BY <1>2, <1>3, <1>4, <1>5, <1>6, <1>7 DEF Next, Step

-----------------------------------------------------------------------------
(* How the steps move threads between the sets of the invariant.           *)

(* The steps that are neither the first nor the last of a call, nor the    *)
(* fetch_add of KFutex::block.                                             *)
Quiet(t) ==
  \/ IdLoad(t) \/ FutexNew(t) \/ CompareExchange(t) \/ FutexDestroy(t)
  \/ FutexMapGet(t) \/ BlockLock(t) \/ BlockPark(t) \/ UnblockLock(t)

(* They move no thread. *)
LEMMA QuietSets ==
  ASSUME FutexInv, NEW t \in Thread, Quiet(t), NEW l \in Lock
  PROVE  /\ count' = count /\ UNCHANGED <<lk, op>>
         /\ Counted(l)' = Counted(l) /\ Permit(l)' = Permit(l)
         /\ Queued(l)' = Queued(l)
         /\ Holders(l)' = Holders(l) /\ Waiters(l)' = Waiters(l)
<1>. DEFINE Inside == Labels \ {"idle", "hold"}
            Waits == {"want", "locked", "parked"}
<1>1. /\ count' = count /\ lk' = lk /\ op' = op
      /\ \A u \in Thread : u # t => pc'[u] = pc[u]
      /\ pc[t] \in Inside /\ pc'[t] \in Inside
      /\ pc[t] \in Waits <=> pc'[t] \in Waits
  <2>. USE DEF At, Goto, Labels, locks, locals, FutexInv, TypeOK, PcInv
  <2>1. CASE IdLoad(t)
    BY <2>1 DEF IdLoad
  <2>2. CASE FutexNew(t)
    BY <2>2 DEF FutexNew
  <2>3. CASE CompareExchange(t)
    BY <2>3 DEF CompareExchange
  <2>4. CASE FutexDestroy(t)
    BY <2>4 DEF FutexDestroy
  <2>5. CASE FutexMapGet(t)
    BY <2>5 DEF FutexMapGet
  <2>6. CASE BlockLock(t)
    BY <2>6 DEF BlockLock
  <2>7. CASE BlockPark(t)
    BY <2>7 DEF BlockPark
  <2>8. CASE UnblockLock(t)
    BY <2>8 DEF UnblockLock
  <2>. QED
    BY <2>1, <2>2, <2>3, <2>4, <2>5, <2>6, <2>7, <2>8 DEF Quiet
<1>2. \A u \in Thread : /\ Holds(u, l)' <=> Holds(u, l)
                        /\ InLock(u, l)' <=> InLock(u, l)
                        /\ InUnlock(u, l)' <=> InUnlock(u, l)
                        /\ pc'[u] \in Waits <=> pc[u] \in Waits
  BY <1>1 DEF Holds, InLock, InUnlock, Labels
<1>. QED
  BY <1>1, <1>2 DEF Counted, Permit, Queued, Holders, Waiters

(* lock() and try_lock() add their caller to the count, and let it have    *)
(* the lock at once if the count was 0.                                    *)
LEMMA EnterSets ==
  ASSUME FutexInv, NEW t \in Thread, NEW l \in Lock,
         LockCall(t, l) \/ TryLock(t, l)
  PROVE  /\ t \notin Counted(l) /\ count' = [count EXCEPT ![l] = count[l] + 1]
         /\ Counted(l)' = Counted(l) \cup {t}
         /\ count[l] = 0 => Permit(l)' = Permit(l) \cup {t}
         /\ count[l] # 0 => Permit(l)' = Permit(l)
         /\ \A m \in Lock : m # l => Counted(m)' = Counted(m) /\ Permit(m)' = Permit(m)
         /\ \A m \in Lock : Queued(m)' = Queued(m)
         /\ \A m \in Lock :
              /\ Holders(m)' = IF m = l /\ count[l] = 0 THEN Holders(m) \cup {t} ELSE Holders(m)
              /\ Waiters(m)' = IF m = l /\ count[l] # 0 THEN Waiters(m) \cup {t} ELSE Waiters(m)
<1>. USE DEF FutexInv, TypeOK, At, Goto, Labels, Holds, InLock, InUnlock
<1>1. /\ pc[t] = "idle" /\ lk[t] = NoLock
      /\ count' = [count EXCEPT ![l] = count[l] + 1]
      /\ lk' = [lk EXCEPT ![t] = l]
      /\ \/ count[l] = 0 /\ pc' = [pc EXCEPT ![t] = "hold"]
         \/ count[l] # 0 /\ pc' = [pc EXCEPT ![t] = "id"] /\ op'[t] = "block"
      /\ \A u \in Thread : u # t => op'[u] = op[u]
  BY DEF LockCall, TryLock, PcInv
<1>2. \A u \in Thread, m \in Lock : u # t =>
         /\ pc'[u] = pc[u] /\ lk'[u] = lk[u]
         /\ Holds(u, m)' <=> Holds(u, m)
         /\ InLock(u, m)' <=> InLock(u, m)
         /\ InUnlock(u, m)' <=> InUnlock(u, m)
  BY <1>1
<1>3. \A m \in Lock : /\ ~ Holds(t, m) /\ ~ InLock(t, m) /\ ~ InUnlock(t, m)
                      /\ Holds(t, m)' <=> m = l /\ count[l] = 0
                      /\ InLock(t, m)' <=> m = l /\ count[l] # 0
                      /\ ~ InUnlock(t, m)'
  BY <1>1, NoneAssumption
<1>4. pc[t] \notin {"want", "locked", "parked"} /\ pc'[t] \notin {"want", "locked", "parked"}
  BY <1>1
<1>5. \A m \in Lock :
        /\ Holders(m)' = IF m = l /\ count[l] = 0 THEN Holders(m) \cup {t} ELSE Holders(m)
        /\ Waiters(m)' = IF m = l /\ count[l] # 0 THEN Waiters(m) \cup {t} ELSE Waiters(m)
  BY <1>2, <1>3 DEF Holders, Waiters
<1>. QED
  BY <1>1, <1>2, <1>3, <1>4, <1>5 DEF Counted, Permit, Queued

(* unlock() takes its caller out of the count; the caller keeps the right  *)
(* to the lock, to hand it on, if the count was more than 1.               *)
LEMMA UnlockSets ==
  ASSUME FutexInv, NEW t \in Thread, NEW l \in Lock, Unlock(t), lk[t] = l
  PROVE  /\ t \in Counted(l) /\ t \in Permit(l)
         /\ count' = [count EXCEPT ![l] = count[l] - 1]
         /\ Counted(l)' = Counted(l) \ {t}
         /\ count[l] > 1 => Permit(l)' = Permit(l)
         /\ count[l] <= 1 => Permit(l)' = Permit(l) \ {t}
         /\ \A m \in Lock : m # l => Counted(m)' = Counted(m) /\ Permit(m)' = Permit(m)
         /\ \A m \in Lock :
              /\ Queued(m)' = Queued(m) /\ Waiters(m)' = Waiters(m)
              /\ Holders(m)' = IF m = l THEN Holders(m) \ {t} ELSE Holders(m)
<1>. USE DEF FutexInv, TypeOK, At, Goto, Labels, Holds, InLock, InUnlock
<1>1. /\ pc[t] = "hold" /\ lk[t] = l /\ l # NoLock
      /\ count' = [count EXCEPT ![l] = count[l] - 1]
      /\ \/ /\ count[l] > 1 /\ pc' = [pc EXCEPT ![t] = "id"]
            /\ op'[t] = "unblock" /\ lk' = lk
         \/ /\ count[l] <= 1 /\ pc' = [pc EXCEPT ![t] = "idle"]
            /\ lk' = [lk EXCEPT ![t] = NoLock]
      /\ \A u \in Thread : u # t => op'[u] = op[u]
      /\ count[l] \in Nat
  BY NoneAssumption DEF Unlock, PcInv
<1>2. \A u \in Thread, m \in Lock : u # t =>
         /\ pc'[u] = pc[u] /\ lk'[u] = lk[u]
         /\ Holds(u, m)' <=> Holds(u, m)
         /\ InLock(u, m)' <=> InLock(u, m)
         /\ InUnlock(u, m)' <=> InUnlock(u, m)
  BY <1>1
<1>3. \A m \in Lock : /\ Holds(t, m) <=> m = l
                      /\ ~ InLock(t, m) /\ ~ InUnlock(t, m)
                      /\ ~ Holds(t, m)' /\ ~ InLock(t, m)'
                      /\ InUnlock(t, m)' <=> m = l /\ count[l] > 1
  BY <1>1, NoneAssumption
<1>4. pc[t] \notin {"want", "locked", "parked"} /\ pc'[t] \notin {"want", "locked", "parked"}
  BY <1>1
<1>5. \A m \in Lock :
        /\ Queued(m)' = Queued(m) /\ Waiters(m)' = Waiters(m)
        /\ Holders(m)' = IF m = l THEN Holders(m) \ {t} ELSE Holders(m)
  BY <1>2, <1>3, <1>4 DEF Holders, Waiters, Queued
<1>. QED
  BY <1>1, <1>2, <1>3, <1>5 DEF Counted, Permit

(* The fetch_add of block() finds a right to the lock left for it, or      *)
(* makes its caller a waiter.                                              *)
LEMMA BlockAddSets ==
  ASSUME FutexInv, NEW t \in Thread, NEW l \in Lock, BlockAdd(t), lk[t] = l
  PROVE  /\ Kf(t) \in KFutex /\ t \notin Queued(l)
         /\ wait_count' = [wait_count EXCEPT ![Kf(t)] = wait_count[Kf(t)] + 1]
         /\ count' = count /\ t \in Counted(l)
         /\ wait_count[Kf(t)] < 0 => /\ Permit(l)' = Permit(l) \cup {t}
                                     /\ Queued(l)' = Queued(l)
         /\ wait_count[Kf(t)] >= 0 => /\ Permit(l)' = Permit(l)
                                      /\ Queued(l)' = Queued(l) \cup {t}
         /\ \A m \in Lock : m # l => Permit(m)' = Permit(m) /\ Queued(m)' = Queued(m)
         /\ \A m \in Lock :
              /\ Counted(m)' = Counted(m)
              /\ Holders(m)' = IF m = l /\ wait_count[Kf(t)] < 0
                               THEN Holders(m) \cup {t} ELSE Holders(m)
              /\ Waiters(m)' = IF m = l /\ wait_count[Kf(t)] < 0
                               THEN Waiters(m) \ {t} ELSE Waiters(m)
<1>. USE DEF FutexInv, TypeOK, At, Goto, Labels, Holds, InLock, InUnlock
<1>. DEFINE w == wait_count[Kf(t)]
<1>0. Kf(t) \in KFutex
  BY KfType DEF BlockAdd, IdRead
<1>1. /\ pc[t] = "add" /\ lk[t] = l /\ l # NoLock /\ op[t] = "block"
      /\ w \in Int /\ count' = count /\ lk' = lk /\ op' = op
      /\ wait_count' = [wait_count EXCEPT ![Kf(t)] = w + 1]
      /\ \/ w >= 0 /\ pc' = [pc EXCEPT ![t] = "want"]
         \/ w < 0 /\ pc' = [pc EXCEPT ![t] = "hold"]
  <2>1. /\ pc[t] = "add" /\ lk[t] = l /\ l # NoLock /\ op[t] = "block"
        /\ count' = count /\ lk' = lk /\ op' = op
    BY NoneAssumption DEF BlockAdd, PcInv, locks, locals
  <2>2. w \in Int
    BY <1>0
  <2>3. /\ wait_count' = [wait_count EXCEPT ![Kf(t)] = w + 1]
        /\ pc' = [pc EXCEPT ![t] = IF w >= 0 THEN "want" ELSE "hold"]
    BY DEF BlockAdd
  <2>. HIDE DEF w
  <2>4. w >= 0 \/ w < 0
    BY <2>2
  <2>. QED
    BY <2>1, <2>2, <2>3, <2>4
<1>2. \A u \in Thread, m \in Lock : u # t =>
         /\ pc'[u] = pc[u] /\ lk'[u] = lk[u]
         /\ Holds(u, m)' <=> Holds(u, m)
         /\ InLock(u, m)' <=> InLock(u, m)
         /\ InUnlock(u, m)' <=> InUnlock(u, m)
  BY <1>1
<1>3. \A m \in Lock : /\ ~ Holds(t, m) /\ ~ InUnlock(t, m) /\ ~ InUnlock(t, m)'
                      /\ InLock(t, m) <=> m = l
                      /\ Holds(t, m)' <=> m = l /\ w < 0
                      /\ InLock(t, m)' <=> m = l /\ w >= 0
  BY <1>1
<1>4. /\ pc[t] \notin {"want", "locked", "parked"}
      /\ pc'[t] \in {"want", "locked", "parked"} <=> w >= 0
  BY <1>1
<1>5. wait_count[Kf(t)] = w /\ lk'[t] = l
  BY <1>1 DEF w
<1>. HIDE DEF w
<1>6. \A m \in Lock :
        /\ Holders(m)' = IF m = l /\ w < 0 THEN Holders(m) \cup {t} ELSE Holders(m)
        /\ Waiters(m)' = IF m = l /\ w < 0 THEN Waiters(m) \ {t} ELSE Waiters(m)
  BY <1>1, <1>2, <1>3 DEF Holders, Waiters
<1>. QED
  BY <1>0, <1>1, <1>2, <1>3, <1>4, <1>5, <1>6 DEF Counted, Permit, Queued

(* unblock() gives the right to the oldest thread of the list. *)
LEMMA MoveSets ==
  ASSUME FutexInv, NEW t \in Thread, UnblockMove(t), blocked[Kf(t)] # <<>>
  PROVE  LET h == Head(blocked[Kf(t)]) IN
         /\ count' = count
         /\ \A m \in Lock : /\ Counted(m)' = Counted(m)
                            /\ Queued(m)' = Queued(m) \ {h}
                            /\ m = lk[h] => Permit(m)' = (Permit(m) \ {t}) \cup {h}
                            /\ m # lk[h] => Permit(m)' = Permit(m) \ {t}
                            /\ Holders(m)' = IF m = lk[h] THEN Holders(m) \cup {h}
                                             ELSE Holders(m)
                            /\ Waiters(m)' = IF m = lk[h] THEN Waiters(m) \ {h}
                                             ELSE Waiters(m)
<1>. USE DEF FutexInv, TypeOK, At, Goto, Labels, Holds, InLock, InUnlock
<1>. PICK h : h = Head(blocked[Kf(t)])
  OBVIOUS
<1>0. /\ h \in Thread /\ h # t /\ pc[h] = "parked" /\ op[h] = "block"
      /\ lk[h] \in Lock
  BY HeadParked DEF UnblockMove
<1>1. /\ pc[t] = "move" /\ op[t] = "unblock"
      /\ count' = count /\ lk' = [lk EXCEPT ![t] = NoLock] /\ op' = op
      /\ pc' = [pc EXCEPT ![t] = "idle", ![h] = "hold"]
  BY DEF UnblockMove, PcInv, locks
<1>2. \A u \in Thread, m \in Lock : u # t /\ u # h =>
         /\ pc'[u] = pc[u] /\ lk'[u] = lk[u]
         /\ Holds(u, m)' <=> Holds(u, m)
         /\ InLock(u, m)' <=> InLock(u, m)
         /\ InUnlock(u, m)' <=> InUnlock(u, m)
  BY <1>1
<1>3. \A m \in Lock : /\ ~ Holds(t, m) /\ ~ InLock(t, m)
                      /\ ~ Holds(t, m)' /\ ~ InLock(t, m)' /\ ~ InUnlock(t, m)'
  BY <1>0, <1>1, NoneAssumption
<1>4. \A m \in Lock : /\ ~ Holds(h, m) /\ ~ InUnlock(h, m)
                      /\ InLock(h, m) <=> m = lk[h]
                      /\ Holds(h, m)' <=> m = lk[h]
                      /\ ~ InLock(h, m)' /\ ~ InUnlock(h, m)'
  <2>1. pc'[h] = "hold" /\ lk'[h] = lk[h]
    BY <1>0, <1>1
  <2>. QED
    BY <1>0, <2>1
<1>5. /\ pc[t] \notin {"want", "locked", "parked"}
      /\ pc'[t] \notin {"want", "locked", "parked"}
      /\ pc'[h] \notin {"want", "locked", "parked"}
  BY <1>0, <1>1
<1>6. \A m \in Lock : /\ Counted(m)' = Counted(m)
                      /\ Queued(m)' = Queued(m) \ {h}
                      /\ m = lk[h] => Permit(m)' = (Permit(m) \ {t}) \cup {h}
                      /\ m # lk[h] => Permit(m)' = Permit(m) \ {t}
  <2>. SUFFICES ASSUME NEW m \in Lock
                PROVE  /\ Counted(m)' = Counted(m)
                       /\ Queued(m)' = Queued(m) \ {h}
                       /\ m = lk[h] => Permit(m)' = (Permit(m) \ {t}) \cup {h}
                       /\ m # lk[h] => Permit(m)' = Permit(m) \ {t}
    OBVIOUS
  <2>1. Counted(m)' = Counted(m)
    <3>1. ASSUME NEW u \in Thread
          PROVE  (Holds(u, m) \/ InLock(u, m))' <=> (Holds(u, m) \/ InLock(u, m))
      <4>1. CASE u = t
        BY <1>3, <4>1
      <4>2. CASE u = h
        BY <1>4, <4>2
      <4>3. CASE u # t /\ u # h
        BY <1>2, <4>3
      <4>. QED
        BY <4>1, <4>2, <4>3
    <3>. QED
      BY <3>1 DEF Counted
  <2>2. Queued(m)' = Queued(m) \ {h}
    BY <1>0, <1>2, <1>5 DEF Queued
  <2>3. m = lk[h] => Permit(m)' = (Permit(m) \ {t}) \cup {h}
    BY <1>0, <1>2, <1>3, <1>4 DEF Permit
  <2>4. m # lk[h] => Permit(m)' = Permit(m) \ {t}
    BY <1>0, <1>2, <1>3, <1>4 DEF Permit
  <2>. QED
    BY <2>1, <2>2, <2>3, <2>4
<1>7. \A m \in Lock :
        /\ Holders(m)' = IF m = lk[h] THEN Holders(m) \cup {h} ELSE Holders(m)
        /\ Waiters(m)' = IF m = lk[h] THEN Waiters(m) \ {h} ELSE Waiters(m)
  BY <1>0, <1>2, <1>3, <1>4 DEF Holders, Waiters
<1>. QED
  BY <1>1, <1>6, <1>7

(* If there is no thread to take, nobody has the right for the moment. *)
LEMMA BankSets ==
  ASSUME FutexInv, NEW t \in Thread, UnblockMove(t), blocked[Kf(t)] = <<>>
  PROVE  /\ count' = count
         /\ \A m \in Lock : /\ Counted(m)' = Counted(m)
                            /\ Queued(m)' = Queued(m)
                            /\ Permit(m)' = Permit(m) \ {t}
                            /\ Holders(m)' = Holders(m) /\ Waiters(m)' = Waiters(m)
<1>. USE DEF FutexInv, TypeOK, At, Goto, Labels, Holds, InLock, InUnlock
<1>1. /\ pc[t] = "move" /\ op[t] = "unblock"
      /\ count' = count /\ lk' = [lk EXCEPT ![t] = NoLock] /\ op' = op
      /\ pc' = [pc EXCEPT ![t] = "idle"]
  BY DEF UnblockMove, PcInv, locks
<1>2. \A u \in Thread, m \in Lock : u # t =>
         /\ pc'[u] = pc[u] /\ lk'[u] = lk[u]
         /\ Holds(u, m)' <=> Holds(u, m)
         /\ InLock(u, m)' <=> InLock(u, m)
         /\ InUnlock(u, m)' <=> InUnlock(u, m)
  BY <1>1
<1>3. \A m \in Lock : /\ ~ Holds(t, m) /\ ~ InLock(t, m)
                      /\ ~ Holds(t, m)' /\ ~ InLock(t, m)' /\ ~ InUnlock(t, m)'
  BY <1>1, NoneAssumption
<1>4. pc[t] \notin {"want", "locked", "parked"} /\ pc'[t] \notin {"want", "locked", "parked"}
  BY <1>1
<1>. QED
  BY <1>1, <1>2, <1>3, <1>4 DEF Counted, Permit, Queued, Holders, Waiters

-----------------------------------------------------------------------------
(* The theorems for any number of processes.                               *)

(* The lock a thread works on. *)
LEMMA LkType ==
  ASSUME FutexInv, NEW t \in Thread, pc[t] # "idle"
  PROVE  lk[t] \in Lock
BY DEF FutexInv, TypeOK, PcInv

(* The count follows the threads in lock() and with the lock. *)
LEMMA CountStep ==
  ASSUME FutexInv, Next
  PROVE  CountInv'
<1>. SUFFICES ASSUME NEW m \in Lock PROVE count'[m] = Cardinality(Counted(m)')
  BY DEF CountInv
<1>0. /\ count[m] = Cardinality(Counted(m)) /\ Counted(m) \subseteq Thread
      /\ count \in [Lock -> Nat]
  BY DEF FutexInv, CountInv, Counted, TypeOK
<1>1. ASSUME NEW t \in Thread, NEW l \in Lock, LockCall(t, l) \/ TryLock(t, l)
      PROVE  count'[m] = Cardinality(Counted(m)')
  <2>1. CASE m = l
    <3>1. t \notin Counted(m) /\ Counted(m)' = Counted(m) \cup {t} /\ count'[m] = count[m] + 1
      BY <1>0, <1>1, <2>1, EnterSets
    <3>. QED
      BY <1>0, <3>1, CardAdd
  <2>2. CASE m # l
    BY <1>0, <1>1, <2>2, EnterSets
  <2>. QED
    BY <2>1, <2>2
<1>2. ASSUME NEW t \in Thread, Unlock(t)
      PROVE  count'[m] = Cardinality(Counted(m)')
  <2>1. lk[t] \in Lock
    BY <1>2, LkType DEF Unlock, At
  <2>2. CASE m = lk[t]
    <3>1. t \in Counted(m) /\ Counted(m)' = Counted(m) \ {t} /\ count'[m] = count[m] - 1
      BY <1>0, <1>2, <2>2, UnlockSets
    <3>. QED
      BY <1>0, <3>1, CardDel
  <2>3. CASE m # lk[t]
    BY <1>0, <1>2, <2>1, <2>3, UnlockSets
  <2>. QED
    BY <2>2, <2>3
<1>3. ASSUME NEW t \in Thread, Quiet(t)
      PROVE  count'[m] = Cardinality(Counted(m)')
  BY <1>0, <1>3, QuietSets
<1>4. ASSUME NEW t \in Thread, BlockAdd(t)
      PROVE  count'[m] = Cardinality(Counted(m)')
  <2>1. lk[t] \in Lock
    BY <1>4, LkType DEF BlockAdd, At
  <2>. QED
    BY <1>0, <1>4, <2>1, BlockAddSets
<1>5. ASSUME NEW t \in Thread, UnblockMove(t)
      PROVE  count'[m] = Cardinality(Counted(m)')
  BY <1>0, <1>5, MoveSets, BankSets
<1>. QED
  BY <1>1, <1>2, <1>3, <1>4, <1>5 DEF Next, Step, Quiet

(* The invariant is inductive. *)
LEMMA FutexStep == FutexInv /\ [Next]_vars => FutexInv'
<1>1. ASSUME FutexInv, Next PROVE FutexInv'
  BY <1>1, TypeStep, PcStep, IdReadStep, HomeStep, NoLeakStep, BlockLockStep, BlockedStep,
     CountStep DEF FutexInv
<1>2. ASSUME FutexInv, UNCHANGED vars PROVE FutexInv'
  <2>. USE DEF FutexInv, vars, locks, maps, futexs, locals
  <2>1. TypeOK' /\ PcInv'
    BY <1>2 DEF TypeOK, PcInv
  <2>2. IdRead' /\ HomeInv' /\ NoLeak'
    BY <1>2 DEF IdRead, HomeInv, NoLeak
  <2>3. BlockLockOwned' /\ BlockedInv'
    BY <1>2 DEF BlockLockOwned, BlockedInv, Kf
  <2>4. CountInv'
    BY <1>2 DEF CountInv, Counted, Holds, InLock
  <2>. QED
    BY <2>1, <2>2, <2>3, <2>4
<1>. QED
  BY <1>1, <1>2

(* In every reachable state the invariant holds. *)
LEMMA FutexInvariant == Spec => []FutexInv
BY FutexInit, FutexStep, PTL DEF Spec

(* Every variable keeps its type: in particular RawFutex.count, which      *)
(* lock(), try_lock() and unlock() change without a lock, never wraps      *)
(* below zero.                                                             *)
THEOREM TypeCorrect == Spec => []TypeOK
<1>1. FutexInv => TypeOK
  BY DEF FutexInv
<1>. QED
  BY <1>1, FutexInvariant, PTL

(* The loser of the race in RawFutex::id takes what it created out of its  *)
(* FutexMap again, whatever other processes do with the lock: an entry of  *)
(* a map is published for a lock by that process or in its maker's hands.  *)
THEOREM NothingLeaks == Spec => []NoLeak
<1>1. FutexInv => NoLeak
  BY DEF FutexInv
<1>. QED
  BY <1>1, FutexInvariant, PTL

(* The block_lock of a KFutex is held by the thread that took it, from     *)
(* KFutex::lock to the force_unlock() of the scheduler or of unblock().    *)
THEOREM BlockLockCorrect == Spec => []BlockLockOwned
<1>1. FutexInv => BlockLockOwned
  BY DEF FutexInv
<1>. QED
  BY <1>1, FutexInvariant, PTL

-----------------------------------------------------------------------------
(* Mutual exclusion, when all threads are of one process p: a lock is used *)
(* with one FutexMap then.                                                 *)
OneProcess(p) == \A t \in Thread : ProcOf[t] = p

(* However many threads of a process race in RawFutex::id, all that work   *)
(* on a lock use one KFutex: the one whose id is published was made in the *)
(* map they look the id up in.                                             *)
THEOREM OneFutex ==
  ASSUME NEW p \in Proc, OneProcess(p)
  PROVE  Spec => []OneFutexPerLock
<1>1. FutexInv => OneFutexPerLock
  <2>. SUFFICES
         ASSUME FutexInv, NEW t \in Thread,
                pc[t] \in {"destroy", "map", "add", "want", "locked", "parked",
                          "wake", "move"}
         PROVE  cid[t] = id[lk[t]] /\ cid[t] # NoId /\ home[lk[t]] = {ProcOf[t]}
    BY DEF OneFutexPerLock
  <2>1. cid[t] = id[lk[t]] /\ cid[t] # NoId /\ lk[t] \in Lock
    BY DEF FutexInv, IdRead, TypeOK, PcInv
  <2>2. home[lk[t]] # {} /\ \A q \in home[lk[t]] : q = p
    BY <2>1 DEF FutexInv, HomeInv, OneProcess
  <2>. QED
    BY <2>1, <2>2 DEF OneProcess
<1>. QED
  BY <1>1, FutexInvariant, PTL

(* An id is in one hand: nobody publishes what another published or made. *)
LEMMA IdsStep ==
  ASSUME NEW p \in Proc, OneProcess(p), FutexInv, IdsInv(p), Next
  PROVE  IdsInv(p)'
<1>0. /\ next_id[p] \in Nat /\ (next_id[p] < MaxId => next_id[p] # NoId)
      /\ \A l \in Lock : id[l] # NoId => id[l] \in Nat
      /\ \A u \in Thread : new_id[u] # NoId => new_id[u] \in Nat
  <2>1. MaxId \in Nat
    BY IdAssumption
  <2>2. next_id[p] \in 0 .. MaxId
    BY DEF FutexInv, TypeOK
  <2>3. next_id[p] < MaxId => next_id[p] \in Id
    BY <2>1, <2>2 DEF Id
  <2>4. \A i \in Id : i \in Nat
    BY <2>1 DEF Id
  <2>. QED
    BY <2>1, <2>2, <2>3, <2>4, IdAssumption DEF FutexInv, TypeOK
<1>1. CASE UNCHANGED <<id, next_id, new_id>>
  BY <1>1 DEF IdsInv
<1>2. ASSUME NEW t \in Thread, FutexNew(t) PROVE IdsInv(p)'
  <2>. DEFINE n == next_id[p]
  <2>1. /\ n \in Nat /\ n # NoId /\ id' = id /\ new_id' = [new_id EXCEPT ![t] = n]
        /\ next_id'[p] = n + 1
    <3>1. ProcOf[t] = p /\ n < MaxId /\ id' = id
      BY <1>2 DEF FutexNew, locks, OneProcess
    <3>2. next_id' = [next_id EXCEPT ![p] = n + 1] /\ new_id' = [new_id EXCEPT ![t] = n]
      BY <1>2, <3>1 DEF FutexNew
    <3>. QED
      BY <1>0, <3>1, <3>2 DEF FutexInv, TypeOK
  <2>2. /\ new_id'[t] = n
        /\ \A u \in Thread : u # t => new_id'[u] = new_id[u]
    BY <2>1 DEF FutexInv, TypeOK
  <2>3. /\ \A l \in Lock : id[l] # NoId => id[l] < n /\ id[l] < n + 1 /\ id[l] # n
        /\ \A u \in Thread : new_id[u] # NoId =>
             new_id[u] < n /\ new_id[u] < n + 1 /\ new_id[u] # n
        /\ n < n + 1
    BY <1>0, <2>1 DEF IdsInv
  <2>. HIDE DEF n
  <2>. QED
    BY <2>1, <2>2, <2>3 DEF IdsInv
<1>3. ASSUME NEW t \in Thread, CompareExchange(t) PROVE IdsInv(p)'
  <2>1. CASE id[lk[t]] = NoId
    <3>1. /\ lk[t] \in Lock /\ next_id' = next_id /\ new_id[t] # NoId
          /\ id' = [id EXCEPT ![lk[t]] = new_id[t]]
          /\ new_id' = [new_id EXCEPT ![t] = NoId]
      BY <1>3, <2>1 DEF CompareExchange, At, maps, FutexInv, TypeOK, PcInv
    <3>2. /\ id'[lk[t]] = new_id[t] /\ new_id'[t] = NoId
          /\ \A l \in Lock : l # lk[t] => id'[l] = id[l]
          /\ \A u \in Thread : u # t => new_id'[u] = new_id[u]
      BY <3>1 DEF FutexInv, TypeOK
    <3>. QED
      BY <3>1, <3>2 DEF IdsInv
  <2>2. CASE id[lk[t]] # NoId
    BY <1>1, <1>3, <2>2 DEF CompareExchange, maps
  <2>. QED
    BY <2>1, <2>2
<1>4. ASSUME NEW t \in Thread, FutexDestroy(t) PROVE IdsInv(p)'
  <2>1. /\ id' = id /\ next_id' = next_id /\ new_id'[t] = NoId
        /\ \A u \in Thread : u # t => new_id'[u] = new_id[u]
    BY <1>4 DEF FutexDestroy, locks, FutexInv, TypeOK
  <2>. QED
    BY <2>1 DEF IdsInv
<1>5. ASSUME NEW t \in Thread, NEW l \in Lock, LockCall(t, l) \/ TryLock(t, l)
      PROVE  IdsInv(p)'
  BY <1>1, <1>5 DEF LockCall, TryLock, locks, maps
<1>6. ASSUME NEW t \in Thread, Unlock(t) \/ IdLoad(t) \/ FutexMapGet(t) \/ BlockAdd(t)
      PROVE  IdsInv(p)'
  BY <1>1, <1>6 DEF Unlock, IdLoad, FutexMapGet, BlockAdd, locks, maps, locals
<1>7. ASSUME NEW t \in Thread,
             BlockLock(t) \/ BlockPark(t) \/ UnblockLock(t) \/ UnblockMove(t)
      PROVE  IdsInv(p)'
  BY <1>1, <1>7 DEF BlockLock, BlockPark, UnblockLock, UnblockMove, locks, maps, locals
<1>. QED
  BY <1>2, <1>3, <1>4, <1>5, <1>6, <1>7 DEF Next, Step

(* A thread inside block() or unblock() is at the KFutex of its lock, and  *)
(* no other lock has that one.                                             *)
LEMMA KfPublished ==
  ASSUME NEW p \in Proc, OneProcess(p), FutexInv, IdsInv(p), NEW t \in Thread,
         pc[t] \in {"add", "parked", "move"}
  PROVE  /\ lk[t] \in Lock /\ id[lk[t]] \in Id /\ id[lk[t]] # NoId
         /\ Kf(t) = <<p, id[lk[t]]>> /\ Kf(t) \in KFutex
         /\ \A m \in Lock : m # lk[t] => id[m] # id[lk[t]]
<1>1. lk[t] \in Lock /\ cid[t] = id[lk[t]] /\ cid[t] # NoId
  BY LkType DEF FutexInv, IdRead
<1>. QED
  BY <1>1, KfType DEF FutexInv, TypeOK, OneProcess, Kf, IdsInv

(* What the steps do to the wait_count of each lock: only block() and      *)
(* unblock() touch it, and a KFutex is published unused.                   *)
LEMMA WaitStep ==
  ASSUME NEW p \in Proc, OneProcess(p), FutexInv, IdsInv(p), UnusedInv(p),
         NEW t \in Thread
  PROVE  /\ \A l \in Lock : LockCall(t, l) \/ TryLock(t, l) =>
              \A m \in Lock : WaitCount(p, m)' = WaitCount(p, m)
         /\ Unlock(t) \/ Quiet(t) => \A m \in Lock : WaitCount(p, m)' = WaitCount(p, m)
         /\ BlockAdd(t) => \A m \in Lock :
              WaitCount(p, m)' = WaitCount(p, m) + (IF m = lk[t] THEN 1 ELSE 0)
         /\ UnblockMove(t) => \A m \in Lock :
              WaitCount(p, m)' = WaitCount(p, m) - (IF m = lk[t] THEN 1 ELSE 0)
<1>0. \A m \in Lock : WaitCount(p, m) \in Int
  BY DEF FutexInv, TypeOK, WaitCount, KFutex
<1>1. ASSUME UNCHANGED <<id, wait_count>>
      PROVE  \A m \in Lock : WaitCount(p, m)' = WaitCount(p, m)
  BY <1>1 DEF WaitCount
<1>2. ASSUME NEW l \in Lock, LockCall(t, l) \/ TryLock(t, l)
      PROVE  \A m \in Lock : WaitCount(p, m)' = WaitCount(p, m)
  BY <1>1, <1>2 DEF LockCall, TryLock, futexs
<1>3. ASSUME Unlock(t) \/ IdLoad(t) \/ FutexNew(t) \/ FutexDestroy(t)
      PROVE  \A m \in Lock : WaitCount(p, m)' = WaitCount(p, m)
  BY <1>1, <1>3 DEF Unlock, IdLoad, FutexNew, FutexDestroy, locks, futexs
<1>4. ASSUME FutexMapGet(t) \/ BlockLock(t) \/ BlockPark(t) \/ UnblockLock(t)
      PROVE  \A m \in Lock : WaitCount(p, m)' = WaitCount(p, m)
  BY <1>1, <1>4 DEF FutexMapGet, BlockLock, BlockPark, UnblockLock, locks, futexs
<1>5. ASSUME CompareExchange(t)
      PROVE  \A m \in Lock : WaitCount(p, m)' = WaitCount(p, m)
  <2>1. CASE id[lk[t]] = NoId
    <3>1. /\ lk[t] \in Lock /\ new_id[t] \in Id /\ new_id[t] # NoId
          /\ id'[lk[t]] = new_id[t] /\ wait_count' = wait_count
          /\ \A l \in Lock : l # lk[t] => id'[l] = id[l]
      BY <1>5, <2>1 DEF CompareExchange, At, futexs, FutexInv, TypeOK, PcInv
    <3>2. wait_count[<<p, new_id[t]>>] = 0
      BY <3>1 DEF UnusedInv, IdsInv
    <3>. QED
      BY <2>1, <3>1, <3>2 DEF WaitCount
  <2>2. CASE id[lk[t]] # NoId
    BY <1>1, <1>5, <2>2 DEF CompareExchange, futexs
  <2>. QED
    BY <2>1, <2>2
<1>6. ASSUME BlockAdd(t), NEW m \in Lock
      PROVE  WaitCount(p, m)' = WaitCount(p, m) + (IF m = lk[t] THEN 1 ELSE 0)
  <2>1. /\ id' = id /\ pc[t] = "add"
        /\ wait_count' = [wait_count EXCEPT ![Kf(t)] = @ + 1]
    BY <1>6 DEF BlockAdd, At, locks
  <2>2. CASE m = lk[t]
    BY <1>0, <2>1, <2>2, KfPublished DEF WaitCount, FutexInv, TypeOK
  <2>3. CASE m # lk[t]
    <3>1. id[m] # NoId => <<p, id[m]>> \in KFutex /\ <<p, id[m]>> # Kf(t)
      <4>1. id[m] # NoId => id[m] \in Id
        BY DEF FutexInv, TypeOK
      <4>2. Kf(t) = <<p, id[lk[t]]>> /\ id[m] # id[lk[t]]
        BY <2>1, <2>3, KfPublished
      <4>. QED
        BY <4>1, <4>2 DEF KFutex
    <3>2. id[m] # NoId => wait_count'[<<p, id[m]>>] = wait_count[<<p, id[m]>>]
      BY <2>1, <3>1 DEF FutexInv, TypeOK
    <3>. QED
      BY <1>0, <2>1, <2>3, <3>2 DEF WaitCount
  <2>. QED
    BY <2>2, <2>3
<1>7. ASSUME UnblockMove(t), NEW m \in Lock
      PROVE  WaitCount(p, m)' = WaitCount(p, m) - (IF m = lk[t] THEN 1 ELSE 0)
  <2>1. /\ id' = id /\ pc[t] = "move"
        /\ wait_count' = [wait_count EXCEPT ![Kf(t)] = @ - 1]
    BY <1>7 DEF UnblockMove, At, locks
  <2>2. CASE m = lk[t]
    BY <1>0, <2>1, <2>2, KfPublished DEF WaitCount, FutexInv, TypeOK
  <2>3. CASE m # lk[t]
    <3>1. id[m] # NoId => <<p, id[m]>> \in KFutex /\ <<p, id[m]>> # Kf(t)
      <4>1. id[m] # NoId => id[m] \in Id
        BY DEF FutexInv, TypeOK
      <4>2. Kf(t) = <<p, id[lk[t]]>> /\ id[m] # id[lk[t]]
        BY <2>1, <2>3, KfPublished
      <4>. QED
        BY <4>1, <4>2 DEF KFutex
    <3>2. id[m] # NoId => wait_count'[<<p, id[m]>>] = wait_count[<<p, id[m]>>]
      BY <2>1, <3>1 DEF FutexInv, TypeOK
    <3>. QED
      BY <1>0, <2>1, <2>3, <3>2 DEF WaitCount
  <2>. QED
    BY <2>2, <2>3
<1>. QED
  BY <1>2, <1>3, <1>4, <1>5, <1>6, <1>7 DEF Quiet

(* A KFutex nobody published stays unused. *)
LEMMA UnusedStep ==
  ASSUME NEW p \in Proc, OneProcess(p), FutexInv, IdsInv(p), UnusedInv(p), Next
  PROVE  UnusedInv(p)'
<1>1. CASE UNCHANGED <<id, wait_count>>
  BY <1>1 DEF UnusedInv
<1>2. ASSUME NEW t \in Thread, CompareExchange(t) PROVE UnusedInv(p)'
  <2>1. CASE id[lk[t]] = NoId
    <3>1. /\ wait_count' = wait_count
          /\ \A i \in Id, l \in Lock : id[l] = i => id'[l] = i
      BY <1>2, <2>1, IdAssumption DEF CompareExchange, futexs, FutexInv, TypeOK
    <3>. QED
      BY <3>1 DEF UnusedInv
  <2>2. CASE id[lk[t]] # NoId
    BY <1>1, <1>2, <2>2 DEF CompareExchange, futexs
  <2>. QED
    BY <2>1, <2>2
<1>3. ASSUME NEW t \in Thread, BlockAdd(t) \/ UnblockMove(t) PROVE UnusedInv(p)'
  <2>1. /\ id' = id /\ pc[t] \in {"add", "move"}
        /\ \A f \in KFutex : f # Kf(t) => wait_count'[f] = wait_count[f]
    BY <1>3 DEF BlockAdd, UnblockMove, At, locks, FutexInv, TypeOK
  <2>2. \A i \in Id : (\A l \in Lock : id[l] # i) => <<p, i>> \in KFutex /\ <<p, i>> # Kf(t)
    BY <2>1, KfPublished DEF KFutex
  <2>. QED
    BY <2>1, <2>2 DEF UnusedInv
<1>4. ASSUME NEW t \in Thread, NEW l \in Lock, LockCall(t, l) \/ TryLock(t, l)
      PROVE  UnusedInv(p)'
  BY <1>1, <1>4 DEF LockCall, TryLock, futexs
<1>5. ASSUME NEW t \in Thread, Unlock(t) \/ IdLoad(t) \/ FutexNew(t) \/ FutexDestroy(t)
      PROVE  UnusedInv(p)'
  BY <1>1, <1>5 DEF Unlock, IdLoad, FutexNew, FutexDestroy, locks, futexs
<1>6. ASSUME NEW t \in Thread,
             FutexMapGet(t) \/ BlockLock(t) \/ BlockPark(t) \/ UnblockLock(t)
      PROVE  UnusedInv(p)'
  BY <1>1, <1>6 DEF FutexMapGet, BlockLock, BlockPark, UnblockLock, locks, futexs
<1>. QED
  BY <1>2, <1>3, <1>4, <1>5, <1>6 DEF Next, Step

(* Sizes: waiters are counted, and the wait_count is an integer. *)
LEMMA RightTypes ==
  ASSUME NEW p \in Proc, FutexInv, NEW m \in Lock
  PROVE  /\ count[m] \in Nat /\ WaitCount(p, m) \in Int
         /\ Queued(m) \subseteq Counted(m) /\ Counted(m) \subseteq Thread
         /\ Permit(m) \subseteq Thread
         /\ count[m] = 0 => Counted(m) = {}
<1>1. count[m] \in Nat /\ WaitCount(p, m) \in Int
  BY DEF FutexInv, TypeOK, WaitCount, KFutex
<1>2. Queued(m) \subseteq Counted(m)
  BY DEF Queued, Counted, InLock, FutexInv, PcInv
<1>3. Counted(m) \subseteq Thread /\ Permit(m) \subseteq Thread
  BY DEF Counted, Permit
<1>4. count[m] = 0 => Counted(m) = {}
  BY <1>3, ThreadCard DEF FutexInv, CountInv
<1>. QED
  BY <1>1, <1>2, <1>3, <1>4

(* There is never a second right to a lock: each step makes one when       *)
(* nobody is counted, hands it on, leaves it in the KFutex, takes it from  *)
(* there, or drops it.                                                     *)
LEMMA PermitStep ==
  ASSUME NEW p \in Proc, OneProcess(p), MutexInv(p), Next
  PROVE  PermitInv(p)'
<1>. USE DEF MutexInv
<1>. SUFFICES ASSUME NEW m \in Lock PROVE LockRight(p, m)'
  BY DEF PermitInv
<1>0. LockRight(p, m)
  BY DEF PermitInv
<1>1. ASSUME Permit(m)' = Permit(m), Queued(m)' = Queued(m), count'[m] = count[m],
             WaitCount(p, m)' = WaitCount(p, m)
      PROVE  LockRight(p, m)'
  BY <1>0, <1>1 DEF LockRight
<1>2. ASSUME NEW t \in Thread, NEW l \in Lock, LockCall(t, l) \/ TryLock(t, l)
      PROVE  LockRight(p, m)'
  <2>1. WaitCount(p, m)' = WaitCount(p, m)
    BY <1>2, WaitStep
  <2>2. CASE m # l
    <3>1. count'[m] = count[m] /\ Permit(m)' = Permit(m) /\ Queued(m)' = Queued(m)
      BY <1>2, <2>2, EnterSets DEF FutexInv, TypeOK
    <3>. QED
      BY <1>1, <2>1, <3>1
  <2>3. CASE m = l
    <3>1. /\ count'[m] = count[m] + 1 /\ Queued(m)' = Queued(m)
          /\ count[m] = 0 => Permit(m)' = Permit(m) \cup {t}
          /\ count[m] # 0 => Permit(m)' = Permit(m)
      BY <1>2, <2>3, EnterSets DEF FutexInv, TypeOK
    <3>2. CASE count[m] = 0
      <4>1. Permit(m) = {} /\ Queued(m) = {} /\ WaitCount(p, m) = 0
        BY <1>0, <3>2, RightTypes DEF LockRight
      <4>2. Cardinality(Queued(m)) = 0
        BY <4>1, FS_EmptySet
      <4>. QED
        BY <2>1, <3>1, <3>2, <4>1, <4>2 DEF LockRight
    <3>3. CASE count[m] # 0
      BY <1>0, <2>1, <3>1, <3>3, RightTypes DEF LockRight
    <3>. QED
      BY <3>2, <3>3
  <2>. QED
    BY <2>2, <2>3
<1>3. ASSUME NEW t \in Thread, Unlock(t) PROVE LockRight(p, m)'
  <2>1. WaitCount(p, m)' = WaitCount(p, m) /\ lk[t] \in Lock
    BY <1>3, WaitStep, LkType DEF Unlock, At
  <2>2. CASE m # lk[t]
    <3>1. count'[m] = count[m] /\ Permit(m)' = Permit(m) /\ Queued(m)' = Queued(m)
      BY <1>3, <2>1, <2>2, UnlockSets DEF FutexInv, TypeOK
    <3>. QED
      BY <1>1, <2>1, <3>1
  <2>3. CASE m = lk[t]
    <3>1. /\ count'[m] = count[m] - 1 /\ Queued(m)' = Queued(m)
          /\ t \in Permit(m) /\ t \in Counted(m)
          /\ count[m] > 1 => Permit(m)' = Permit(m)
          /\ count[m] <= 1 => Permit(m)' = Permit(m) \ {t}
      BY <1>3, <2>3, UnlockSets DEF FutexInv, TypeOK
    <3>2. /\ Permit(m) = {t} /\ WaitCount(p, m) = Cardinality(Queued(m))
          /\ Cardinality(Queued(m)) \in Nat
      BY <1>0, <3>1, RightTypes, ThreadCard DEF LockRight
    <3>3. CASE count[m] > 1
      BY <1>0, <2>1, <3>1, <3>2, <3>3, RightTypes DEF LockRight
    <3>4. CASE count[m] <= 1
      <4>1. count[m] = 1
        BY <1>0, <3>1, <3>4, RightTypes DEF LockRight
      <4>2. Counted(m) \ {t} = {}
        <5>1. Counted(m) \subseteq Thread /\ Cardinality(Counted(m)) = 1
          BY <4>1, RightTypes DEF FutexInv, CountInv
        <5>2. Cardinality(Counted(m) \ {t}) = 0
          BY <3>1, <5>1, CardDel
        <5>. QED
          BY <5>1, <5>2, ThreadCard
      <4>3. Queued(m) = {}
        <5>1. t \notin Queued(m)
          BY <1>3 DEF Unlock, At, Queued
        <5>. QED
          BY <4>2, <5>1, RightTypes
      <4>4. WaitCount(p, m) = 0
        BY <3>2, <4>3, FS_EmptySet
      <4>. QED
        BY <2>1, <3>1, <3>2, <4>1, <4>4 DEF LockRight
    <3>. QED
      BY <3>3, <3>4, RightTypes
  <2>. QED
    BY <2>2, <2>3
<1>4. ASSUME NEW t \in Thread, Quiet(t) PROVE LockRight(p, m)'
  BY <1>1, <1>4, WaitStep, QuietSets
<1>5. ASSUME NEW t \in Thread, BlockAdd(t) PROVE LockRight(p, m)'
  <2>1. /\ WaitCount(p, m)' = WaitCount(p, m) + (IF m = lk[t] THEN 1 ELSE 0)
        /\ WaitCount(p, m) \in Int
    BY <1>5, WaitStep, RightTypes
  <2>2. lk[t] \in Lock /\ Kf(t) = <<p, id[lk[t]]>> /\ id[lk[t]] # NoId
    BY <1>5, KfPublished DEF BlockAdd, At
  <2>3. CASE m # lk[t]
    <3>1. count'[m] = count[m] /\ Permit(m)' = Permit(m) /\ Queued(m)' = Queued(m)
      BY <1>5, <2>2, <2>3, BlockAddSets
    <3>. QED
      BY <1>1, <2>1, <2>3, <3>1
  <2>4. CASE m = lk[t]
    <3>. DEFINE w == WaitCount(p, m)
    <3>1. w = wait_count[Kf(t)] /\ w \in Int /\ WaitCount(p, m)' = w + 1
      BY <2>1, <2>2, <2>4 DEF WaitCount
    <3>2. /\ count' = count /\ t \in Counted(m) /\ t \notin Queued(m)
          /\ w < 0 => Permit(m)' = Permit(m) \cup {t} /\ Queued(m)' = Queued(m)
          /\ w >= 0 => Permit(m)' = Permit(m) /\ Queued(m)' = Queued(m) \cup {t}
      BY <1>5, <2>4, <3>1, BlockAddSets
    <3>3. count[m] # 0
      BY <3>2, RightTypes
    <3>4. CASE w < 0
      <4>1. w = -1 /\ Permit(m) = {} /\ Queued(m) = {} /\ count[m] > 0
        BY <1>0, <3>4 DEF LockRight
      <4>2. Cardinality(Queued(m)) = 0
        BY <4>1, FS_EmptySet
      <4>. QED
        BY <3>1, <3>2, <3>4, <4>1, <4>2 DEF LockRight
    <3>5. CASE w >= 0
      <4>1. Cardinality(Queued(m) \cup {t}) = Cardinality(Queued(m)) + 1
        BY <3>2, RightTypes, CardAdd
      <4>. HIDE DEF w
      <4>2. /\ \A u, v \in Permit(m) : u = v
            /\ Permit(m) # {} => count[m] > 0 /\ w = Cardinality(Queued(m))
        BY <1>0 DEF LockRight, w
      <4>3. /\ Permit(m)' = Permit(m) /\ count'[m] = count[m]
            /\ Cardinality(Queued(m)') = Cardinality(Queued(m)) + 1
            /\ WaitCount(p, m)' = w + 1 /\ ~ (w + 1 < 0)
        <5>1. Permit(m)' = Permit(m) /\ Queued(m)' = Queued(m) \cup {t}
          BY <3>2, <3>5
        <5>2. ~ (w + 1 < 0)
          BY <3>1, <3>5
        <5>. QED
          BY <3>1, <3>2, <4>1, <5>1, <5>2
      <4>. QED
        BY <3>3, <4>2, <4>3 DEF LockRight
    <3>. QED
      BY <3>1, <3>4, <3>5
  <2>. QED
    BY <2>3, <2>4
<1>6. ASSUME NEW t \in Thread, UnblockMove(t) PROVE LockRight(p, m)'
  <2>1. /\ WaitCount(p, m)' = WaitCount(p, m) - (IF m = lk[t] THEN 1 ELSE 0)
        /\ WaitCount(p, m) \in Int /\ pc[t] = "move" /\ op[t] = "unblock"
    BY <1>6, WaitStep, RightTypes DEF UnblockMove, At, FutexInv, PcInv
  <2>2. t \in Permit(m) <=> m = lk[t]
    BY <2>1 DEF Permit, Holds, InUnlock
  <2>3. ASSUME m = lk[t]
        PROVE  /\ Permit(m) = {t} /\ count[m] > 0
               /\ WaitCount(p, m) = Cardinality(Queued(m))
               /\ Cardinality(Queued(m)) \in Nat
               /\ Cardinality(Queued(m)) = 0 => Queued(m) = {}
    BY <1>0, <2>2, <2>3, RightTypes, ThreadCard DEF LockRight
  <2>4. CASE blocked[Kf(t)] # <<>>
    <3>. PICK h : h = Head(blocked[Kf(t)])
      OBVIOUS
    <3>1. /\ h \in Thread /\ h # t /\ pc[h] = "parked" /\ Kf(h) = Kf(t)
      BY <1>6, <2>4, HeadParked DEF UnblockMove
    <3>2. lk[h] = lk[t]
      <4>1. /\ lk[h] \in Lock /\ lk[t] \in Lock
            /\ <<p, id[lk[h]]>> = <<p, id[lk[t]]>> /\ id[lk[t]] # NoId
        BY <2>1, <3>1, KfPublished
      <4>. QED
        BY <4>1 DEF IdsInv
    <3>3. h \in Queued(m) <=> m = lk[t]
      BY <3>1, <3>2 DEF Queued
    <3>4. /\ count' = count /\ Queued(m)' = Queued(m) \ {h}
          /\ m = lk[t] => Permit(m)' = (Permit(m) \ {t}) \cup {h}
          /\ m # lk[t] => Permit(m)' = Permit(m) \ {t}
      BY <1>6, <2>4, <3>2, MoveSets
    <3>5. CASE m # lk[t]
      BY <1>1, <2>1, <2>2, <3>3, <3>4, <3>5
    <3>6. CASE m = lk[t]
      <4>1. /\ Cardinality(Queued(m) \ {h}) = Cardinality(Queued(m)) - 1
            /\ Cardinality(Queued(m)) > 0
        BY <3>3, <3>6, RightTypes, CardDel
      <4>. QED
        BY <2>1, <2>3, <3>4, <3>6, <4>1 DEF LockRight
    <3>. QED
      BY <3>5, <3>6
  <2>5. CASE blocked[Kf(t)] = <<>>
    <3>1. count' = count /\ Queued(m)' = Queued(m) /\ Permit(m)' = Permit(m) \ {t}
      BY <1>6, <2>5, BankSets
    <3>2. CASE m # lk[t]
      BY <1>1, <2>1, <2>2, <3>1, <3>2
    <3>3. CASE m = lk[t]
      BY <2>1, <2>3, <3>1, <3>3 DEF LockRight
    <3>. QED
      BY <3>2, <3>3
  <2>. QED
    BY <2>4, <2>5
<1>. QED
  BY <1>2, <1>3, <1>4, <1>5, <1>6 DEF Next, Step, Quiet

(* Initially every lock is free. *)
LEMMA MutexInit ==
  ASSUME NEW p \in Proc, Init
  PROVE  MutexInv(p)
<1>1. FutexInv
  BY FutexInit
<1>2. IdsInv(p) /\ UnusedInv(p)
  BY DEF Init, IdsInv, UnusedInv, KFutex
<1>3. ASSUME NEW l \in Lock PROVE LockRight(p, l)
  <2>1. Permit(l) = {} /\ WaitCount(p, l) = 0
    BY DEF Init, Permit, Holds, InUnlock, WaitCount
  <2>. QED
    BY <2>1 DEF LockRight
<1>. QED
  BY <1>1, <1>2, <1>3 DEF MutexInv, PermitInv

(* The invariant of the lock is inductive. *)
LEMMA MutexStep ==
  ASSUME NEW p \in Proc, OneProcess(p)
  PROVE  MutexInv(p) /\ [Next]_vars => MutexInv(p)'
<1>1. ASSUME MutexInv(p), Next PROVE MutexInv(p)'
  <2>1. FutexInv'
    BY <1>1, FutexStep DEF MutexInv
  <2>2. IdsInv(p)' /\ UnusedInv(p)'
    BY <1>1, IdsStep, UnusedStep DEF MutexInv
  <2>3. PermitInv(p)'
    BY <1>1, PermitStep
  <2>. QED
    BY <2>1, <2>2, <2>3 DEF MutexInv
<1>2. ASSUME MutexInv(p), UNCHANGED vars PROVE MutexInv(p)'
  <2>. USE DEF MutexInv, vars, locks, maps, futexs, locals
  <2>1. FutexInv'
    BY <1>2, FutexStep
  <2>2. IdsInv(p)' /\ UnusedInv(p)'
    BY <1>2 DEF IdsInv, UnusedInv
  <2>3. PermitInv(p)'
    BY <1>2 DEF PermitInv, LockRight, Permit, Queued, WaitCount, Holds, InUnlock
  <2>. QED
    BY <2>1, <2>2, <2>3
<1>. QED
  BY <1>1, <1>2

(* At most one thread has returned from lock(), and it has not when the    *)
(* right is on its way.                                                    *)
LEMMA OneHolder ==
  ASSUME NEW p \in Proc, MutexInv(p), NEW l \in Lock
  PROVE  /\ Holders(l) \subseteq Permit(l) /\ Holders(l) \subseteq Counted(l)
         /\ count[l] = 0 => Holders(l) = {}
         /\ WaitCount(p, l) < 0 => Holders(l) = {}
         /\ \A t \in Permit(l) : t \notin Holders(l) => Holders(l) = {}
<1>1. Holders(l) \subseteq Permit(l) /\ Holders(l) \subseteq Counted(l)
  BY DEF Holders, Permit, Counted
<1>2. LockRight(p, l)
  BY DEF MutexInv, PermitInv
<1>. QED
  BY <1>1, <1>2, RightTypes DEF LockRight, MutexInv

(* A function that differs from another at one place. *)
LEMMA FunctionUpdate ==
  ASSUME NEW S, NEW F, NEW G, NEW l \in S, NEW v,
         F = [m \in S |-> F[m]], G = [m \in S |-> G[m]],
         G[l] = v, \A m \in S : m # l => G[m] = F[m]
  PROVE  G = [F EXCEPT ![l] = v]
OBVIOUS

(* The steps of the abstract lock, in terms of the mapped sets. *)
LEMMA AbstractSteps ==
  ASSUME NEW t \in Thread, NEW l \in Lock,
         \A m \in Lock : m # l => Holders(m)' = Holders(m) /\ Waiters(m)' = Waiters(m)
  PROVE  /\ /\ \/ t \in Waiters(l)
               \/ \A m \in Lock : t \notin Holders(m) /\ t \notin Waiters(m)
            /\ Holders(l) = {} /\ Holders(l)' = {t} /\ Waiters(l)' = Waiters(l) \ {t}
            => Abstract!Acquire(t, l)
         /\ /\ \A m \in Lock : t \notin Holders(m) /\ t \notin Waiters(m)
            /\ Holders(l)' = Holders(l) /\ Waiters(l)' = Waiters(l) \cup {t}
            => Abstract!Request(t, l)
         /\ /\ t \in Holders(l) /\ Holders(l)' = Holders(l) \ {t}
            /\ Waiters(l)' = Waiters(l)
            => Abstract!Release(t, l)
<1>. DEFINE H == [m \in Lock |-> {u \in Thread : Holds(u, m)}]
            W == [m \in Lock |-> {u \in Thread : InLock(u, m)}]
<1>1. \A m \in Lock : H[m] = Holders(m) /\ W[m] = Waiters(m)
  BY DEF Holders, Waiters
<1>2. \A m \in Lock : H'[m] = Holders(m)' /\ W'[m] = Waiters(m)'
  BY DEF Holders, Waiters
<1>3. /\ H = [m \in Lock |-> H[m]] /\ H' = [m \in Lock |-> H'[m]]
      /\ W = [m \in Lock |-> W[m]] /\ W' = [m \in Lock |-> W'[m]]
  OBVIOUS
<1>4. ASSUME \/ t \in Waiters(l)
             \/ \A m \in Lock : t \notin Holders(m) /\ t \notin Waiters(m),
             Holders(l) = {}, Holders(l)' = {t}, Waiters(l)' = Waiters(l) \ {t}
      PROVE  Abstract!Acquire(t, l)
  <2>1. /\ t \in Abstract!Free \cup W[l] /\ H[l] = {}
    BY <1>1, <1>4 DEF Abstract!Free
  <2>2. H' = [H EXCEPT ![l] = {t}]
    <3>1. H'[l] = {t} /\ \A m \in Lock : m # l => H'[m] = H[m]
      BY <1>1, <1>2, <1>4
    <3>. HIDE DEF H, W
    <3>. QED
      BY <1>3, <3>1, FunctionUpdate
  <2>3. W' = [W EXCEPT ![l] = W[l] \ {t}]
    <3>1. W'[l] = W[l] \ {t} /\ \A m \in Lock : m # l => W'[m] = W[m]
      BY <1>1, <1>2, <1>4
    <3>. HIDE DEF H, W
    <3>. QED
      BY <1>3, <3>1, FunctionUpdate
  <2>. QED
    BY <2>1, <2>2, <2>3 DEF Abstract!Acquire
<1>5. ASSUME \A m \in Lock : t \notin Holders(m) /\ t \notin Waiters(m),
             Holders(l)' = Holders(l), Waiters(l)' = Waiters(l) \cup {t}
      PROVE  Abstract!Request(t, l)
  <2>1. t \in Abstract!Free
    BY <1>1, <1>5 DEF Abstract!Free
  <2>2. H' = H
    BY <1>1, <1>2, <1>3, <1>5
  <2>3. W' = [W EXCEPT ![l] = W[l] \cup {t}]
    <3>1. W'[l] = W[l] \cup {t} /\ \A m \in Lock : m # l => W'[m] = W[m]
      BY <1>1, <1>2, <1>5
    <3>. HIDE DEF H, W
    <3>. QED
      BY <1>3, <3>1, FunctionUpdate
  <2>. QED
    BY <2>1, <2>2, <2>3 DEF Abstract!Request
<1>6. ASSUME t \in Holders(l), Holders(l)' = Holders(l) \ {t}, Waiters(l)' = Waiters(l)
      PROVE  Abstract!Release(t, l)
  <2>1. t \in H[l]
    BY <1>1, <1>6
  <2>2. H' = [H EXCEPT ![l] = H[l] \ {t}]
    <3>1. H'[l] = H[l] \ {t} /\ \A m \in Lock : m # l => H'[m] = H[m]
      BY <1>1, <1>2, <1>6
    <3>. HIDE DEF H, W
    <3>. QED
      BY <1>3, <3>1, FunctionUpdate
  <2>3. W' = W
    BY <1>1, <1>2, <1>3, <1>6
  <2>. QED
    BY <2>1, <2>2, <2>3 DEF Abstract!Release
<1>. QED
  BY <1>4, <1>5, <1>6

(* A step that moves no thread is a stuttering step of the abstract lock. *)
LEMMA AbstractStutter ==
  ASSUME \A m \in Lock : Holders(m)' = Holders(m) /\ Waiters(m)' = Waiters(m)
  PROVE  UNCHANGED Abstract!vars
<1>1. [m \in Lock |-> {u \in Thread : Holds(u, m)}]' = [m \in Lock |-> {u \in Thread : Holds(u, m)}]
  BY DEF Holders
<1>2. [m \in Lock |-> {u \in Thread : InLock(u, m)}]' = [m \in Lock |-> {u \in Thread : InLock(u, m)}]
  BY DEF Waiters
<1>. QED
  BY <1>1, <1>2 DEF Abstract!vars

(* Every step is a step of the abstract lock or changes nothing of it. *)
LEMMA RefinementStep ==
  ASSUME NEW p \in Proc, OneProcess(p), MutexInv(p), [Next]_vars
  PROVE  [Abstract!Next]_(Abstract!vars)
<1>. USE DEF MutexInv
<1>0. ASSUME NEW t \in Thread, pc[t] = "idle"
      PROVE  \A m \in Lock : t \notin Holders(m) /\ t \notin Waiters(m)
  BY <1>0 DEF Holders, Waiters, Holds, InLock
<1>1. ASSUME NEW t \in Thread, NEW l \in Lock, LockCall(t, l) \/ TryLock(t, l)
      PROVE  Abstract!Next
  <2>1. \A m \in Lock : t \notin Holders(m) /\ t \notin Waiters(m)
    BY <1>0, <1>1 DEF LockCall, TryLock, At
  <2>2. \A m \in Lock : m # l => Holders(m)' = Holders(m) /\ Waiters(m)' = Waiters(m)
    BY <1>1, EnterSets
  <2>3. CASE count[l] = 0
    <3>1. Holders(l) = {}
      BY <2>3, OneHolder
    <3>2. Holders(l)' = {t} /\ Waiters(l)' = Waiters(l) \ {t}
      BY <1>1, <2>1, <2>3, <3>1, EnterSets
    <3>3. Abstract!Acquire(t, l)
      BY <2>1, <2>2, <3>1, <3>2, AbstractSteps
    <3>. QED
      BY <3>3 DEF Abstract!Next
  <2>4. CASE count[l] # 0
    <3>1. Holders(l)' = Holders(l) /\ Waiters(l)' = Waiters(l) \cup {t}
      BY <1>1, <2>4, EnterSets
    <3>2. Abstract!Request(t, l)
      BY <2>1, <2>2, <3>1, AbstractSteps
    <3>. QED
      BY <3>2 DEF Abstract!Next
  <2>. QED
    BY <2>3, <2>4
<1>2. ASSUME NEW t \in Thread, Unlock(t) PROVE Abstract!Next
  <2>. PICK l \in Lock : lk[t] = l
    BY <1>2, LkType DEF Unlock, At
  <2>1. \A m \in Lock : /\ Waiters(m)' = Waiters(m)
                        /\ Holders(m)' = IF m = l THEN Holders(m) \ {t} ELSE Holders(m)
    BY <1>2, UnlockSets
  <2>2. t \in Holders(l)
    BY <1>2 DEF Unlock, At, Holders, Holds
  <2>3. Abstract!Release(t, l)
    BY <2>1, <2>2, AbstractSteps
  <2>. QED
    BY <2>3 DEF Abstract!Next
<1>3. ASSUME NEW t \in Thread, Quiet(t) PROVE UNCHANGED Abstract!vars
  BY <1>3, QuietSets, AbstractStutter
<1>4. ASSUME NEW t \in Thread, BlockAdd(t)
      PROVE  Abstract!Next \/ UNCHANGED Abstract!vars
  <2>. PICK l \in Lock : lk[t] = l
    BY <1>4, LkType DEF BlockAdd, At
  <2>. DEFINE w == wait_count[Kf(t)]
  <2>1. \A m \in Lock :
          /\ Holders(m)' = IF m = l /\ w < 0 THEN Holders(m) \cup {t} ELSE Holders(m)
          /\ Waiters(m)' = IF m = l /\ w < 0 THEN Waiters(m) \ {t} ELSE Waiters(m)
    BY <1>4, BlockAddSets
  <2>2. WaitCount(p, l) = w /\ t \in Waiters(l)
    BY <1>4, KfPublished DEF BlockAdd, At, WaitCount, Waiters, InLock, FutexInv, PcInv
  <2>. HIDE DEF w
  <2>3. CASE w < 0
    <3>1. Holders(l) = {} /\ Holders(l)' = {t} /\ Waiters(l)' = Waiters(l) \ {t}
      BY <2>1, <2>2, <2>3, OneHolder
    <3>2. Abstract!Acquire(t, l)
      BY <2>1, <2>2, <3>1, AbstractSteps
    <3>. QED
      BY <3>2 DEF Abstract!Next
  <2>4. CASE ~ (w < 0)
    BY <2>1, <2>4, AbstractStutter
  <2>. QED
    BY <2>3, <2>4
<1>5. ASSUME NEW t \in Thread, UnblockMove(t)
      PROVE  Abstract!Next \/ UNCHANGED Abstract!vars
  <2>1. CASE blocked[Kf(t)] # <<>>
    <3>. PICK h : h = Head(blocked[Kf(t)])
      OBVIOUS
    <3>1. /\ h \in Thread /\ pc[h] = "parked" /\ op[h] = "block"
          /\ lk[h] \in Lock /\ Kf(h) = Kf(t) /\ pc[t] = "move" /\ op[t] = "unblock"
      BY <1>5, <2>1, HeadParked DEF UnblockMove, At, FutexInv, PcInv
    <3>. PICK l \in Lock : lk[h] = l
      BY <3>1
    <3>2. lk[t] = l
      <4>1. /\ lk[t] \in Lock /\ <<p, id[l]>> = <<p, id[lk[t]]>> /\ id[l] # NoId
        BY <3>1, KfPublished
      <4>. QED
        BY <4>1 DEF IdsInv
    <3>3. t \in Permit(l) /\ t \notin Holders(l) /\ h \in Waiters(l)
      BY <3>1, <3>2 DEF Permit, Holders, Waiters, Holds, InUnlock, InLock
    <3>4. \A m \in Lock : /\ Holders(m)' = IF m = l THEN Holders(m) \cup {h} ELSE Holders(m)
                          /\ Waiters(m)' = IF m = l THEN Waiters(m) \ {h} ELSE Waiters(m)
      BY <1>5, <2>1, MoveSets
    <3>5. Holders(l) = {} /\ Holders(l)' = {h} /\ Waiters(l)' = Waiters(l) \ {h}
      BY <3>3, <3>4, OneHolder
    <3>6. Abstract!Acquire(h, l)
      BY <3>1, <3>3, <3>4, <3>5, AbstractSteps
    <3>. QED
      BY <3>1, <3>6 DEF Abstract!Next
  <2>2. CASE blocked[Kf(t)] = <<>>
    BY <1>5, <2>2, BankSets, AbstractStutter
  <2>. QED
    BY <2>1, <2>2
<1>6. CASE UNCHANGED vars
  <2>1. \A m \in Lock : Holders(m)' = Holders(m) /\ Waiters(m)' = Waiters(m)
    BY <1>6 DEF vars, locals, Holders, Waiters, Holds, InLock
  <2>. QED
    BY <2>1, AbstractStutter
<1>. QED
  BY <1>1, <1>2, <1>3, <1>4, <1>5, <1>6 DEF Next, Step, Quiet

(* RawFutex is a lock for the threads of one process, however many they    *)
(* are and however many locks they use: what try_lock(), lock() and        *)
(* unlock() do to count, to the KFutex and to the list of the scheduler    *)
(* amounts to one holder at a time, taken from the threads that asked.     *)
THEOREM FutexImplementsMutex ==
  ASSUME NEW p \in Proc, OneProcess(p)
  PROVE  Spec => ImplementsMutex
<1>1. Init => MutexInv(p)
  BY MutexInit
<1>2. MutexInv(p) /\ [Next]_vars => MutexInv(p)'
  BY MutexStep
<1>3. Init => Abstract!Init
  <2>. SUFFICES ASSUME Init PROVE Abstract!Init
    OBVIOUS
  <2>1. \A t \in Thread, l \in Lock : ~ Holds(t, l) /\ ~ InLock(t, l)
    BY DEF Init, Holds, InLock
  <2>. QED
    BY <2>1 DEF Abstract!Init
<1>4. MutexInv(p) /\ [Next]_vars => [Abstract!Next]_(Abstract!vars)
  BY RefinementStep
<1>. QED
  BY <1>1, <1>2, <1>3, <1>4, PTL DEF Spec, ImplementsMutex, Abstract!Spec
=============================================================================
