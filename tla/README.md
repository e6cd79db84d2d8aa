# A TLA+ model of the Aurora kernel

This directory models the Aurora kernel (`src/kernel` and the `src/libutil` it
is built on): the thread scheduler, the destruction of threads and processes,
the sleeping locks, the page and heap allocators, address spaces, capabilities
and shared memory, the collections underneath, and the start of the processors
with their interrupts and clocks. TLC checks the models on small instances;
TLAPS proves the safety properties of the scheduler, the locks, both allocators,
the address spaces with their capabilities, the lists, the start-up and the clock
for every number of processors, threads, locks, pages and nodes.

## 1. Inventory

| component | state | operations | depends on | hard because | correct when |
|---|---|---|---|---|---|
| thread scheduler (`sched/mod.rs`, `sched/thread.rs`) | `tlist`: ready, running and idle (per processor), destroy and sleep lists, trees of join, wait, connection and futex lists; `Thread.state` | `block`, `schedule`, `time_handler`, `int_handler`, `ensure`, `dealloc_state`, `inner_state_move` | interrupts, processes, futexes | state is set before the thread leaves its list; `ensure` and its use are in different critical sections; preemption everywhere | a thread is on exactly the list its state names; a ready thread runs; block returns only after a wake-up |
| thread cleaner | a list of its own, `victim` | `thread_cleaner`, `Thread::dealloc`, `Process::remove_thread`, `Thread::drop` | tlist, process, address space | runs beside the processor that is still leaving the dead thread | frees each destroyed thread once, when nobody uses it; wakes joiners |
| process life cycle (`sched/process.rs`) | `proc_list`, `alive`, `cpus_running`, thread table, the Arcs | `new_thread`, `terminate`, `remove_thread`, `from_elf` | scheduler, IPIs | exit is seen by each processor at its own time | no switch to a dead process; exit comes to its end |
| processor marks (`util/cpu_marker.rs`) | `[bool; MAX_CPUS]` | `set`, `iter_clear`, `CpuMarkerIter::next` | | index arithmetic | the marks are the processors that run the process; the iterator visits each once |
| interrupt entry (`int/idt.rs`, `arch/x64/int/int.asm`, `kdata.rs`) | handler tables, GsData | `rust_int_handler`, the entry macros, `cpud` | | the stack is left only at `iretq`; no end of interrupt on vector 129 | see the scheduler |
| kernel futex (`sched/sync.rs`) | `KFutex`: wait_count, block_lock; its node in the thread list; `FutexMap` per process | `block`, `unblock`, `destroy`, `insert`, `remove` | scheduler, capabilities | counter and list are updated at different times; the scheduler releases a lock it does not hold | one wake-up per permit, none lost; what loses the race for an id goes |
| libutil futex (`libutil/src/futex.rs`, `util/mod.rs`) | `RawFutex`: count, id | `lock`, `try_lock`, `unlock`, `id` | kernel futex of the current process | lazily created id, two counters in a row | mutual exclusion; lock returns; ids resolve |
| physical page allocator (`mem/phys_alloc.rs`) | free lists per order, allocation bits, zones behind a `RefCell` | `oalloc`, `oalloc_at`, `orealloc`, `dealloc`, zone selection | | buddy arithmetic, split and join; the borrow count of the `RefCell` is shared and not atomic | blocks are disjoint; free_space is exact; freed blocks join; no panic |
| kernel heap (`libutil/src/mem/heap.rs`) | zones with address-ordered free nodes | `alloc`, `dealloc`, `merge`, `resize` | page allocator | size at alloc and at dealloc are computed differently | free nodes and blocks are disjoint; nothing is lost |
| address spaces (`mem/virt_alloc.rs`, `mem/sys.rs`) | page tables, list of mapped ranges | `map`, `map_at`, `remap`, `unmap`, the realloc calls | page allocator, locks | reverted on failure, page tables freed when empty | mapped ranges are disjoint and backed; failure changes nothing |
| capabilities, shared memory (`cap`, `mem/shared_mem.rs`) | `CapMap`, ids with rights, reference counts | `insert`, `clone_cap`, `destroy`, `map`, `unmap` | address spaces | rights in the id, counts beside the Arc | rights only shrink; one mapping per capability; the memory goes with the last capability |
| intrusive collections (`libutil/src/collections`) | linked lists, AVL trees | push, pop, remove, insert, rotate, iterate | | links and balance factors are read long after they were written; nodes are freed during an iteration | a list is the sequence its operations describe; a tree is a balanced search tree |
| vectors without locks (`nlvec.rs`, `nlvecmap.rs`) | one atomic pointer to a vector | `read`, `write`, and the map on top | the processors that start | a reader has no claim on what it reads | nobody reads a dropped vector; nothing that was inserted is lost |
| start-up and interrupts (`main.rs`, `int/`, `time/pit.rs`) | handler tables, local APICs, `LAPIC_ID_MAP`, `APS_TO_BOOT`, `APS_GO`, ids | `init`, `ap_init`, `smp_init`, calibration, IPIs, `panic` | allocators, scheduler, vectors without locks | processors start at their own time; interrupts are let in before everything is set | unique ids; interrupts find their handler; the start ends; a panic stops all |
| time (`time/`, `lapic.rs`) | `elapsed_time`, hardware counter | `tick`, `nsec` | interrupts | counter and `elapsed_time` change at different times | time follows the hardware |
| the rest: ACPI and multiboot tables, GDT, system call table, ELF, ipc (empty types), user libraries | | | | | not modelled, see section 7 |

Interaction: every processor runs the code of the thread at the head of its
running list. That code calls `block`, `new_thread`, `terminate` and the
futexes; the timer (on processor 0 also for sleepers), int 128 and the
inter-processor interrupt 129 lead to `schedule`. All list changes happen under
`tlist`, an `IMutex`, with interrupts off. The cleaner is an ordinary kernel
thread and takes the same locks. Below, the heap takes pages from `zm`, address
spaces take blocks from `zm` and nodes from the heap, and shared memory is a
block that capabilities map into address spaces. The scheduler's trees and lists
are the intrusive collections. `Boot` ends where `Scheduler` begins.

## 2. Plan

Done, in this order:

1. `Scheduler`: scheduler, cleaner and process exit in one module, since they
   share `tlist`; its proofs are in `SchedulerProofs`.
2. `Futex` over `Mutex`: the lock stack and its refinement.
3. `BuddyAlloc`, `Heap` over `Blocks`: the allocators and what they promise.
4. `AddressSpace` over `Regions`, `Capabilities` composed with it, and
   `PageTables` below it.
5. `AvlTree`, `LinkedList`, `NLVec`: the collections.
6. `Boot`, `Clock`: start-up, interrupts and time.

7. Proofs, in a module of their own per component: `SchedulerProofs`,
   `FutexProofs` with the refinement of `Mutex`, `AddressSpaceProofs` (operators)
   and `CapabilitiesProofs` (invariants and the refinement of `Regions`),
   `LinkedListProofs`, `BootProofs`, `ClockProofs`, and `HeapProofs` with the
   refinement of `Blocks` by both allocators.

What is not done, and why, is in sections 5 (what stays with TLC) and 7.

## 3. Modules

### Scheduler

State. `state`, `ready`, `running`, `idle`, `queue` and `nodes` are
`Thread.state` and the fields of `struct ThreadList`; `queue` holds the lists on
which order does not matter as sets, and `nodes` says which nodes the join tree
has, because a state without a node has no list. `life` follows the memory of a
thread, `pst` the process (in `proc_list`, alive, dropped), `marks` is
`cpus_running`, `ipi` the interrupt 129 of each processor. `pc`, `arg`,
`target`, `iter` and `victim` are the code and locals of each thread, `mode` and
`stk` say whether a processor is in a handler and on whose stack. `fault` is the
first panic or memory error, after which nothing moves.

Actions. One action is one critical section of `tlist` or one step between two.

| action | code |
|---|---|
| `NewThread` | `Process::new_thread_regs`, `insert_thread` |
| `BlockCall`, `EnsureCheck`, `EnsureInsert`, `SetState`, `IntSched` | `thread_block`, `block`, the two locks of `ensure`, `set_state`, `int_sched` and `int_handler` |
| `TimeHandler`, `IpiHandler` | `time_handler`, `ipi_process_exit_handler`, which keeps the `Arc` of a dead process (label `exit`) in its call of `int_sched` |
| `Schedule` (`SwitchTo`, `FileAndSwitch`, `Stay`) | `schedule`, one critical section |
| `Iret` | the end of `make_asm_int_handler`: the stack changes here |
| `Collect`, `Pop`, `RemoveThread`, `DeallocState`, `FreeThread` | `thread_cleaner`, `Thread::dealloc`, `Process::remove_thread`, `dealloc_state`, `Thread::drop` |
| `Terminate`, `SetDead`, `IterClear`, `SendIpi` | `Process::terminate` |
| `ProcCPanic` | the `unwrap` of `proc_c` |

A preempted thread keeps its `pc`; when it is resumed after `set_state` it
executes `int 128` once more, as the FIXME above `int_handler` says.

The panics of the code are part of the model: `index` (no list for a state),
`assert` (`dealloc_state`), `proc_c` (no process), and two outcomes that the code
does not notice, `freed` (a stack freed while a processor is on it) and `shared`
(two processors on one stack). `terminate` has no caller in this revision; the
model lets threads call it on their own or on a listed process.

Left out: registers, run times, address-space loads, deadlines (a tick finds any
subset of the sleepers due), the Waiting and Listening states (never entered),
`ref_count` (always 0, nobody calls `thread_get`), failing allocation of a node
or a thread.

### Futex and Mutex

`Futex` puts `RawFutex`, the `UtilCalls`, `FutexMap` and `KFutex` together, one
action per atomic operation or critical section: `LockCall`, `TryLock`, `Unlock`
(`RawFutex`); `IdLoad`, `FutexNew`, `CompareExchange`, `FutexDestroy`
(`RawFutex::id`); `FutexMapGet`; `BlockAdd`, `BlockLock`, `BlockPark`
(`KFutex::block`, where the park is `block(FutexBlock)` with the `force_unlock`
of `atomic_process`); `UnblockLock`, `UnblockMove` (`KFutex::unblock` with
`inner_state_move`). `nodes` are the `FutexBlock` nodes
that `KFutex::new` puts in the thread list and that only `destroy` would take out;
`home` is history, the process in whose map the id of a lock was made. Scheduling
is left out: any thread may take its next step. That `block` does not return before a wake-up is `BlockedUntilWoken` of
`Scheduler`.

`Mutex` is the abstract lock: a set of waiting threads and at most one holder.
`ImplementsMutex` maps the holders to the threads that `lock` or `try_lock`
returned to, and the waiting threads to those inside `lock`.

### BuddyAlloc, Heap and Blocks

`BuddyAlloc` is one `BuddyAllocator` per memory region behind an `IMutex` (free
lists per order, the bits of allocated blocks, `free_space`) and `ZoneManager`,
whose `allocer_action` tries the zones from `selnum` on: `EnterAlloc` takes the
turn, `TryZone` is one locked attempt, `AllocReturn` the return. The zones are in a
`RefCell`, and each attempt, `dealloc` and `dealloc_frame` borrows it: `borrows` is
its count, a plain `Cell` that all processors share, `cell` how far a processor is,
and a borrow is a load, a store, the use and the load and store of its drop
(`BorrowLoad`, `BorrowStore`, `UseBorrow` in the action that uses it, `DropLoad`,
`DropStore`). A count that is not positive after it was raised, or is beyond
`MaxBorrows` (`isize::MAX` in the code), panics. The start-up page is taken before
any other processor runs, and its borrow is left out. `alloc` and `alloc_frame` are
the calls modelled; only a test in `main.rs` (469) calls `oalloc` of `ZoneManager`,
and nothing `oallocz`. The recursive
splits (`SplitFrom`, `SplitTop`) and the joins of `insert_node` (`JoinOrder`) are
written as what they do to the lists in the end; the conditions under which
`insert_node` gives up are those of the code, by which it never joins anything. `AllocApCode` is the start-up page
that `init` takes with `oalloc_at`. A zone is described by its first page and
the page after its last; `MaxOrder` is `MAX_ORDER` (32 in the code), and
`ZoneAssumption` says what the code relies on or panics without: at most
`MAX_ZONES` regions, none empty or of `2^MaxOrder` pages, which do not overlap.

`Heap` adds `LinkedListAllocator` and its `HeapZone`s: a call is one critical
section, or, when it grows, three (`HeapAlloc`, the steps of `zm.alloc`,
`HeapGrow`) with the heap locked throughout. Blocks are cut from the end of the
first node that fits (`CutAt`), and `ZoneDealloc` recomputes the size from the
layout. `HeapAssumption` has the constants of `heap.rs` as relations (a chunk
divides a page, the header of a zone is whole chunks, the first zone is larger than
its header) and that no layout is aligned to more than a chunk. `BootAssumption` is
what the two allocations of `init` need of the machine, or it panics: the start-up
page is usable, and without it some zone still has a block for the first heap zone.

`Blocks` is the abstract store: disjoint blocks appear and disappear one at a
time. `ImplementsBlocks` maps the owned pages of `zm`, and the blocks of the heap,
to it.

### AddressSpace, Regions, Capabilities and PageTables

`AddressSpace` has the ranges of a process with their `VirtLayout`s (`vmap`), the
relation `pt` of pages to frames that the page tables stand for, the blocks in
use (`live`), the user stacks and the lock of `virt_map`. A system call is
modelled from its first look-up to the drop of its layout, one action per
critical section: `ReallocNew`, `StackNew`, `MapOk`, `MapErr`, `Lookup`,
`UnmapCall`, `StackFree`, `DeallocLayout`, `DropLayout`, `RemapOk`,
`RemapRevert`, `RemapErr`, `RemapShrink`. `free_space` is as written, the second
test of the lower neighbour included. `halt` is the first panic; a shrink keeps
`virt_map` locked for ever, as the loop at `mem/sys.rs:122` does.

`Capabilities` adds `CapMap`, ids that carry rights, and `SharedMem` with the
record of its mappings: `SmemNew`, `CapClone`, `CloneInsert`, `CapDestroy`,
`CapMapCall`, `CapUnmap`. `CapDestroy` drops the capability, and with the last one
of an object (`Referenced`: none in the map, none in the hands of a `cap_clone`) its
`SharedMem` and the `cap_data` in it; the ranges stay mapped and the memory in use,
since nothing drops them. Only one process is modelled, because `spawn` is
`todo!()`.

`Regions` is the abstract address space: disjoint regions appear, disappear, or
are replaced by one with the same contents at the front. `ImplementsRegions` maps
each range to its pages as `pt` translates them.

`PageTables` is the tree of tables below `pt`: `SetEntry`, `ClearEntry` and
`FreeIfEmpty` with the count kept in entry 0, and `MapFrame` and `UnmapFrame` over
them.

### AvlTree, LinkedList and NLVec

`AvlTree` has the links and balance factors of the nodes; `InsertKey` and
`RemoveKey` start a call, and each turn of the loop of `rebalance` is a step
(`Climb`). `LinkedList` has the links of the nodes, the header of each list and
one iterator that may be in progress; the body of the loop may move or free the
node it was given last. `content` and `seen` are history: what the calls say
should be in the lists, and what the iterator gave out. `NLVec` has one action
per atomic operation of `read` and `write`; a map stands for the sorted vector of
`NLVecMap`.

### Boot and Clock

`Boot`: `pc` is where a processor is in `init`, `ap_init` or after; `id`,
`apsToBoot`, `apsGo` and `allocLock` are what the processors start under; `mapPtr`,
`mapHeap` and the rest of `mapVars` are `LAPIC_ID_MAP`, an instance of `NLVec` whose
`write` a processor goes through step by step after `LapicFrom` (`Insert`; `idMap`
are the ids in it now); `hnd`, `lapic`, `irr`, `isr`, `inh` are the handler tables
and the state of the local APICs, where an interrupt is taken when its class is
above all that is in service, and sent to a processor whose local APIC is enabled
(`Targets`). `CanRegister` is the test of `Handler::register`, whose error every
caller unwraps. `Calibrate` and `Calibrated` are the window in which
`nanosec_per_timer_tick` lets interrupts in. A start-up interrupt (`Sipi`) is sent
again and again. Whether there is a local APIC, which irqs the MADT overrides, how
many processors it lists (`listed`, disabled ones included, which never start) and
which local APIC has the id 0, to which the timer irq goes, is chosen in `Init`.
The start-up interrupts go to all processors, listed or not (TODO at
`int/apic/mod.rs:272`); that those that answer are listed is `ListedAssumption`.
`NLVecMap::get`, a write of an unchanged copy in the code, is one step of `SendExit`
here: what it could do to the map is what `Insert` does (`IdsKept`, section 6).

`Clock`: the hardware counts ticks and interrupts after a period; interrupts may
be off for any time, so that a tick is pending or lost; `nsec` reads the counter
and `elapsed_time` as the code does, for the local APIC in one step, for the PIT
with the latch and the read of `elapsed_time` as two, or, where the lock of the PIT
is taken, without the latch (`NsecNoLatch`).

## 4. Runs

| run | instance | states | what it shows |
|---|---|---|---|
| `sched_join` | 2 processors, a user thread and a kernel thread that exit, join each other and terminate the process | 1.7 million | `TypeOK`, `ListInv`, `BlockedUntilWoken`, `MarksExact`, `SwitchToLiving` |
| `sched_live` | 1 processor, 2 threads of a user process that exit and join, with fairness | 33 thousand | `MarksExact`, `ReadyRuns`, `DestroyedIsFreed`, `JoinerWoken` |
| `futex_lock` | 3 threads, 1 lock, with fairness | 24 thousand | `TypeOK`, `OneFutexPerLock`, `NoLeak`, `BlockLockOwned`, `ImplementsMutex`, `UnlockReturns` |
| `mem_alloc` | 2 processors, 2 zones with their `RefCell`, heap of up to 2 blocks, with fairness | 0.3 million | `PagesTile`, `SpaceExact`, `HeapTiles`, `OnlyBorrowFaults`, `AllocReturns`, `ImplementsBlocks` |
| `addr_space` | 2 threads, 6 pages, 3 blocks, 2 capability ids | 0.4 million | `TypeOK`, `PageMapExact`, `StacksMapped`, `SharedExact`, `RightsShrink`, `NoLeak`, `ImplementsRegions` |
| `collections` | a tree over 10 keys; 2 lists with 5 nodes | some 0.1 million | `SearchExact`, `Balanced`, `ListExact`, `IterExact` |
| `machine` | 3 processors that start, with fairness; a clock of 9 ticks | 93 thousand | `OwnId`, `Handled`, `Acknowledged`, `AllUp`, `BootEnds`, `PanicStops`, `Accurate`, `ForwardOnly` |
| `sched_freed` | 2 processors, kernel threads | violated | a stack is freed under a processor |
| `futex_lost` | 2 threads, 1 lock, with fairness | violated | a wake-up is lost between `fetch_add` and `block_lock` |
| `as_double_free` | as `addr_space` | violated | a layout is freed by `dealloc` and again by its drop |
| `page_tables` | 3 levels of 3 entries, 4 tables | violated | entry 0 overwrites the count of its table |
| `nlvec_freed` | 2 processors, 1 key | violated | a vector is read after it was dropped |

The five violated properties each state a comment, an assertion or a document of
the repository; the counterexample is the finding recorded in `PROJECT.json`.

Bounds.

* Scheduler: two processors suffice for one to run the cleaner, or `terminate`,
  while the other is in any step of a thread; with two threads and the cleaner
  every list may be empty, shared by two, or raced for. A kernel thread can
  terminate the process from outside it, its own thread from inside. Switches
  between two threads of one process are in `sched_live`.
* Futex: three threads on a lock give a holder, a parked waiter and one that is
  between counting itself and parking. `MaxId`, the kernel futexes created per
  process, equals the number of threads; each creates at most one per lock, so
  that the bound never disables `FutexNew`.
* Allocators: two zones of two usable pages, of which one is not aligned to its
  size, so that one zone has two blocks of a page and the other a block of two, which
  is split; callers ask for pages and the heap for blocks of two, and both zones fill
  up. The heap blocks (`MCLayouts`) have a size that is no multiple of a chunk, so
  that sizes are rounded, nodes are merged on both sides, and the heap grows.
  `MaxOrder` is 8, more than zones of this size have lists. `MaxHeld` and `MaxBlocks`
  bound what is in use at a time, never how often. `MaxBorrows` is 2, the least at
  which two processors can borrow together; since increments and decrements are lost,
  the count also gets to both ends. Deadlock is not checked, because a panic stops the
  machine.
* Address spaces: 6 pages with a program image at page 1 leave room for two or
  three ranges, so that a range may grow where it is, have to move, or find no
  room; three blocks run out. `MaxIds` allows a capability and one clone.
  `NoReuse` cuts off behaviours after the double free of `as_double_free` has
  hit a new owner, of which nothing can be said. Deadlock is not checked, because
  a panic or the endless loop of a shrink really stops the process.
* Collections: ten keys give trees of height four with both double rotations and
  rebalancing over two levels; five nodes give iterations from both ends that meet
  with nodes moved meanwhile. The tree and the lists are checked side by side, in
  behaviours of their own (`kind`), since neither reads the other.
* Machine: two processors besides the first race for ids, stacks and the lock; up
  to three are listed. `LAPIC_ID_MAP` has two addresses for its vectors, so that a
  processor waits in its copy until another has dropped one: less than the code
  allows, and enough for the properties of the run, which do not speak of the map;
  the clock's `MaxTicks` covers several periods of either timer, pending and lost
  interrupts. A period of the local APIC is not a whole number of ticks, as in the
  code's rounding. Deadlock is not checked, since a machine that panicked stops.

Deadlock is checked in the scheduler runs: a stopped machine is the explicit
step `Halted`. `Futex_lock.cfg` switches it off, because the lost wake-up of
`futex_lost` really can leave every thread parked. Symmetry is only used where
all properties are safety properties and treat the symmetric values alike.

Fairness.

* Scheduler: weak fairness of the timer on each processor and of the interrupt
  path, which are hardware and code without waiting; strong fairness of the code
  of a thread, because a quantum is longer than a kernel step and the scheduler
  gives it the processor again; and of a sleeper being found due, since time
  passes. Nothing is assumed of user code: a thread may run for ever.
* Futexes: each step of a thread is weakly fair; the ones that wait for a spin
  lock are strongly fair, since a spinning thread retries for ever and the locks
  are held briefly; a holder unlocks some time.
* Allocators: a call that has begun goes on with its next step (`CallGoesOn`) until a
  panic stops the machine; the loop over the zones does not wait for anybody.
* Start-up: each processor goes on with its code, the PIT fires once it is set,
  and a processor that has not started receives one of the start-up interrupts,
  which are repeated until it has. No fairness of devices or of panics.

`JoinerWoken` is weaker than the document's promise on purpose: it speaks of
joiners that parked while their target was still on the destroy list. `SharedExact` and
`NoLeak` of `Capabilities` speak of the objects that still have a capability, and
`OnlyBorrowFaults` of every panic but that of a borrow; what they leave out TLC
refutes (`SmemFreed` and `NeverBorrowFaults`, section 6). `BootEnds`
supposes that the timer irq has an override, that the local APIC of the first
processor has the id 0, that all listed processors start and that no device
interrupts during the calibration, `PanicStops` excepts processors that never acknowledged the exit
interrupt, and `ForwardOnly` the moments when a tick is pending or was lost: see
section 6 for what happens there.

## 5. Proofs

Every theorem holds for all values of the constants that satisfy the assumptions
named with it; the assumptions say that sets of threads or processors are finite,
that `NoThread`, `Nil` and their like are outside the sets they are used with, and
that sizes and periods are not zero. A theorem that states a property of a run has
the same formula as the run, with the specification without its fairness: what
holds of every behaviour holds of the fair ones.

Every inductive invariant was checked by TLC before it was proved, on instances
of about the size of the runs (state counts below).

### SchedulerProofs

For every `NumCpus > 0`, every finite `Thread` and every set of processes
(`CpuAssumption`, `ThreadAssumption`, `ProcAssumption`, `ReasonsAssumption`):

* `TypeCorrect == Spec => []TypeOK`. `TypeOK` is not inductive alone: `IterClear`
  reads the marks of `target`, and `EnsureInsert` inserts `arg` as a node.
  `CodeInv` adds that a thread inside `terminate` has a target and one at the
  second lock of `ensure` has a Join state. The bound on the iterator needs that
  a position in the slice is at most the position in the array.
* `ListsCorrect == Spec => []ListInv`. The inductive invariant is
  `SchedInv == TypeInv /\ CleanerInv /\ ListInv`: `CleanerInv` says that only the
  cleaner runs the cleaner's code and that its victim is a thread it took off the
  destroy list, without which `FreeThread` could free a thread on a list. The
  argument is per action: waking moves threads from one list to the end of ready
  (`WakeAllList`); a switch files the old thread by its state, which is on no
  list because `running` is injective, and takes the new one off the list it was
  on (`SwitchList`); `NewThread` adds an unborn thread, `Collect` takes the whole
  destroy list.
* `SwitchesToLiving == Spec => SwitchToLiving`, an action property: a processor
  is only given threads of living processes, so that the `unwrap` at `mod.rs:181`
  is safe. A thread from the ready list was checked in the same critical section;
  one from an idle list needs `KernelInv`: only idle threads are ever Idle, and
  the kernel process, to which they belong, is never the target of `terminate`.
* `MarksCorrect == Spec => []MarksExact`. `MarkInv` adds `ArcInv`: a process that
  some thread is terminating is not dropped, so that `set_dead` never brings one
  back.
* `BlockingCorrect == Spec => []BlockedUntilWoken`. `BlockInv` adds `IdleInv`,
  that an idle thread runs or waits on its own processor and never blocks, to the invariant of the switches. TLC:
  1 734 029 states.

### FutexProofs

For every finite `Thread`, any locks and processes, any `MaxId`
(`ThreadAssumption`, `IdAssumption`, `NoneAssumption`, `ProcOfAssumption`):

* `OneFutex`: `OneFutexPerLock` for the threads of one process: the id that a
  thread works with is the one its lock is published with, and was made in the map
  the thread looks it up in (`HomeInv`). With a second process it is false, since
  that one looks the id up in its own map (section 6).
* `TypeCorrect`, `NothingLeaks`, `BlockLockCorrect`: `TypeOK`, `NoLeak`,
  `BlockLockOwned`, for any number of processes. `NoLeak` is about the entries of
  each map; the nodes of the thread list do leak (`NodesFreed`, section 6). `TypeOK` says that
  `RawFutex.count` never goes below zero, for which `FutexInv` counts:
  `CountInv` is that the count is the number of threads that hold the lock or are
  on their way into it. `BlockedInv` says that a list of a `KFutex` has parked
  threads only, each once. TLC, 3 threads of two
  processes on 2 locks: 407 957 states.
* `FutexImplementsMutex`: with one process, the lock stack implements `Mutex`.
  `MutexInv` is the argument: there is one right to each lock (`LockRight`). A
  thread has it, or is handing it on in `unlock`, or it was left in the `KFutex`.
  While a thread has it, `wait_count` is the number of waiters; it is -1 exactly
  when it was left, and then nobody waits. Ids are published for one lock
  (`IdsInv`) and a `KFutex` that is not published was never used (`UnusedInv`).
  The hypothesis that all threads are in one process is needed: TLC refutes
  `ImplementsMutex` with two (section 6). TLC, 3 threads on 2 locks: 445 021
  states.

### AddressSpaceProofs and CapabilitiesProofs

For any threads, blocks, pages, sizes and ids (`AddressSpaceConstants`,
`CapabilityConstants`). `AddressSpaceProofs` is about the operators: offsets in a
sequence of elements are the sums of the sizes before them, `Cells` of a sequence
translates each of its pages once, and what map, remap, unmap and shrink do to a
layout is what they do to the entries of its pages. Its `MapInv(m, p)` says that
the ranges `m` are apart, that each is as large as what is mapped in it, and that
the page tables `p` are exactly their cells; `AddZone`, `RemoveZone`, `MoveZone` and
`GrowInPlace` show that each operation keeps it.

`CapabilitiesProofs` first shows that every step of a thread has one of thirteen
effects (`Effect`, `NextStep`) and then, per part of the invariant, that no effect
breaks it. `Inv` is, besides `MapInv` and the types: all of a layout is mapped
between two calls (`SyncInv`); what a call under way carries is not mapped yet
(`CallInv`); a stack is a page that is not mapped below pages that are, in a
Protected range, which the realloc and capability calls refuse (`StackInv`); an
id that is recorded has a Shared range of its object to itself (`RecordInv`); a
block in use has a holder (`LeakInv`).

* `TypeCorrect`, `PageTablesExact`, `StacksSafe`, `NothingLeaks`: `TypeOK`,
  `PageMapExact`, `StacksMapped`, `NoLeak`, of `Spec` as it is. `NoLeak` excepts the
  memory of objects without a capability, which is lost (`SmemFreed`, section 6).
* `AddressSpaceImplementsRegions`: `Spec => ImplementsRegions`. A range becomes
  the region of its pages and their frames; two ranges never become the same
  region, because they are apart.
* `RecordsExact` and `RightsNeverGrow`: `SharedExact` and `RightsShrink` of the
  behaviours in which `NoReuse` holds, as in the run. The hypothesis is about
  the double free of `as_double_free`: a layout is given back by `dealloc` and
  again by its drop, and a block that another thread got in between is taken away
  from its owner; two owners of a block then have no common rights to speak of.
  With `NoReuse`, `OnceInv` is inductive: each block has one holder, a range, a
  call or a shared memory (`OwnInv`); every Shared range is recorded, or of an object
  that was dropped and then mapped with rights it was made with (`Orphan`), and every
  other range maps only blocks it holds (`SharedInv`); and rights of ids, records
  and copies in the hands of `cap_clone` are among those of the object
  (`RightsInv`). So a page of a shared memory is mapped in Shared ranges only, and
  there with the rights of an id. An id that was destroyed while it was mapped, of an
  object that others still refer to, keeps its record.

TLC: `Inv` and `OnceInv`, with its quantifiers bounded, on the instance of
`addr_space`, 379 137 states.

### HeapProofs

For every memory map with its regions, page size, sizes asked for, set of layouts,
bounds on what is in use, and any number of processors (`ZoneAssumption`,
`HeapAssumption`, `BootAssumption`, see section 3):

* `HeapOnlyBorrowFaults`, `HeapPagesTile`, `HeapZonesTile`, `HeapSpaceExact`:
  `OnlyBorrowFaults`, `PagesTile`, `HeapTiles`, `SpaceExact`; `HeapTypes`: `TypeOK`.
* `HeapNeverFaults`: `NeverFaults` for one processor. `CountExact` is why: the count
  of the `RefCell` is then 1 from the store of a borrow to the store of its drop, and
  0 otherwise, so that a borrow always finds 0. With two processors it is false
  (section 6).
* `HeapRefinesBlocks`: `Spec => ImplementsBlocks`, for the pages and for the heap.

All of them come from one inductive invariant (`HeapInvariant`), because the parts
need each other: the heap's zones are blocks of `zm`, and no other fault can occur
only because the lists are exact. `Inv` says that there has been no fault but that of
a borrow, which changes nothing else (`BorrowStep`), and

* `PageInv`: in each zone the free blocks and the owned ones tile the pages below
  the bitmap, each aligned to its size; the bits are those of the owned blocks and
  `free_space` is the sum over the lists (`ZoneInv`); two callers, calls or heap
  zones never have the same block (`Exclusive`). `PagesTile` alone is not inductive:
  a split or a join needs that a block of order `o` is at a multiple of `2^o`.
* `HeapInv`: behind the header of each heap zone, the nodes and the blocks in use
  tile the bytes, all at multiples of a chunk, the nodes in ascending order and
  never two that touch; each zone is as large as its block of `zm`. The alignment
  is why the size that `dealloc` computes is what `alloc` cut off, which `HeapTiles`
  needs.
* `CallInv`: what a call of `zm.alloc` asks for and has got so far, and that the heap
  is locked by the one processor whose call is for the heap. So the zone that
  comes back is large enough for the layout that was put in `want`.
* `BootInv`: until the second allocation of `init` succeeds, the zones are as the
  first one left them, and those the second has tried have no block for it. This,
  with `BootAssumption`, is why the first heap zone is found.

The argument goes up from tilings: to replace a tile by several that cover the same
interval, or several by one, keeps a tiling. `OAllocInv`, `OAllocAtInv` and
`DeallocInv` show it of the splits, the block taken at an address and the frees of
one zone (the halves left over by a split have all orders between that of the
block and that of the node), `ZoneAllocInv` and `ZoneDeallocInv` of the cut and the merges of one
heap zone; then there is one lemma per action, which also says which block
appears or disappears (`BlocksMove`), and from which the refinement follows: a block
is handed out only from a free tile, which nothing in use overlaps. That the
lists of `init_orders` tile the zone at the start, facts about powers of two and
about prefix sums are inductions over numbers (`WFMin`). TLC: `Inv` on the
instance of `mem_alloc`, 344 424 states; with one processor, zones of 3 and 2 pages, a
second layout, and three blocks at a time of each kind, also `CountExact` and
`NeverFaults`, 47 865 states.

### LinkedListProofs

For any lists and nodes (`ListConstants`), about `ListSpec`, the part of the run
`collections` that has the lists:

* `ListsExact`: `ListExact`. The inductive part is `LinkInv`: following the links
  in both directions gives the sequence `content`, and no node is in it twice or
  in two lists. For each of the ten calls, the links change as the call's
  `InsertAt` or `RemoveAt` on `content`. `ListExact` follows the links from the
  ends; that they reach every node is an induction over positions.
* `IterationsExact`: `IterExact`. `IterInv` says that what the iterator has left
  is a stretch of the list as it is now (`Ahead`), although the body of the loop
  has taken nodes out on both sides. TLC: 20 179 states.

### BootProofs

For every finite set of processors (`BootConstants`, `NoneAssumption`), about
`BootSpec`, the part of the run `machine` that starts them:

* `IdsCorrect`, `ProcessorsUp`: `OwnId`, `AllUp`. The ids given out are an initial
  segment, each with one processor (`IdInv`); `apsToBoot` is never less than the
  processors that have not been counted (`TallyInv`), so that at zero all have a
  local APIC, and nobody passes `APS_GO` earlier (`UpInv`). Nothing is said of
  `LAPIC_ID_MAP`, from which entries can be lost (`IdsKept`, section 6).
* `InterruptsHandled`, `InterruptsAcknowledged`: `Handled`, `Acknowledged`.
  Interrupts are on only in the window of the calibration, where the other
  processors are off and `use_apic` is off (`CalInv`), and where the handlers are
  registered (`HandlerInv`); one is in service at a time, except for exit
  interrupts, which stay in service (`IntrInv`). TLC, 2 processors besides the
  first: 83 968 states.

### ClockProofs

For every period, rounding and number of ticks (`ClockConstants`), about
`ClockSpec`: `TimeAccurate` (`Accurate`) and `TimeForward` (`ForwardOnly`, an action
property). `ClockInv`: the periods that have ended are those taken, lost and
pending (`PeriodInv`), `elapsed_time` counts the ones that were taken, and the test
of the PIT on `last_time` never drops one (`ElapsedInv`). The rest is arithmetic:
the count of the local APIC is rounded down, so that each interrupt adds a little
more than the hardware has counted (`Drift`).

### Only model-checked

* Liveness (`ReadyRuns`, `DestroyedIsFreed`, `JoinerWoken`, `UnlockReturns`,
  `AllocReturns`, `BootEnds`, `PanicStops`): it needs fairness, which is out of
  reach of the prover.
* `SearchExact` and `Balanced` of `AvlTree`: that a tree is balanced is a statement
  about the height of every subtree, defined by recursion over the tree, and the
  prover cannot do induction over a structure of that kind. Induction over
  natural numbers, which the sums, loops and lists above need, is done by looking
  at the least counterexample (`WFMin`).

## 6. Observations without a run

TLC refutes the first eight in the models as they are; the formulas are kept in
the modules, and an instance to see it with is named.

* `ensure` gives up the lock before its node is used (`mod.rs:442`, TODO at 436):
  the cleaner may remove the node in between, and `schedule` panics on the index
  (`IndexValid` of `Scheduler`; two processors, two kernel threads).
* A thread that joins one the cleaner has removed waits for ever, where
  `aurora_kernel_syscalls:230` says "will block until thread with id {thread_id}
  terminates" (`JoinReturns`; the instance of `sched_live`).
* `CpuMarkerIter::next` stores the position in a slice (`cpu_marker.rs:72`): with
  marks 0 and 1 and the caller on processor 1 it yields 0 for ever, and
  `terminate` never returns (`TerminateReturns`; two processors, `FairSpec`).
  `terminate` has no caller in this revision.
* The futex id of a kernel lock is looked up in the map of the current process
  (`util/mod.rs:51`), and panics in a process that did not create it
  (`IdResolves` of `Futex`; threads of two processes). Where the process has a
  futex with that id, it is that of another lock: a thread then sleeps on, and is
  woken by, the wrong lock, and two threads can hold one (`ImplementsMutex`; two
  processes, two locks).
* The zones of `zm` are in a `RefCell` that several processors share by `unsafe impl
  Sync for ZoneManager` (`phys_alloc.rs:681`). Every `alloc` and `dealloc` borrows it
  outside of any lock (523, 652), and its count is not atomic: two borrows that read
  the count together raise it by one and lower it by two, and the next one takes -1
  for a writer and panics (`NeverBorrowFaults` of `Heap`; the instance of `mem_alloc`,
  `MaxBorrows` 5, where the panic is not that of an overflow).
* `NLVec::write` compares addresses (`nlvec.rs:77`). While a processor that starts
  copies the vector of `LAPIC_ID_MAP` to insert its id, another replaces and drops it,
  and a third gets the address for its own copy and publishes that: the
  `compare_exchange` of the first succeeds, and the ids of the other two are lost.
  `Ipi::process_exit` then unwraps `None` (`lapic.rs:150`), in a processor that runs
  (`IdsKept` of `Boot`; `MapSpec` of `MCMachine` with three processors besides the
  first and four addresses).
* `dec_ref` compares the count before the decrement with 0 (`sync.rs:128`), so that
  `destroy` is never called. A futex that lost the race for the id of its lock leaves
  the map, but the node that `KFutex::new` made stays in the thread list, which
  `important_bugfixes:2` wants to "stop ... from leaking memory" (`NodesFreed` of
  `Futex`; the instance of `futex_lock`).
* The memory of a `SharedMem` is not given back when its last capability is destroyed
  (`cap/mod.rs:216`, no `Drop`), where `aurora_kernel_syscalls:285` says "when the
  object referenced by {cap} has 0 references left, it is freed" (`SmemFreed` of
  `Capabilities`; the instance of `addr_space`). If it is mapped, the range stays so
  and its record goes with the object; since the realloc call refuses a Shared range,
  nothing can unmap it (`Orphan` of `CapabilitiesProofs`).
* `dealloc_state` asserts that the list of a node is empty (`mod.rs:495`); a
  joiner that parks between the two critical sections of `remove_thread` breaks
  it (`fault = "assert"`).
* A preempted thread is ready before its processor has left its stack; another
  processor can resume it (`fault = "shared"`).
* `proc_c` unwraps a process that `terminate` may have dropped (`fault =
  "proc_c"`; FIXME at `process.rs:496`).
* Vector 129 is entered without an end of interrupt (`int.asm:269`): a processor
  that took it gets neither timer ticks nor the panic interrupt afterwards.
* `oallocz` of `ZoneManager` passes its order to `alloc` as a number of bytes
  (`phys_alloc.rs:575`). It has no caller.
* `thread_block` with reason 0 returns at once (`sys.rs:66`, `mod.rs:680`), where
  `aurora_kernel_syscalls:226` describes a yield.
* `insert_node` gives up on a buddy below the block and, with `addr2 > self.start`
  (`phys_alloc.rs:234`), on every buddy above it: freed blocks are never joined,
  and memory that was split once only serves small requests.
* `oalloc_at` of `zm` goes through `allocer_action_contains`, which does not set
  `zindex` as `allocer_action` does. The start-up page that `init` gives back at
  `main.rs:195` is therefore always given to zone 0, whose `dealloc` ignores what it
  does not contain. With the page at 0x8000 (`linker.ld:4`) it is in the lowest
  region, and `ZoneAssumption` says so; elsewhere it would be lost.
* `orealloc` (`phys_alloc.rs:422`) takes the buddy off the list of an order without
  looking whether it is free as a whole, where `linked_list.rs:285` says "must
  pass in node that is in this list". Its only caller is a test in `main.rs`
  (463), with the FIXME "fails occaisionally" at 470.
* The realloc call never shrinks a range: its loop (`mem/sys.rs:122`) does not end.
  Nor could it be moved down over its own start, or shrunk in place: the range
  itself is then the upper neighbour, and `free_space` (`virt_alloc.rs:1017`) asks
  about the lower one twice instead of leaving it out.
* `get_irq` gives an irq without an override its vector, which is above every
  input of the io-apic (`int/apic/mod.rs:120`): it is not routed, and without an
  override of the timer the calibration waits for ever. A keyboard interrupt
  during the calibration is acknowledged to the PIC only and blocks the timer.
* The trigger mode of an override is read from the bits of the polarity
  (`int/apic/mod.rs:179`).
* `nsec` goes back by up to a period while a tick is pending (`lapic.rs:440`), and
  a processor that has interrupts off for longer than a period loses ticks.
* `Handler::register` says "will never put normal in first or last position"
  (`idt.rs:215`), but its loop includes the last one.
* A processor that panics before it has a local APIC panics again in `panic`
  (`main.rs:78`).

## 7. Not modelled

ACPI and multiboot tables, the GDT and the layouts of hardware registers are data
that is read or written once. The system call table and the ELF parser keep no
state; `from_elf` maps segments before its process runs. The ipc types are empty
in this revision, `spawn` is `todo!()`, and the user libraries are wrappers around
system calls. `RWFutex` is marked as not working in its own source and is not
used. `LinkedList::append`, `AvlTree::pop` and `realloc` of the page allocator
have no caller in the kernel, `orealloc` only a test.
