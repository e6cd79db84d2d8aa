-------------------------------- MODULE Heap --------------------------------
(***************************************************************************)
(* The kernel heap, libutil/src/mem/heap.rs behind the IMutex of           *)
(* kernel/src/mem/heap.rs, on top of the page allocator from which its     *)
(* zones come.                                                             *)
(*                                                                         *)
(* Addresses are bytes; page p is the bytes from p * PageSize on.  A call  *)
(* of the heap is one critical section unless it has to ask for pages:     *)
(* then it keeps the heap locked through a call of zm.alloc, while other   *)
(* processors go on using zm.                                              *)
(***************************************************************************)
EXTENDS BuddyAlloc

CONSTANTS
  Chunk,            \* CHUNK_SIZE, the size of a Node rounded up to a power of two
  InitialChunk,     \* INITIAL_CHUNK_SIZE, the size of a HeapZone rounded up to Chunk
  InitialHeapSize,  \* INITIAL_HEAP_SIZE
  HeapIncSize,      \* HEAP_INC_SIZE
  Layouts,          \* the [size, align] that are asked for
  MaxBlocks,        \* bound: heap blocks in use
  NoCpu

(* No type of the repository is aligned to more than 16 bytes, and a Node  *)
(* needs 32.  The first zone is larger than its header.                    *)
ASSUME HeapAssumption ==
  /\ Chunk \in Nat \ {0} /\ InitialChunk % Chunk = 0 /\ InitialChunk > 0
  /\ PageSize % Chunk = 0
  /\ InitialChunk \in Nat /\ InitialHeapSize \in Nat /\ InitialHeapSize > InitialChunk
  /\ HeapIncSize \in Nat
  /\ Layouts \subseteq [size : Nat \ {0}, align : 1 .. Chunk]
  /\ NoCpu \notin Cpu

VARIABLES
  heap,       \* LinkedListAllocator.list: [base, len, mem, list, space] per HeapZone
  blocks,     \* the heap blocks in use, with the layout they were asked for
  lock,       \* the processor that holds ALLOCATOR's lock, or NoCpu
  want        \* want[c] = the layout of the heap call that c waits for pages in

heapVars == <<heap, blocks, lock, want>>
vars == <<zones, selnum, held, op, borrows, cell, boot, fault, heap, blocks, lock, want>>

MaxOf(a, b) == IF a >= b THEN a ELSE b
NoLayout == [size |-> 0, align |-> 1]

(***************************************************************************)
(* HeapZone.                                                               *)
(***************************************************************************)
(* HeapZone::new: the header at the front, one node for the rest.          *)
NewZone(m) ==
  LET base == m.addr * PageSize
      len  == 2^m.order * PageSize
  IN [base |-> base, len |-> len, mem |-> m,
      list |-> <<[addr |-> base + InitialChunk, size |-> len - InitialChunk]>>,
      space |-> len - InitialChunk]

(* Node::resize: the block is cut from the end of the node.                *)
CutAt(n, lay) == AlignDown(n.addr + n.size - lay.size, MaxOf(lay.align, Chunk))
Fits(n, lay) == lay.size <= n.size /\ CutAt(n, lay) >= n.addr

ZoneFits(Z, lay) == lay.size <= Z.space /\ \E i \in DOMAIN Z.list : Fits(Z.list[i], lay)
FirstFit(Z, lay) ==
  CHOOSE i \in DOMAIN Z.list : Fits(Z.list[i], lay) /\ \A j \in 1 .. i - 1 : ~Fits(Z.list[j], lay)

ZoneAllocAddr(Z, lay) == CutAt(Z.list[FirstFit(Z, lay)], lay)

(* Mutant: free_space falls by the size that was asked for.                *)
ZoneAllocBySize(Z, lay) ==
  LET i == FirstFit(Z, lay)
      left == CutAt(Z.list[i], lay) - Z.list[i].addr
  IN [Z EXCEPT !.list = IF left >= Chunk THEN [@ EXCEPT ![i].size = left] ELSE RemoveAt(@, i),
               !.space = @ - lay.size]

(* HeapZone::alloc: the node shrinks, or leaves the list when less than a  *)
(* chunk would remain.                                                     *)
ZoneAlloc(Z, lay) ==
  LET i == FirstFit(Z, lay)
      n == Z.list[i]
      left == CutAt(n, lay) - n.addr
  IN IF left >= Chunk
     THEN [Z EXCEPT !.list[i].size = left, !.space = @ - n.size + left]
     ELSE [Z EXCEPT !.list = RemoveAt(@, i), !.space = @ - n.size]

(* HeapZone::contains: both bounds are one CHUNK_SIZE up.                  *)
ZoneContains(Z, addr, size) ==
  /\ addr >= Z.base + Chunk
  /\ addr + size <= Z.base + Chunk + Z.len

(* Node::merge                                                             *)
Merge(n, m) == IF n.addr + n.size = m.addr THEN <<[n EXCEPT !.size = @ + m.size]>> ELSE <<n, m>>

(* HeapZone::dealloc: the block becomes a node between its neighbours by   *)
(* address and is merged with the previous and then with the next one.     *)
FreedSize(lay) == AlignUp(lay.size, MaxOf(Chunk, lay.align))

(* get_prev_next_node: how many nodes lie before the first one above addr. *)
NodesBelow(list, addr) ==
  CHOOSE k \in 0 .. Len(list) :
    /\ \A j \in 1 .. k : list[j].addr <= addr
    /\ k < Len(list) => list[k + 1].addr > addr

(* Mutant: the new node is not merged with the next one.                   *)
ZoneDeallocNoNext(Z, addr, lay) ==
  LET c == [addr |-> addr, size |-> FreedSize(lay)]
      k == NodesBelow(Z.list, addr)
      below == SubSeq(Z.list, 1, k)
      above == SubSeq(Z.list, k + 1, Len(Z.list))
      left  == IF below = << >> THEN <<c>> ELSE Front(below) \o Merge(Last(below), c)
  IN [Z EXCEPT !.list = left \o above, !.space = @ + c.size]

ZoneDealloc(Z, addr, lay) ==
  LET c == [addr |-> addr, size |-> FreedSize(lay)]
      k == NodesBelow(Z.list, addr)
      below == SubSeq(Z.list, 1, k)
      above == SubSeq(Z.list, k + 1, Len(Z.list))
      left  == IF below = << >> THEN <<c>> ELSE Front(below) \o Merge(Last(below), c)
      all   == IF above = << >> THEN left ELSE Front(left) \o Merge(Last(left), Head(above)) \o Tail(above)
  IN [Z EXCEPT !.list = all, !.space = @ + c.size]

(***************************************************************************)
(* LinkedListAllocator and GlobalAllocator.                                *)
(***************************************************************************)
Init ==
  /\ PageInit
  /\ heap = << >>
  /\ blocks = {}
  /\ lock = NoCpu
  /\ want = [c \in Cpu |-> NoLayout]

(* What init() needs of the machine, or it panics: the page of the AP code *)
(* is in a zone, and without it there are still pages for the first heap   *)
(* zone.                                                                   *)
ASSUME BootAssumption ==
  /\ ContainsAddr(0, ApPage)
  /\ \E z \in Zone :
       LET Z == IF z = 0 THEN OAllocAt(0, InitZone(0), ApPage, 0) ELSE InitZone(z)
       IN Splittable(z, Z, GetOrder(InitialHeapSize)) # {}

(* mem::heap::init on the boot processor.                                  *)
HeapInit(c) ==
  /\ boot = "heap" /\ op[c].pc = "idle" /\ cell[c].pc = "none" /\ lock = NoCpu
  /\ EnterAlloc(c, "heap", InitialHeapSize)
  /\ lock' = c
  /\ UNCHANGED <<zones, held, cellVars, boot, fault, heap, blocks, want>>

(* Mutant: the header of the new zone is not counted.                      *)
GrowSizeNoHeader(lay) ==
  AlignUp(MaxOf(HeapIncSize, lay.size + MaxOf(lay.align, Chunk)), PageSize)

GrowSize(lay) ==
  AlignUp(MaxOf(HeapIncSize, lay.size + MaxOf(lay.align, Chunk) + InitialChunk), PageSize)

NewBlock(addr, lay) == [addr |-> addr, lay |-> lay]

(* alloc: the first zone that has a node for the layout; when none has,    *)
(* the call goes on with zm.alloc and the lock held.                       *)
HeapAlloc(c, lay) ==
  /\ boot = "up" /\ op[c].pc = "idle" /\ cell[c].pc = "none" /\ lock = NoCpu
  /\ Cardinality(blocks) < MaxBlocks
  /\ IF \E i \in DOMAIN heap : ZoneFits(heap[i], lay)
     THEN LET i == CHOOSE j \in DOMAIN heap : ZoneFits(heap[j], lay) /\ \A k \in 1 .. j - 1 : ~ZoneFits(heap[k], lay)
          IN /\ heap' = [heap EXCEPT ![i] = ZoneAlloc(@, lay)]
             /\ blocks' = blocks \cup {NewBlock(ZoneAllocAddr(heap[i], lay), lay)}
             /\ UNCHANGED <<lock, want, op, selnum>>
     ELSE /\ EnterAlloc(c, "heap", GrowSize(lay))
          /\ lock' = c
          /\ want' = [want EXCEPT ![c] = lay]
          /\ UNCHANGED <<heap, blocks>>
  /\ UNCHANGED <<zones, held, cellVars, boot, fault>>

(* The rest of new or of alloc after zm.alloc has returned: without pages  *)
(* new panics and alloc returns null; else the new zone goes to the end of *)
(* the list and the block is cut from it ("shouldn't fail now").           *)
HeapGrow(c) ==
  LET Z == NewZone(op[c].mem)
      lay == want[c]
      got == op[c].mem # NoMem
  IN /\ op[c].pc = "done" /\ op[c].user = "heap" /\ cell[c].pc = "none"
     /\ IF boot = "heap"
        THEN /\ heap' = IF got THEN <<Z>> ELSE heap
             /\ fault' = IF got THEN fault ELSE "no heap"
             /\ boot' = "up"
             /\ UNCHANGED blocks
        ELSE /\ IF ~got THEN UNCHANGED <<heap, blocks, fault>>
                ELSE IF ~ZoneFits(Z, lay) THEN /\ heap' = Append(heap, Z)
                                               /\ fault' = "new zone"
                                               /\ UNCHANGED blocks
                ELSE /\ heap' = Append(heap, ZoneAlloc(Z, lay))
                     /\ blocks' = blocks \cup {NewBlock(ZoneAllocAddr(Z, lay), lay)}
                     /\ UNCHANGED fault
             /\ UNCHANGED boot
     /\ op' = [op EXCEPT ![c] = Idle]
     /\ lock' = NoCpu
     /\ want' = [want EXCEPT ![c] = NoLayout]
     /\ UNCHANGED <<zones, selnum, held, cellVars>>

(* dealloc: the assertion on the pointer, then the first zone that         *)
(* contains it; the owner gives back the layout it asked for.              *)
HeapDealloc(c, b) ==
  LET in(i) == ZoneContains(heap[i], b.addr, b.lay.size)
  IN /\ boot = "up" /\ op[c].pc = "idle" /\ cell[c].pc = "none" /\ lock = NoCpu /\ b \in blocks
     /\ IF b.addr % Chunk # 0 THEN fault' = "assert" /\ UNCHANGED heap
        ELSE IF ~\E i \in DOMAIN heap : in(i) THEN fault' = "invalid pointer" /\ UNCHANGED heap
        ELSE LET i == CHOOSE j \in DOMAIN heap : in(j) /\ \A k \in 1 .. j - 1 : ~in(k)
             IN heap' = [heap EXCEPT ![i] = ZoneDealloc(@, b.addr, b.lay)] /\ UNCHANGED fault
     /\ blocks' = blocks \ {b}
     /\ UNCHANGED <<zones, selnum, held, op, cellVars, boot, lock, want>>

Running == fault = "none"

Next ==
  /\ Running
  /\ \/ PageNext /\ UNCHANGED heapVars
     \/ \E c \in Cpu :
          \/ HeapInit(c)
          \/ \E lay \in Layouts : HeapAlloc(c, lay)
          \/ HeapGrow(c)
          \/ \E b \in blocks : HeapDealloc(c, b)

(* Fairness: a call goes on until it returns.                              *)
CallGoesOn(c) ==
  BorrowToAlloc(c) \/ BorrowStore(c) \/ TryZone(c) \/ DropLoad(c) \/ DropStore(c) \/ AllocReturn(c)
Fairness ==
  \A c \in Cpu : WF_vars(Running /\ CallGoesOn(c) /\ UNCHANGED heapVars)
              /\ WF_vars(Running /\ HeapGrow(c))

Spec == Init /\ [][Next]_vars /\ Fairness

-----------------------------------------------------------------------------
(***************************************************************************)
(* Properties.                                                             *)
(***************************************************************************)
Allocation == [addr : Nat, order : 0 .. MaxOrder, zindex : Zone]

TypeOK ==
  /\ DOMAIN zones = Zone
  /\ \A z \in Zone : zones[z] \in [free : [Order(z) -> Seq(Nat)], alloced : SUBSET Nat, space : Nat]
  /\ selnum \in Zone
  /\ held \subseteq Allocation
  /\ op \in [Cpu -> [pc : {"idle", "first", "try", "done"}, user : {"none", "pages", "heap"},
                     size : Nat, start : Zone, i : Zone, mem : Allocation \cup {NoMem}]]
  /\ borrows \in Int
  /\ cell \in [Cpu -> [pc : {"none", "loaded", "held", "used", "dropping"}, seen : Int, mem : Allocation \cup {NoMem}]]
  /\ boot \in {"zones", "heap", "up"}
  /\ heap \in Seq([base : Nat, len : Nat, mem : Allocation, space : Nat,
                   list : Seq([addr : Nat, size : Nat])])
  /\ blocks \subseteq [addr : Nat, lay : Layouts]
  /\ lock \in Cpu \cup {NoCpu}
  /\ want \in [Cpu -> Layouts \cup {NoLayout}]

(* Every page that somebody has: callers of zm, calls in progress, and the *)
(* zones of the heap.                                                      *)
OwnedPages == held \cup InFlight \cup {heap[i].mem : i \in DOMAIN heap}

(* No page is on a free list and in use, on two lists, or lost: through    *)
(* the splits of oalloc and oalloc_at, the frees, and the zones' turns,    *)
(* each page of a zone is in exactly one free node or owned block.         *)
PagesTile == \A z \in Zone : Tiles(z, OwnedPages)

(* f[lo] + ... + f[hi]                                                     *)
Sum(f, lo, hi) ==
  LET upTo[k \in lo - 1 .. hi] == IF k = lo - 1 THEN 0 ELSE upTo[k - 1] + f[k]
  IN upTo[hi]

(* free_space of each allocator is what its lists hold, although the lists *)
(* are changed by splits that never touch it; HeapZone::alloc skips a zone *)
(* by this number.                                                         *)
SpaceExact ==
  /\ \A z \in Zone :
       zones[z].space = Sum([o \in Order(z) |-> Len(zones[z].free[o]) * 2^o], 0, TopOrder[z])
  /\ \A i \in DOMAIN heap :
       heap[i].space = Sum([j \in DOMAIN heap[i].list |-> heap[i].list[j].size], 1, Len(heap[i].list))

Bytes(a, n) == a .. a + n - 1

(* The header, the free nodes and the blocks in use cover a heap zone      *)
(* exactly once, the nodes in ascending order and never two that touch:    *)
(* what dealloc computes from the layout is what alloc cut off, and a      *)
(* block goes back to the zone it came from.                               *)
HeapTiles ==
  \A i \in DOMAIN heap :
    LET Z == heap[i]
        inUse == {b \in blocks : b.addr \in Bytes(Z.base, Z.len)}
    IN /\ \A x \in Bytes(Z.base, Z.len) :
            (IF x < Z.base + InitialChunk THEN 1 ELSE 0)
              + Cardinality({j \in DOMAIN Z.list : x \in Bytes(Z.list[j].addr, Z.list[j].size)})
              + Cardinality({b \in inUse : x \in Bytes(b.addr, AlignUp(b.lay.size, Chunk))}) = 1
       /\ \A j \in 1 .. Len(Z.list) - 1 : Z.list[j].addr + Z.list[j].size < Z.list[j + 1].addr

(* No panic and no assertion of either allocator is reached but the one of *)
(* a borrow of zones: no double free, the AP page is there at boot,        *)
(* dealloc finds the zone of a pointer, and the zone that alloc has just   *)
(* added is large enough ("shouldn't fail now", heap.rs).                  *)
OnlyBorrowFaults == fault \in {"none", "borrow"}

(* On one processor there is none at all.                                  *)
NeverFaults == fault = "none"

(* ZoneManager may be shared between processors (unsafe impl Sync): no     *)
(* borrow of its zones, which nobody borrows mutably after init, panics.   *)
NeverBorrowFaults == fault # "borrow"

(* Every call of zm.alloc, for a page or for the heap, comes back, also    *)
(* when all zones are full and the loop of allocer_action goes round,      *)
(* unless a borrow of zones has panicked.                                  *)
AllocReturns == \A c \in Cpu : op[c].pc # "idle" ~> op[c].pc = "idle" \/ fault = "borrow"

(* To their callers both allocators are an abstract store of disjoint      *)
(* blocks.                                                                 *)
PageStore == INSTANCE Blocks WITH
  live <- {[addr |-> m.addr, len |-> 2^m.order] : m \in OwnedPages}
HeapStore == INSTANCE Blocks WITH
  live <- {[addr |-> b.addr, len |-> b.lay.size] : b \in blocks}
ImplementsBlocks == PageStore!Spec /\ HeapStore!Spec
=============================================================================
