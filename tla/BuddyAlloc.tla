----------------------------- MODULE BuddyAlloc -----------------------------
(***************************************************************************)
(* The physical page allocator, kernel/src/mem/phys_alloc.rs: one          *)
(* BuddyAllocator per usable memory region, and the ZoneManager `zm` that  *)
(* tries them in turn.                                                     *)
(*                                                                         *)
(* Addresses are page numbers (min_order_size is PAGE_SIZE for every       *)
(* zone), a block of order o is 2^o pages, and sizes in bytes appear only  *)
(* where the code rounds them.  The recursive splits and the join loop are *)
(* written as what they do to the lists in the end.  One action is one     *)
(* critical section of a zone's IMutex.                                    *)
(*                                                                         *)
(* The zones are in a RefCell, which ZoneManager shares between processors *)
(* all the same (unsafe impl Sync): its borrow count is a plain number     *)
(* that every call loads and stores around the lock of a zone.             *)
(***************************************************************************)
EXTENDS Integers, Sequences, FiniteSets, SequencesExt

CONSTANTS
  Cpu,          \* the processors that call the allocator
  NumZones,     \* zlen: the usable regions of the memory map
  Region,       \* Region[z] = <<first page, page after the last>> of zone z
  MaxOrder,     \* MAX_ORDER, the length of olist
  PageSize,     \* PAGE_SIZE, in bytes
  ApPage,       \* the page of AP_CODE_START
  Sizes,        \* the byte sizes that callers of zm.alloc ask for
  MaxHeld,      \* bound: blocks in the hands of these callers
  MaxBorrows    \* isize::MAX, the largest borrow count of a RefCell

Zone == 0 .. NumZones - 1
MaxZones == 4

(* init panics on more regions than MAX_ZONES, new on an empty region and  *)
(* on a block for which it has no list.  The regions of the memory map do  *)
(* not overlap, and linker.ld puts the AP code into the lowest one.        *)
ASSUME ZoneAssumption ==
  /\ NumZones \in 1 .. MaxZones /\ MaxOrder \in Nat \ {0}
  /\ PageSize \in Nat \ {0}
  /\ Region \in [Zone -> Nat \X Nat]
  /\ \A z \in Zone : Region[z][1] < Region[z][2] /\ Region[z][2] - Region[z][1] < 2^MaxOrder
  /\ \A y, z \in Zone : y # z => Region[y][2] <= Region[z][1] \/ Region[z][2] <= Region[y][1]
  /\ ApPage \in Nat
  /\ \A z \in Zone : ApPage \in Region[z][1] .. Region[z][2] - 1 => z = 0
  /\ Sizes \subseteq Nat \ {0}
  /\ MaxBorrows \in Nat

VARIABLES
  zones,        \* zones[z] = [free: olist, alloced: the bits that are set, space: free_space]
  selnum,       \* ZoneManager.selnum modulo zlen
  held,         \* the Allocations that callers hold
  op,           \* op[c] = the call of zm that processor c is in
  borrows,      \* the borrow count of ZoneManager.zones
  cell,         \* cell[c] = [pc, seen, mem]: how far c is with its borrow of zones,
                \*           the count it has loaded, the block it gives back
  boot,         \* how far main.rs init() has come
  fault         \* the first panic or memory error

(***************************************************************************)
(* The geometry of a zone.                                                 *)
(***************************************************************************)
Start(z) == Region[z][1]

(* BuddyAllocator::new: one bit per page, rounded to bytes, below the end. *)
MetaStart(z) ==
  LET bytes == (Region[z][2] - Region[z][1]) \div 8 + 1
  IN (Region[z][2] * PageSize - bytes) \div PageSize

Buddy(a, o) == IF (a \div 2^o) % 2 = 0 THEN a + 2^o ELSE a - 2^o

AlignDown(a, n) == a - (a % n)
AlignUp(a, n) == AlignDown(a + n - 1, n)

(* log2_up of the size less min_order_bits, and 0 for what fits in a page; *)
(* MaxOrder stands for all orders that no zone has.                        *)
GetOrder(size) ==
  CHOOSE o \in 0 .. MaxOrder :
    /\ o < MaxOrder => size <= PageSize * 2^o
    /\ \A p \in 0 .. o - 1 : size > PageSize * 2^p

(* UContains: a block of n pages at a lies inside the zone.                *)
UContains(z, a, n) == a >= Start(z) /\ a + n <= MetaStart(z)
ContainsAddr(z, a) == a >= Start(z) /\ a < MetaStart(z)

ZoneOf(a) == CHOOSE z \in Zone : ContainsAddr(z, a)

(* is_alloced answers false outside of the zone.                           *)
IsAlloced(z, Z, a) == ContainsAddr(z, a) /\ a \in Z.alloced

(* init_orders: the order of the block that starts at a.                   *)
InitOrder(z, a) ==
  CHOOSE o \in 0 .. MaxOrder - 1 :
    /\ a % 2^o = 0 /\ a + 2^o <= MetaStart(z)
    /\ ~(a % 2^(o + 1) = 0 /\ a + 2^(o + 1) <= MetaStart(z))

(* init_orders: its loop pushes a node at a to the end of the list of its  *)
(* order and goes on behind it.                                            *)
InitNodes ==
  [z \in Zone |->
     LET from[a \in Start(z) .. MetaStart(z)] ==
           IF a = MetaStart(z) THEN [o \in 0 .. MaxOrder - 1 |-> << >>]
           ELSE [from[a + 2^InitOrder(z, a)] EXCEPT ![InitOrder(z, a)] = <<a>> \o @]
     IN from[Start(z)]]

TopOrder ==
  [z \in Zone |->
     CHOOSE m \in 0 .. MaxOrder - 1 :
       /\ m > 0 => InitNodes[z][m] # << >>
       /\ \A o \in m + 1 .. MaxOrder - 1 : InitNodes[z][o] = << >>]

Order(z) == 0 .. TopOrder[z]

InitZone(z) ==
  [free |-> [o \in Order(z) |-> InitNodes[z][o]],
   alloced |-> {},
   space |-> MetaStart(z) - Start(z)]

(***************************************************************************)
(* BuddyAllocator.                                                         *)
(***************************************************************************)
(* oalloc and split_order: the orders that can give a block of order o.    *)
Splittable(z, Z, o) == {k \in Order(z) : k >= o /\ Z.free[k] # << >>}

(* split_order halves the first node of the lowest such order; the upper   *)
(* halves go to the front of their lists, the lowest part is handed out.   *)
SplitFrom(z, Z, o) == CHOOSE k \in Splittable(z, Z, o) : \A j \in Splittable(z, Z, o) : k <= j

(* Mutant: the upper half of the last split is forgotten.                  *)
OAllocLosesHalf(z, Z, o) ==
  LET k == SplitFrom(z, Z, o)
      a == Head(Z.free[k])
  IN [free |-> [j \in Order(z) |->
                  IF j = k THEN Tail(Z.free[j])
                  ELSE IF j \in o + 1 .. k - 1 THEN <<Buddy(a, j)>> \o Z.free[j]
                  ELSE Z.free[j]],
      alloced |-> Z.alloced \cup {a},
      space |-> Z.space - 2^o]

(* Mutant: the node that is split or handed out stays on its list.         *)
OAllocKeepsNode(z, Z, o) ==
  LET k == SplitFrom(z, Z, o)
      a == Head(Z.free[k])
  IN [free |-> [j \in Order(z) |->
                  IF j \in o .. k - 1 THEN <<Buddy(a, j)>> \o Z.free[j] ELSE Z.free[j]],
      alloced |-> Z.alloced \cup {a},
      space |-> Z.space - 2^o]

OAlloc(z, Z, o) ==
  LET k == SplitFrom(z, Z, o)
      a == Head(Z.free[k])
  IN [free |-> [j \in Order(z) |->
                  IF j = k THEN Tail(Z.free[j])
                  ELSE IF j \in o .. k - 1 THEN <<Buddy(a, j)>> \o Z.free[j]
                  ELSE Z.free[j]],
      alloced |-> Z.alloced \cup {a},
      space |-> Z.space - 2^o]

OAllocAddr(z, Z, o) == Head(Z.free[SplitFrom(z, Z, o)])

(* order_expand_cap: how often the block at a can be doubled upwards.      *)
ExpandCap(z, Z, a, o) ==
  CHOOSE n \in 0 .. MaxOrder :
    LET open(i) == LET b == Buddy(a, o + i)
                   IN b > a /\ b + 2^(o + i) <= MetaStart(z) /\ ~IsAlloced(z, Z, b)
    IN /\ \A i \in 0 .. n - 1 : open(i)
       /\ ~open(n)

(* split_order_at climbs from (a, o) while the buddy is inside the zone    *)
(* and its first page is not marked.                                       *)
SplitTop(z, Z, a, o) ==
  CHOOSE t \in o .. TopOrder[z] :
    LET climbs(j) == LET b == Buddy(AlignDown(a, 2^j), j)
                     IN j < TopOrder[z] /\ UContains(z, b, 2^j) /\ ~IsAlloced(z, Z, b)
    IN /\ \A j \in o .. t - 1 : climbs(j)
       /\ ~climbs(t)

(* The guards of oalloc_at.                                                *)
CanAllocAt(z, Z, a, o) ==
  /\ o \in Order(z)
  /\ UContains(z, a, 2^o)
  /\ ~IsAlloced(z, Z, a)
  /\ o <= ExpandCap(z, Z, a, 0)

(* The node from which split_order_at, or oalloc_at itself, removes.       *)
AllocAtNode(z, Z, a, o) == LET t == SplitTop(z, Z, a, o) IN [addr |-> AlignDown(a, 2^t), order |-> t]

(* remove_node                                                             *)
Without(s, a) == RemoveAt(s, CHOOSE i \in DOMAIN s : s[i] = a)

(* oalloc_at once that node is on its list: the halves that do not hold a  *)
(* are pushed to the ends of their lists.                                  *)
OAllocAt(z, Z, a, o) ==
  LET n == AllocAtNode(z, Z, a, o)
  IN [free |-> [j \in Order(z) |->
                  IF j = n.order THEN Without(Z.free[j], n.addr)
                  ELSE IF j \in o .. n.order - 1 THEN Append(Z.free[j], Buddy(AlignDown(a, 2^j), j))
                  ELSE Z.free[j]],
      alloced |-> Z.alloced \cup {a},
      space |-> Z.space - 2^o]

(* insert_node: the order up to which a freed block is joined.  The loop   *)
(* gives up on a buddy below the block and on a buddy above the START of   *)
(* the zone.                                                               *)
JoinOrder(z, Z, a, o) ==
  CHOOSE t \in o .. TopOrder[z] :
    LET joins(j) == LET b == Buddy(a, j)
                    IN /\ j < TopOrder[z] /\ b > a /\ b <= Start(z) /\ b + 2^j <= MetaStart(z)
                       /\ ~IsAlloced(z, Z, b) /\ b \in ToSet(Z.free[j])
    IN /\ \A j \in o .. t - 1 : joins(j)
       /\ ~joins(t)

InsertNode(z, Z, a, o) ==
  LET t == JoinOrder(z, Z, a, o)
  IN [Z EXCEPT !.free = [j \in Order(z) |->
                           IF j = t THEN <<a>> \o Z.free[j]
                           ELSE IF j \in o .. t - 1 THEN Without(Z.free[j], Buddy(a, j))
                           ELSE Z.free[j]]]

(* dealloc after its checks.                                               *)
Dealloc(z, Z, a, o) ==
  InsertNode(z, [Z EXCEPT !.alloced = @ \ {a}, !.space = @ + 2^o], a, o)

(***************************************************************************)
(* ZoneManager.                                                            *)
(***************************************************************************)
NoMem == [addr |-> 0, order |-> -1, zindex |-> 0]
Idle == [pc |-> "idle", user |-> "none", size |-> 0, start |-> 0, i |-> 0, mem |-> NoMem]

NoBorrow == [pc |-> "none", seen |-> 0, mem |-> NoMem]

cellVars == <<borrows, cell>>

PageInit ==
  /\ zones = [z \in Zone |-> InitZone(z)]
  /\ selnum = 0
  /\ held = {}
  /\ op = [c \in Cpu |-> Idle]
  /\ borrows = 0
  /\ cell = [c \in Cpu |-> NoBorrow]
  /\ boot = "zones"
  /\ fault = "none"

(* The entry of allocer_action: the zone to start with is taken from       *)
(* selnum; `user` says which caller gets the block.                        *)
EnterAlloc(c, user, size) ==
  /\ op' = [op EXCEPT ![c] = [pc |-> "first", user |-> user, size |-> size,
                              start |-> selnum, i |-> selnum, mem |-> NoMem]]
  /\ selnum' = (selnum + 1) % NumZones

(* Mutant: the loop does not see that it is back at the first zone.        *)
AtEndNever(c) == FALSE

(* The loop of allocer_action is back at the zone it started with.         *)
AtEnd(c) == op[c].pc = "try" /\ op[c].i = op[c].start

(* RefCell::borrow and the drop of its Ref: the count is a Cell.  A count  *)
(* that is not positive once it is one more is a writer's, and borrow      *)
(* panics; so does the one that overflows.                                 *)
BorrowLoad(c, m) ==
  /\ cell[c].pc = "none"
  /\ cell' = [cell EXCEPT ![c] = [pc |-> "loaded", seen |-> borrows, mem |-> m]]
  /\ UNCHANGED <<zones, selnum, held, op, borrows, boot, fault>>

BorrowStore(c) ==
  /\ cell[c].pc = "loaded"
  /\ IF cell[c].seen + 1 \in 1 .. MaxBorrows
     THEN /\ borrows' = cell[c].seen + 1
          /\ cell' = [cell EXCEPT ![c].pc = "held"]
          /\ UNCHANGED fault
     ELSE fault' = "borrow" /\ UNCHANGED <<borrows, cell>>
  /\ UNCHANGED <<zones, selnum, held, op, boot>>

DropLoad(c) ==
  /\ cell[c].pc = "used"
  /\ cell' = [cell EXCEPT ![c].pc = "dropping", ![c].seen = borrows]
  /\ UNCHANGED <<zones, selnum, held, op, borrows, boot, fault>>

DropStore(c) ==
  /\ cell[c].pc = "dropping"
  /\ borrows' = cell[c].seen - 1
  /\ cell' = [cell EXCEPT ![c] = NoBorrow]
  /\ UNCHANGED <<zones, selnum, held, op, boot, fault>>

(* Who borrows: a turn of the loop of allocer_action, dealloc and          *)
(* dealloc_frame, whose caller gives up the block m.                       *)
BorrowToAlloc(c) == op[c].pc \in {"first", "try"} /\ ~AtEnd(c) /\ BorrowLoad(c, NoMem)
BorrowToDealloc(c, m) ==
  /\ boot = "up" /\ op[c].pc = "idle"
  /\ m \in held \ {cell[d].mem : d \in Cpu}
  /\ BorrowLoad(c, m)

UseBorrow(c) == cell[c].pc = "held" /\ cell' = [cell EXCEPT ![c].pc = "used"] /\ UNCHANGED borrows

(* One turn of the loop of allocer_action, with zones borrowed: lock zone  *)
(* i and try it; after the last zone the call returns None.                *)
TryZone(c) ==
  LET z == op[c].i
      Z == zones[z]
      o == GetOrder(op[c].size)
      next == (z + 1) % NumZones
  IN /\ op[c].pc \in {"first", "try"}
     /\ IF AtEnd(c)
        THEN /\ op' = [op EXCEPT ![c].pc = "done"]
             /\ cell[c].pc = "none"
             /\ UNCHANGED <<zones, cellVars>>
        ELSE IF Splittable(z, Z, o) # {}
        THEN /\ UseBorrow(c)
             /\ zones' = [zones EXCEPT ![z] = OAlloc(z, Z, o)]
             /\ op' = [op EXCEPT ![c].pc = "done",
                                 ![c].mem = [addr |-> OAllocAddr(z, Z, o), order |-> o, zindex |-> z]]
        ELSE /\ UseBorrow(c)
             /\ op' = [op EXCEPT ![c].pc = "try", ![c].i = next]
             /\ UNCHANGED zones
     /\ UNCHANGED <<selnum, held, boot, fault>>

(* main.rs init(): the page of the AP code is taken before anything else,  *)
(* and unwrap panics without it.  allocer_action_contains finds the zone   *)
(* and leaves zindex at 0; no other processor runs, and its borrow of      *)
(* zones is back to 0 in the end.  remove_node on a node that is not on    *)
(* the list corrupts it.                                                   *)
AllocApCode ==
  /\ boot = "zones"
  /\ LET z == ZoneOf(ApPage)
         n == AllocAtNode(z, zones[z], ApPage, 0)
     IN IF ~(\E y \in Zone : ContainsAddr(y, ApPage)) \/ ~CanAllocAt(z, zones[z], ApPage, 0)
        THEN fault' = "unwrap" /\ UNCHANGED <<zones, held>>
        ELSE IF n.addr \notin ToSet(zones[z].free[n.order])
        THEN fault' = "unlisted" /\ UNCHANGED <<zones, held>>
        ELSE /\ zones' = [zones EXCEPT ![z] = OAllocAt(z, @, ApPage, 0)]
             /\ held' = {[addr |-> ApPage, order |-> 0, zindex |-> 0]}
             /\ UNCHANGED fault
  /\ boot' = "heap"
  /\ UNCHANGED <<selnum, op, cellVars>>

(* zm.alloc and alloc_frame, called by kernel code other than the heap.    *)
AllocCall(c) ==
  /\ boot = "up" /\ op[c].pc = "idle" /\ cell[c].pc = "none"
  /\ Cardinality(held) < MaxHeld
  /\ \E size \in Sizes : EnterAlloc(c, "pages", size)
  /\ UNCHANGED <<zones, held, cellVars, boot, fault>>

AllocReturn(c) ==
  /\ op[c].pc = "done" /\ op[c].user = "pages" /\ cell[c].pc = "none"
  /\ held' = IF op[c].mem = NoMem THEN held ELSE held \cup {op[c].mem}
  /\ op' = [op EXCEPT ![c] = Idle]
  /\ UNCHANGED <<zones, selnum, cellVars, boot, fault>>

(* BuddyAllocator::dealloc of zone z: nothing happens outside of the zone, *)
(* and a block that is not marked panics.                                  *)
DeallocIn(z, m) ==
  IF ~UContains(z, m.addr, 2^m.order) THEN UNCHANGED <<zones, fault>>
  ELSE IF ~IsAlloced(z, zones[z], m.addr) THEN fault' = "double free" /\ UNCHANGED zones
  ELSE zones' = [zones EXCEPT ![z] = Dealloc(z, @, m.addr, m.order)] /\ UNCHANGED fault

(* zm.dealloc trusts zindex.  (Both are called with zones borrowed.)       *)
DeallocCall(c, m) ==
  /\ boot = "up" /\ op[c].pc = "idle" /\ m \in held
  /\ cell[c].mem = m /\ UseBorrow(c)
  /\ DeallocIn(m.zindex, m)
  /\ held' = held \ {m}
  /\ UNCHANGED <<selnum, op, boot>>

(* zm.dealloc_frame looks for the zone, since a page table entry keeps no  *)
(* zindex; its callers give back single pages.                             *)
DeallocFrame(c, m) ==
  /\ boot = "up" /\ op[c].pc = "idle" /\ m \in held /\ m.order = 0
  /\ cell[c].mem = m /\ UseBorrow(c)
  /\ IF \E z \in Zone : UContains(z, m.addr, 1) THEN DeallocIn(ZoneOf(m.addr), m)
     ELSE UNCHANGED <<zones, fault>>
  /\ held' = held \ {m}
  /\ UNCHANGED <<selnum, op, boot>>

PageNext ==
  \/ AllocApCode
  \/ \E c \in Cpu :
       \/ AllocCall(c)
       \/ BorrowToAlloc(c) \/ BorrowStore(c) \/ DropLoad(c) \/ DropStore(c)
       \/ TryZone(c)
       \/ AllocReturn(c)
       \/ \E m \in held : BorrowToDealloc(c, m)
       \/ \E m \in held : DeallocCall(c, m) \/ DeallocFrame(c, m)

(***************************************************************************)
(* Blocks and who owns them.                                               *)
(***************************************************************************)
Pages(b) == b.addr .. b.addr + 2^b.order - 1

(* The nodes on the free lists, with their place on the list.              *)
Nodes(z) ==
  UNION {{[addr |-> zones[z].free[o][i], order |-> o, pos |-> i] : i \in DOMAIN zones[z].free[o]}
         : o \in Order(z)}

(* The blocks that calls in progress have got and not yet delivered.       *)
InFlight == {op[c].mem : c \in Cpu} \ {NoMem}

(* What the free lists and the owned blocks are to one another: every page *)
(* of the zone belongs to exactly one of them, and the bits mark the first *)
(* pages of the owned blocks.                                              *)
Tiles(z, owned) ==
  LET mine == {m \in owned : ContainsAddr(z, m.addr)}
  IN /\ \A p \in Start(z) .. MetaStart(z) - 1 :
          Cardinality({n \in Nodes(z) : p \in Pages(n)}) + Cardinality({m \in mine : p \in Pages(m)}) = 1
     /\ zones[z].alloced = {m.addr : m \in mine}
=============================================================================
