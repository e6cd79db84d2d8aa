---------------------------- MODULE AddressSpace ----------------------------
(***************************************************************************)
(* The address space of a process (kernel/src/mem/virt_alloc.rs) as its    *)
(* threads use it: VirtMapper with its map of ranges to layouts, the       *)
(* realloc system call (mem/sys.rs) and the user stacks (sched/thread.rs). *)
(*                                                                         *)
(* Memory is counted in pages.  A block of physical memory is a model      *)
(* value: the pages of block b are <<b, 0>>, <<b, 1>>, ...  The allocator  *)
(* zm hands out any block that is not in use, as Blocks promises.          *)
(* The page tables are the relation pt of pages to frames; module          *)
(* PageTables is about the tables themselves.                              *)
(***************************************************************************)
EXTENDS Integers, Sequences, FiniteSets, SequencesExt, FiniteSetsExt

CONSTANTS Thread,     \* threads of the process
          NoThread,
          Block,      \* blocks of physical memory
          NoBlock,
          MaxMap,     \* MAX_MAP_ADDR, the first page that belongs to the kernel
          Sizes,      \* sizes that realloc is called with
          Flags,      \* rights that realloc is called with, subsets of {"r", "w"}
          Exact,      \* whether realloc is called with EXACT_SIZE, a subset of BOOLEAN
          At,         \* the pages that are given as at_addr
          StackPages, \* size of a user stack
          Image       \* the range of the loaded program, [addr, size]

ASSUME AddressSpaceConstants ==
  /\ MaxMap \in Nat /\ StackPages \in Nat \ {0}
  /\ Sizes \subseteq Nat \ {0} /\ At \subseteq 1 .. MaxMap
  /\ Flags \subseteq SUBSET {"r", "w"} /\ Exact \subseteq BOOLEAN
  /\ Image \in [addr : 1 .. MaxMap, size : 1 .. MaxMap] /\ Image.addr + Image.size <= MaxMap
  /\ NoThread \notin Thread /\ NoBlock \notin Block

VARIABLES vmap,    \* virt_map: ranges to layouts
          pt,      \* the entries of the page tables, [page, blk, off, w]
          live,    \* the blocks that zm has handed out
          lock,    \* the thread that never gives virt_map back, or NoThread
          stacks,  \* the ranges of Stack::User values
          call,    \* what each thread does in the kernel
          halt     \* the panic that stopped the kernel, or "no"

asVars == <<vmap, pt, live, lock, stacks, call, halt>>

VirtRange(a, n) == [addr |-> a, size |-> n]
End(z) == z.addr + z.size
Zones == DOMAIN vmap

(* PartialOrd of VirtRange: the address decides first.                     *)
Less(y, z) == y.addr < z.addr \/ (y.addr = z.addr /\ y.size < z.size)

(***************************************************************************)
(* Layouts.                                                                *)
(***************************************************************************)

(* zm.alloc returns a power of two of pages: the order is raised until the *)
(* block is large enough.                                                  *)
AllocLen(n) ==
  LET len[k \in 0 .. n] == IF k = 0 THEN 1
                           ELSE IF len[k - 1] >= n THEN len[k - 1] ELSE 2 * len[k - 1]
  IN len[n]

(* VirtLayoutElement: `own` marks AllocedMem, which the layout gives back; *)
(* without rights the element is Empty and has no block.                   *)
Element(b, own, n, f) == [blk |-> b, own |-> own, size |-> n, flags |-> f]

(* VirtLayoutElement::new                                                  *)
NewElement(b, n, f, exact) ==
  IF f = {} THEN Element(NoBlock, FALSE, n, f)
  ELSE Element(b, TRUE, IF exact THEN n ELSE AllocLen(n), f)

(* How far behind the start of the range the first i elements of s end.    *)
Offsets(s) ==
  LET sum[i \in 0 .. Len(s)] == IF i = 0 THEN 0 ELSE sum[i - 1] + s[i].size IN sum

Size(s) == Offsets(s)[Len(s)]
Owned(s) == {e.blk : e \in {x \in ToSet(s) : x.own}}

(* VirtLayout::from                                                        *)
Layout(s, atype) ==
  [data |-> s, que |-> <<>>, dirty |-> 0, clean |-> 0, atype |-> atype]
NoLayout == Layout(<<>>, "VirtMem")

CleanSlice(L) == SubSeq(L.data, 1, L.dirty)
DirtySlice(L) == SubSeq(L.data, L.dirty + 1, Len(L.data))

PushElement(L, e) == [L EXCEPT !.data = Append(@, e)]

PopDelete(L) ==
  LET d == Front(L.data)
  IN IF Len(d) < L.dirty
     THEN [L EXCEPT !.data = d, !.que = Append(@, Last(L.data)), !.dirty = Len(d)]
     ELSE [L EXCEPT !.data = d]

(* sync_mem, mark_unmapped and revert, each with the blocks it gives back. *)
SyncMem(L) == [L EXCEPT !.clean = @ + Size(DirtySlice(L)) - Size(L.que),
                        !.dirty = Len(L.data), !.que = <<>>]
SyncFrees(L) == Owned(L.que)

MarkUnmapped(L) == [L EXCEPT !.dirty = 0, !.clean = 0, !.que = <<>>]

(* Mutant: what was pushed is dropped from the layout and stays allocated. *)
RevertFreesNone(L) == {}

Revert(L) == [L EXCEPT !.data = CleanSlice(L) \o Reverse(L.que), !.que = <<>>]
RevertFrees(L) == Owned(DirtySlice(L))

(* VirtLayout::dealloc, and the Drop of a layout.                          *)
LayoutFrees(L) == Owned(L.data) \cup Owned(L.que)

(***************************************************************************)
(* The pages that an iterator maps and unmaps.                             *)
(***************************************************************************)

(* The entries of the elements s, one behind the other from page a on; the *)
(* elements that are Empty or not present have none.                       *)
Cells(s, a) ==
  UNION {{[page |-> a + Offsets(s)[i - 1] + k, blk |-> s[i].blk, off |-> k,
           w |-> "w" \in s[i].flags] : k \in 0 .. s[i].size - 1}
         : i \in {j \in DOMAIN s : s[j].flags # {}}}

PagesOf(cells) == {c.page : c \in cells}

(* PageMappingIterator::new: the deleted elements are unmapped from the    *)
(* end of the clean ones downwards, the dirty ones mapped in their place.  *)
IterStart(L, z) == z.addr + L.clean - Size(L.que)
IterUnmaps(L, z) == PagesOf(Cells(Reverse(L.que), IterStart(L, z)))
IterMaps(L, z) == Cells(DirtySlice(L), IterStart(L, z))

(* PageMappingIterator::new_unmapper                                       *)
UnmapperUnmaps(L, z) == PagesOf(Cells(CleanSlice(L) \o Reverse(L.que), z.addr))

(* map_internal, as it changes what the tables translate.                  *)
MapInternal(p, unmaps, maps) == {c \in p : c.page \notin unmaps} \cup maps

(***************************************************************************)
(* Ranges.                                                                 *)
(***************************************************************************)

(* Mutant: the last gap is taken to have one page more.                    *)
GapPastLimit(a, n) ==
  /\ \A z \in Zones : z.addr >= a => z.addr - a >= n
  /\ MaxMap - a + 1 >= n

(* find_range: the first gap that is large enough; page 0 stays empty.     *)
Gap(a, n) ==
  /\ \A z \in Zones : z.addr >= a => z.addr - a >= n
  /\ MaxMap - a >= n

(* Mutant: the page at 0 is handed out as well.                            *)
CandidatesFromZero(n) == {a \in {0} \cup {End(z) : z \in Zones} : Gap(a, n)}

Candidates(n) == {a \in {1} \cup {End(z) : z \in Zones} : Gap(a, n)}
FindRange(n) == VirtRange(Min(Candidates(n)), n)

(* free_space: the neighbours of z in the order of the map.  The range to  *)
(* leave out is only looked for below z: the test for the range above asks *)
(* about the lower neighbour again.                                        *)
FreeSpace(z, exclude) ==
  /\ z.addr >= 1
  /\ \A y \in Zones \ exclude : Less(y, z) /\ (\A x \in Zones \ exclude : Less(x, z) => ~Less(y, x))
       => End(y) <= z.addr
  /\ \A y \in Zones : ~Less(y, z) /\ (\A x \in Zones : ~Less(x, z) => ~Less(x, y))
       => End(z) <= y.addr
  /\ (\A y \in Zones : Less(y, z)) => End(z) <= MaxMap

(***************************************************************************)
(* Steps.                                                                  *)
(***************************************************************************)
Idle == [pc |-> "idle", lay |-> NoLayout, use |-> "none", at |-> 0,
         zone |-> VirtRange(0, 0), size |-> 0, exact |-> FALSE]

Done(t) == call' = [call EXCEPT ![t] = Idle]

(* zm.dealloc of the blocks bs: a block that is not in use panics.         *)
Free(bs) ==
  /\ live' = live \ bs
  /\ halt' = IF bs \subseteq live THEN halt ELSE "double free"

Ready(t, pc) == halt = "no" /\ call[t].pc = pc
Locked(t, pc) == Ready(t, pc) /\ lock = NoThread

(* zm.alloc for the rights f, or no block at all for an Empty element.     *)
AllocBlock(f, b) ==
  IF f = {} THEN b = NoBlock /\ UNCHANGED live
  ELSE b \in Block \ live /\ live' = live \cup {b}

(* realloc(0, n): the memory is taken before the range is looked for.  At  *)
(* page 0 as at_addr any range will do.                                    *)
ReallocNew(t) ==
  /\ Ready(t, "idle")
  /\ \E n \in Sizes, f \in Flags, exact \in Exact, at \in At \cup {0}, b \in Block \cup {NoBlock} :
       /\ AllocBlock(f, b)
       /\ call' = [call EXCEPT ![t] = [Idle EXCEPT !.pc = "map", !.use = "realloc", !.at = at,
                     !.lay = Layout(<<NewElement(b, n, f, exact)>>, "VirtMem")]]
  /\ UNCHANGED <<vmap, pt, lock, stacks, halt>>

(* Stack::user_new: a guard page without rights below the stack.           *)
StackNew(t) ==
  /\ Ready(t, "idle")
  /\ \E b \in Block :
       /\ AllocBlock({"r", "w"}, b)
       /\ call' = [call EXCEPT ![t] = [Idle EXCEPT !.pc = "map", !.use = "stack",
                     !.lay = Layout(<<NewElement(NoBlock, 1, {}, FALSE),
                                      NewElement(b, StackPages, {"r", "w"}, FALSE)>>, "Protected")]]
  /\ UNCHANGED <<vmap, pt, lock, stacks, halt>>

(* The layout L gets the range z: what map and map_at do when they succeed.*)
WithZone(m, L, z) == [y \in DOMAIN m \cup {z} |-> IF y = z THEN SyncMem(L) ELSE m[y]]
WithoutZone(m, z) == [y \in DOMAIN m \ {z} |-> m[y]]

MapInto(L, z) ==
  /\ pt' = MapInternal(pt, IterUnmaps(L, z), IterMaps(L, z))
  /\ vmap' = WithZone(vmap, L, z)

(* VirtMapper::map and map_at.  A layout that is refused is dropped.       *)
MapTarget(L, at) ==
  IF at = 0 THEN IF Candidates(Size(L.data)) = {} THEN {} ELSE {FindRange(Size(L.data))}
  ELSE {z \in {VirtRange(at, Size(L.data))} : FreeSpace(z, {})}

MapOk(t) ==
  LET L == call[t].lay
  IN /\ Locked(t, "map")
     /\ \E z \in MapTarget(L, call[t].at) :
          /\ MapInto(L, z)
          /\ stacks' = IF call[t].use = "stack" THEN stacks \cup {z} ELSE stacks
     /\ Done(t)
     /\ UNCHANGED <<live, lock, halt>>

MapErr(t) ==
  /\ Locked(t, "map")
  /\ MapTarget(call[t].lay, call[t].at) = {}
  /\ Free(LayoutFrees(call[t].lay))
  /\ Done(t)
  /\ UNCHANGED <<vmap, pt, lock, stacks>>

(* get_mapped_range: realloc of a range first looks the range up, and      *)
(* gives virt_map back before it uses what it found.                       *)
Lookup(t) ==
  /\ Locked(t, "idle")
  /\ \E z \in Zones :
       \/ call' = [call EXCEPT ![t] = [Idle EXCEPT !.pc = "unmap", !.zone = z]]
       \/ \E n \in Sizes, exact \in Exact, at \in At \cup {0} :
            call' = [call EXCEPT ![t] = [Idle EXCEPT !.pc = "remap", !.zone = z, !.size = n,
                                                     !.exact = exact, !.at = at]]
  /\ UNCHANGED <<vmap, pt, live, lock, stacks, halt>>

(* Mutant: the type of the memory is not compared.                         *)
KnownAnyType(z, atype) == z \in Zones

(* What unmap, remap and remap_at test once they hold virt_map.            *)
Known(z, atype) == z \in Zones /\ vmap[z].atype = atype

(* The part of unmap after its tests.                                      *)
UnmapZone(z) ==
  /\ pt' = MapInternal(pt, UnmapperUnmaps(vmap[z], z), {})
  /\ vmap' = WithoutZone(vmap, z)

(* realloc(addr, 0)                                                        *)
UnmapCall(t) ==
  LET z == call[t].zone
  IN /\ Locked(t, "unmap")
     /\ IF Known(z, "VirtMem")
        THEN /\ UnmapZone(z)
             /\ Free(SyncFrees(vmap[z]))
             /\ call' = [call EXCEPT ![t].pc = "dealloc", ![t].lay = MarkUnmapped(vmap[z])]
        ELSE UNCHANGED <<vmap, pt, live, halt>> /\ Done(t)
     /\ UNCHANGED <<lock, stacks>>

(* Stack::dealloc, which unwraps.                                          *)
StackFree(t) ==
  /\ Locked(t, "idle")
  /\ \E z \in stacks :
       /\ stacks' = stacks \ {z}
       /\ IF Known(z, "Protected")
          THEN /\ UnmapZone(z)
               /\ Free(SyncFrees(vmap[z]))
               /\ call' = [call EXCEPT ![t] = [Idle EXCEPT !.pc = "dealloc", !.lay = MarkUnmapped(vmap[z])]]
          ELSE halt' = "unwrap" /\ UNCHANGED <<vmap, pt, live, call>>
  /\ UNCHANGED lock

(* The callers of unmap call dealloc() on the layout, which is then        *)
(* dropped and deallocates its memory again.                               *)
DeallocLayout(t) ==
  /\ Ready(t, "dealloc")
  /\ Free(LayoutFrees(call[t].lay))
  /\ call' = [call EXCEPT ![t].pc = "drop"]
  /\ UNCHANGED <<vmap, pt, lock, stacks>>

DropLayout(t) ==
  /\ Ready(t, "drop")
  /\ Free(LayoutFrees(call[t].lay))
  /\ Done(t)
  /\ UNCHANGED <<vmap, pt, lock, stacks>>

(* realloc_func when the range grows (or stays as it is): its only failure *)
(* is zm.alloc.                                                            *)
Grown(t, L, b) ==
  LET f == L.data[1].flags
      d == call[t].size - Size(L.data)
  IN IF d = 0 THEN L ELSE PushElement(L, NewElement(b, d, f, call[t].exact))

GrowBlock(t, L, b) ==
  IF call[t].size = Size(L.data) THEN b = NoBlock ELSE
  IF L.data[1].flags = {} THEN b = NoBlock ELSE b \in Block \ live

(* Mutant: the range that moves keeps its old pages.                       *)
RelocateLeavesPages(L, z, nz) ==
  /\ pt' = MapInternal(pt, {}, IterMaps(MarkUnmapped(L), nz))
  /\ vmap' = WithZone(WithoutZone(vmap, z), MarkUnmapped(L), nz)

(* The layout L of z moves to nz: all is unmapped and mapped again.        *)
Relocate(L, z, nz) ==
  LET p == MapInternal(pt, UnmapperUnmaps(L, z), {})
      M == MarkUnmapped(L)
  IN /\ pt' = MapInternal(p, {}, IterMaps(M, nz))
     /\ vmap' = WithZone(WithoutZone(vmap, z), M, nz)

(* The layout L of z is synced where it is, under its new size.            *)
InPlace(L, z, nz) ==
  /\ pt' = MapInternal(pt, IterUnmaps(L, nz), IterMaps(L, nz))
  /\ vmap' = WithZone(WithoutZone(vmap, z), L, nz)

(* remap and remap_at of a range that grows.  (realloc_func never leaves a *)
(* layout empty, for which they would drop the range.)                     *)
RemapOk(t) ==
  LET z == call[t].zone
      at == call[t].at
  IN /\ Locked(t, "remap") /\ Known(z, "VirtMem")
     /\ call[t].size >= Size(vmap[z].data)
     /\ \E b \in Block \cup {NoBlock} :
          LET L == Grown(t, vmap[z], b)
              n == Size(L.data)
              nz == VirtRange(IF at = 0 THEN z.addr ELSE at, n)
          IN /\ GrowBlock(t, vmap[z], b)
             /\ \/ /\ FreeSpace(nz, {z})
                   /\ IF nz.addr = z.addr THEN InPlace(L, z, nz) ELSE Relocate(L, z, nz)
                \/ /\ ~FreeSpace(nz, {z}) /\ at = 0 /\ Candidates(n) # {}
                   /\ Relocate(L, z, FindRange(n))
             /\ live' = live \cup ({b} \ {NoBlock})
     /\ Done(t)
     /\ UNCHANGED <<lock, stacks, halt>>

(* No space for the larger range: what realloc_func added is taken back.   *)
RemapRevert(t) ==
  LET z == call[t].zone
      at == call[t].at
  IN /\ Locked(t, "remap") /\ Known(z, "VirtMem")
     /\ call[t].size >= Size(vmap[z].data)
     /\ \E b \in Block \cup {NoBlock} :
          LET L == Grown(t, vmap[z], b)
              n == Size(L.data)
          IN /\ GrowBlock(t, vmap[z], b)
             /\ ~FreeSpace(VirtRange(IF at = 0 THEN z.addr ELSE at, n), {z})
             /\ at = 0 => Candidates(n) = {}
             /\ vmap' = [vmap EXCEPT ![z] = Revert(L)]
             /\ live' = (live \cup ({b} \ {NoBlock})) \ RevertFrees(L)
     /\ Done(t)
     /\ UNCHANGED <<pt, lock, stacks, halt>>

(* The range is gone or of another type, or zm.alloc returned None.        *)
RemapErr(t) ==
  LET z == call[t].zone
  IN /\ Locked(t, "remap")
     /\ Known(z, "VirtMem") => /\ call[t].size > Size(vmap[z].data)
                               /\ \A b \in Block \cup {NoBlock} : ~GrowBlock(t, vmap[z], b)
     /\ Done(t)
     /\ UNCHANGED <<vmap, pt, live, lock, stacks, halt>>

(* realloc_func when the range shrinks: elements are deleted as long as    *)
(* more than the last one has to go; then the loop neither deletes nor     *)
(* ends, and virt_map stays locked.                                        *)
Shrunk(L, n) ==
  LET drop(k) == Size(SubSeq(L.data, Len(L.data) - k + 1, Len(L.data)))
      ks == {k \in 0 .. Len(L.data) : drop(k) < Size(L.data) - n}
      popped[k \in 0 .. Len(L.data)] == IF k = 0 THEN L ELSE PopDelete(popped[k - 1])
  IN popped[Max(ks)]

RemapShrink(t) ==
  LET z == call[t].zone
  IN /\ Locked(t, "remap") /\ Known(z, "VirtMem")
     /\ call[t].size < Size(vmap[z].data)
     /\ vmap' = [vmap EXCEPT ![z] = Shrunk(@, call[t].size)]
     /\ lock' = t
     /\ call' = [call EXCEPT ![t].pc = "spin"]
     /\ UNCHANGED <<pt, live, stacks, halt>>

(***************************************************************************)
(* Properties.                                                             *)
(***************************************************************************)

(* The elements that are mapped now, in the order of their pages.          *)
Mapped(L) == CleanSlice(L) \o Reverse(L.que)

(* The page tables translate exactly the pages of the layouts in virt_map, *)
(* each page once (PageTable::set asserts it), to the memory of the        *)
(* element at that place: whatever failed, moved or was taken back, no     *)
(* page stays mapped without a range and none is missing.                  *)
PageMapExact ==
  /\ pt = UNION {Cells(Mapped(vmap[z]), z.addr) : z \in Zones}
  /\ Cardinality(PagesOf(pt)) = Cardinality(pt)
  /\ \A z \in Zones : Size(Mapped(vmap[z])) = z.size

(* Every range that a Stack value keeps is still a Protected range with a  *)
(* guard page that is not mapped below pages that are: no realloc of       *)
(* another thread, from a range it looked up earlier, ever takes a stack   *)
(* away, and the unwrap of Stack::dealloc does not panic.                  *)
StacksMapped ==
  /\ halt # "unwrap"
  /\ \A z \in stacks :
       /\ Known(z, "Protected")
       /\ z.addr \notin PagesOf(pt)
       /\ z.addr + 1 .. End(z) - 1 \subseteq PagesOf(pt)

(* The layouts that hold memory now: the ones of the ranges, the ones on   *)
(* their way into virt_map and the ones that unmap has just returned.      *)
Holders ==
  {vmap[z] : z \in Zones} \cup {call[t].lay : t \in {u \in Thread : call[u].pc \in {"map", "dealloc"}}}

(* The region a range is to the code above: its pages as the page tables   *)
(* translate them.                                                         *)
RegionOf(z) ==
  [addr |-> z.addr,
   pages |-> [i \in 1 .. z.size |->
                {<<c.blk, c.off>> : c \in {d \in pt : d.page = z.addr + i - 1}}]]

R == INSTANCE Regions WITH Limit <- MaxMap, regions <- {RegionOf(z) : z \in Zones}

(* The calls on the address space implement Regions: ranges appear where   *)
(* there is room, disappear as a whole, and a range that grows or moves    *)
(* keeps its contents.                                                     *)
ImplementsRegions == R!Spec

(* No block is handed out again between the two deallocs of its layout.    *)
(* Where it is, the second one takes it from its new owner (FreedOnce),    *)
(* and nothing can be said of the memory afterwards.                       *)
NoReuse == \A t \in Thread : call[t].pc = "drop" => LayoutFrees(call[t].lay) \cap live = {}

(* What VirtLayout::dealloc demands, "must only be called once": a block   *)
(* that some layout holds is in use, and no other layout holds it.         *)
FreedOnce ==
  \A L \in Holders :
    /\ LayoutFrees(L) \subseteq live
    /\ \A M \in Holders \ {L} : LayoutFrees(L) \cap LayoutFrees(M) = {}

(***************************************************************************)
(* The specification.                                                      *)
(***************************************************************************)

(* The program is loaded before its first thread runs: from_elf maps it    *)
(* with map_at as Protected memory of its exact size.                      *)
AsInit ==
  \E b \in Block :
    LET L == SyncMem(Layout(<<NewElement(b, Image.size, {"r", "w"}, TRUE)>>, "Protected"))
    IN /\ vmap = [z \in {Image} |-> L]
       /\ pt = Cells(L.data, Image.addr)
       /\ live = {b}
       /\ lock = NoThread /\ stacks = {} /\ halt = "no"
       /\ call = [t \in Thread |-> Idle]

AsNext(t) ==
  \/ ReallocNew(t) \/ StackNew(t) \/ MapOk(t) \/ MapErr(t)
  \/ Lookup(t) \/ UnmapCall(t) \/ StackFree(t) \/ DeallocLayout(t) \/ DropLayout(t)
  \/ RemapOk(t) \/ RemapRevert(t) \/ RemapErr(t) \/ RemapShrink(t)
=============================================================================
