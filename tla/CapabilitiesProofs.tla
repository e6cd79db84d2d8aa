------------------------- MODULE CapabilitiesProofs -------------------------
(***************************************************************************)
(* The address space of a process and its capabilities, for any number of  *)
(* threads, blocks and pages: the invariant of the ranges, of the page     *)
(* tables and of what is recorded for the shared memories, and that the    *)
(* calls implement Regions.                                                *)
(***************************************************************************)
EXTENDS Capabilities, AddressSpaceProofs

-----------------------------------------------------------------------------
(* The inductive invariant.                                                *)

Pcs == {"idle", "map", "unmap", "remap", "dealloc", "drop", "spin", "clone"}
FlagSets == SUBSET {"r", "w"}

(* The copy of a capability in the hands of cap_clone has no pages. *)
AnyElems == Seq([blk : Block \cup {NoBlock}, own : BOOLEAN, size : Nat, flags : FlagSets])
AnyLayouts ==
  [data : AnyElems, que : AnyElems, dirty : Nat, clean : Nat,
   atype : {"VirtMem", "Protected", "Shared"}]

Calls ==
  [pc : Pcs, lay : AnyLayouts, use : {"none", "realloc", "stack"}, at : Nat,
   zone : [addr : Nat, size : Nat], size : Nat, exact : BOOLEAN]

StateTypes ==
  /\ live \subseteq Block /\ lock \in Thread \cup {NoThread}
  /\ halt \in {"no", "double free", "unwrap"}
  /\ call \in [Thread -> Calls]

CapTypes ==
  /\ DOMAIN made \subseteq Block /\ DOMAIN capData \subseteq DOMAIN made
  /\ \A id \in DOMAIN caps : caps[id] \in DOMAIN capData /\ id.flags \in FlagSets
  /\ nextId \in 0 .. MaxIds
  /\ \A o \in DOMAIN capData : \A id \in DOMAIN capData[o] : id.flags \in FlagSets

(* All of every layout is mapped; of memory that realloc made, while       *)
(* virt_map is not locked for good.                                        *)
SyncInv == \A z \in Zones : lock = NoThread \/ vmap[z].atype # "VirtMem" => Synced(vmap[z])

(* What is mapped belongs to the layout. *)
Keeps(e) == e.flags # {} => e.own
Owns(s) == \A i \in 1 .. Len(s) : Keeps(s[i])

(* A stack has one page that is not mapped, below pages that are. *)
StackData(s) ==
  /\ Len(s) = 2 /\ s[1].flags = {} /\ s[1].size = 1 /\ s[2].flags # {}

(* What a call carries, where D are the objects that exist. *)
Carries(c, D) ==
  /\ c.pc = "map" =>
       /\ Fresh(c.lay)
       /\ IF c.use = "stack" THEN c.lay.atype = "Protected" /\ StackData(c.lay.data)
                             ELSE c.lay.atype = "VirtMem"
  /\ c.pc = "clone" => Len(c.lay.data) = 1 /\ c.lay.data[1].blk \in D
CallInv == \A t \in Thread : Carries(call[t], DOMAIN capData)

StackInv ==
  /\ halt # "unwrap"
  /\ \A z \in stacks : z \in Zones /\ vmap[z].atype = "Protected" /\ StackData(Mapped(vmap[z]))

(* What is recorded for an id is a Shared range of the object. *)
RecordInv ==
  /\ \A o \in DOMAIN capData : \A id \in DOMAIN capData[o] :
       LET z == capData[o][id]
       IN /\ z \in Zones /\ vmap[z].atype = "Shared"
          /\ vmap[z].data = SmemLayout(o, id).data
  /\ \A o, p \in DOMAIN capData : \A i \in DOMAIN capData[o], j \in DOMAIN capData[p] :
       capData[o][i] = capData[p][j] => o = p /\ i = j

(* Who holds a block. *)
HeldByZone(b) == \E z \in Zones : b \in LayoutFrees(vmap[z])
HeldByCall(b) ==
  \E t \in Thread : call[t].pc \in {"map", "dealloc"} /\ b \in LayoutFrees(call[t].lay)
LeakInv == \A b \in live : b \in DOMAIN made \/ HeldByZone(b) \/ HeldByCall(b)

Inv ==
  /\ MapInv(vmap, pt) /\ StateTypes /\ CapTypes /\ SyncInv /\ CallInv
  /\ StackInv /\ RecordInv /\ LeakInv

(* Where no block is handed out between the two deallocs of its layout:    *)
(* whoever holds a block is the only one, and the blocks of the shared     *)
(* memories stay in use.                                                   *)
InZone(z, b) == z \in Zones /\ b \in LayoutFrees(vmap[z])
InCall(t, b) ==
  t \in Thread /\ call[t].pc \in {"map", "dealloc"} /\ b \in LayoutFrees(call[t].lay)

OwnInv ==
  /\ DOMAIN made \subseteq live
  /\ \A z, b : InZone(z, b) => b \in live \ DOMAIN made
  /\ \A t, b : InCall(t, b) => b \in live \ DOMAIN made
  /\ \A y, z, b : InZone(y, b) /\ InZone(z, b) => y = z
  /\ \A t, u, b : InCall(t, b) /\ InCall(u, b) => t = u
  /\ \A z, t, b : ~ (InZone(z, b) /\ InCall(t, b))

(* The elements of s that are mapped have blocks of F. *)
Backed(s, F) == \A i \in 1 .. Len(s) : s[i].flags # {} => s[i].blk \in F

(* The layout of an object that was dropped, where d are the records and m *)
(* the rights that the objects were made with.                             *)
Orphan(d, m, L) ==
  \E o \in DOMAIN m \ DOMAIN d : \E f \in FlagSets :
    f \subseteq m[o] /\ L.data = SmemLayout(o, [flags |-> f]).data

(* Every Shared range is recorded or of an object that was dropped, and    *)
(* the others own what they map.                                           *)
Recorded(d, z) == \E o \in DOMAIN d : \E id \in DOMAIN d[o] : d[o][id] = z
SharedInv ==
  /\ \A z \in Zones : vmap[z].atype = "Shared" =>
       Recorded(capData, z) \/ Orphan(capData, made, vmap[z])
  /\ \A z \in Zones : vmap[z].atype # "Shared" => Backed(Mapped(vmap[z]), LayoutFrees(vmap[z]))
  /\ \A t \in Thread : call[t].pc = "map" => Backed(call[t].lay.data, LayoutFrees(call[t].lay))

(* No capability, and no copy, has a right that the object was not made    *)
(* with.                                                                   *)
RightsInv ==
  /\ \A id \in DOMAIN caps : id.flags \subseteq made[caps[id]]
  /\ \A o \in DOMAIN capData : \A id \in DOMAIN capData[o] : id.flags \subseteq made[o]
  /\ \A t \in Thread : call[t].pc = "clone" =>
       call[t].lay.data[1].flags \subseteq made[call[t].lay.data[1].blk]

OnceInv == OwnInv /\ SharedInv /\ RightsInv

-----------------------------------------------------------------------------
(* What the operations do to the map of ranges.                            *)

(* Every range keeps its layout. *)
Still == DOMAIN vmap' = DOMAIN vmap /\ pt' = pt /\ \A y \in DOMAIN vmap : vmap'[y] = vmap[y]

(* Nothing but the slices of a layout changes. *)
Kept ==
  /\ DOMAIN vmap' = DOMAIN vmap /\ pt' = pt
  /\ \A y \in DOMAIN vmap :
       /\ vmap'[y] \in Layouts /\ Mapped(vmap'[y]) = Mapped(vmap[y])
       /\ vmap'[y].atype = vmap[y].atype /\ LayoutFrees(vmap'[y]) = LayoutFrees(vmap[y])
       /\ vmap[y].atype # "VirtMem" => vmap'[y] = vmap[y]

(* The range z gets the layout L. *)
Added(z, L) ==
  /\ z \notin DOMAIN vmap /\ DOMAIN vmap' = DOMAIN vmap \cup {z} /\ vmap'[z] = L
  /\ \A y \in DOMAIN vmap : vmap'[y] = vmap[y]

(* The range z goes. *)
Removed(z) ==
  /\ z \in DOMAIN vmap /\ DOMAIN vmap' = DOMAIN vmap \ {z}
  /\ \A y \in DOMAIN vmap \ {z} : vmap'[y] = vmap[y]

(* The range z becomes nz, with the layout L. *)
Moved(z, nz, L) ==
  /\ z \in DOMAIN vmap /\ nz \notin DOMAIN vmap \ {z}
  /\ DOMAIN vmap' = (DOMAIN vmap \ {z}) \cup {nz} /\ vmap'[nz] = L
  /\ \A y \in DOMAIN vmap \ {z} : vmap'[y] = vmap[y]

(* The blocks of a layout without a queue are the ones of its elements. *)
LEMMA FreesOf ==
  /\ \A L : L.que = <<>> => LayoutFrees(L) = Owned(L.data)
  /\ \A e : Owned(<<e>>) = IF e.own THEN {e.blk} ELSE {}
  /\ \A s \in Seq(Elem) : \A e \in Elem : Owned(Append(s, e)) = Owned(s) \cup Owned(<<e>>)
<1>1. Owned(<<>>) = {}
  BY DEF Owned, ToSet
<1>2. \A L : L.que = <<>> => LayoutFrees(L) = Owned(L.data)
  BY <1>1 DEF LayoutFrees
<1>3. ASSUME NEW e PROVE ToSet(<<e>>) = {e}
  BY DEF ToSet
<1>4. \A e : Owned(<<e>>) = IF e.own THEN {e.blk} ELSE {}
  BY <1>3 DEF Owned
<1>5. ASSUME NEW s \in Seq(Elem), NEW e \in Elem
      PROVE  ToSet(Append(s, e)) = ToSet(s) \cup {e}
  <2>. DEFINE u == Append(s, e)
              n == Len(s)
  <2>1. n \in Nat /\ DOMAIN s = 1 .. n /\ DOMAIN u = 1 .. n + 1 /\ u[n + 1] = e
        /\ \A i \in 1 .. n : u[i] = s[i]
    OBVIOUS
  <2>. HIDE DEF u, n
  <2>2. \A i \in 1 .. n + 1 : i \in 1 .. n \/ i = n + 1
    BY <2>1
  <2>3. \A i \in 1 .. n : i \in 1 .. n + 1
    BY <2>1
  <2>4. n + 1 \in 1 .. n + 1
    BY <2>1
  <2>5. ToSet(u) = ToSet(s) \cup {e}
    BY <2>1, <2>2, <2>3, <2>4 DEF ToSet
  <2>. QED BY <2>5 DEF u
<1>6. \A s \in Seq(Elem) : \A e \in Elem : Owned(Append(s, e)) = Owned(s) \cup Owned(<<e>>)
  BY <1>3, <1>5 DEF Owned
<1>. QED
  BY <1>2, <1>4, <1>6

(* VirtLayoutElement::new *)
LEMMA NewElementType ==
  ASSUME NEW b \in Block \cup {NoBlock}, NEW n \in Nat \ {0}, NEW f \in FlagSets, NEW x \in BOOLEAN,
         f = {} => b = NoBlock, f # {} => b \in Block
  PROVE  LET e == NewElement(b, n, f, x)
         IN /\ e \in Elem /\ e.flags = f /\ e.own = (f # {}) /\ e.blk = b
            /\ (f = {} => e.size = n)
            /\ Owned(<<e>>) = {b} \ {NoBlock}
<1>1. AllocLen(n) \in Nat \ {0}
  BY AllocLenType
<1>. DEFINE e == NewElement(b, n, f, x)
<1>2. e \in Elem /\ e.flags = f /\ e.own = (f # {}) /\ e.blk = b /\ (f = {} => e.size = n)
  <2>1. CASE f = {}
    BY <2>1 DEF NewElement, Element, Elem, FlagSets
  <2>2. CASE f # {}
    BY <1>1, <2>2 DEF NewElement, Element, Elem, FlagSets
  <2>. QED BY <2>1, <2>2
<1>. HIDE DEF e
<1>3. Owned(<<e>>) = IF e.own THEN {e.blk} ELSE {}
  BY FreesOf
<1>4. Owned(<<e>>) = {b} \ {NoBlock}
  BY <1>2, <1>3, AddressSpaceConstants
<1>. QED
  BY <1>2, <1>4 DEF e

(* The range that map and map_at find. *)
LEMMA MapTargetFits ==
  ASSUME Tiled(vmap), NEW L, Fresh(L), NEW at \in Nat, NEW z \in MapTarget(L, at)
  PROVE  z \in Ranges /\ z.size = Size(L.data) /\ \A y \in Zones : Apart(y, z)
<1>. DEFINE n == Size(L.data)
<1>1. n \in Nat /\ n >= 1
  BY SizeOf DEF Fresh, Layouts, Elems
<1>. HIDE DEF n
<1>2. CASE at = 0
  <2>1. z = FindRange(n) /\ Candidates(n) # {}
    BY <1>2 DEF MapTarget, n
  <2>. QED BY <1>1, <2>1, FindRangeApart DEF n
<1>3. CASE at # 0
  <2>1. z = VirtRange(at, n) /\ FreeSpace(z, {})
    BY <1>3 DEF MapTarget, n
  <2>2. z \in [addr : Nat, size : Nat] /\ z.size = n
    BY <1>1, <2>1 DEF VirtRange
  <2>3. z \in Ranges /\ \A y \in Zones \ {} : Apart(y, z)
    BY <1>1, <2>1, <2>2, FreeSpaceApart
  <2>. QED BY <2>2, <2>3 DEF n
<1>. QED
  BY <1>2, <1>3

(* map, map_at and the mapping of a shared memory. *)
LEMMA MapEffect ==
  ASSUME MapInv(vmap, pt), NEW L, Fresh(L), NEW at \in Nat, NEW z \in MapTarget(L, at), MapInto(L, z)
  PROVE  /\ MapInv(vmap', pt') /\ Added(z, SyncMem(L))
         /\ Synced(SyncMem(L)) /\ SyncMem(L).data = L.data /\ SyncMem(L).atype = L.atype
         /\ Mapped(SyncMem(L)) = L.data
<1>1. Tiled(vmap)
  BY DEF MapInv
<1>2. z \in Ranges /\ z.size = Size(L.data) /\ \A y \in DOMAIN vmap : Apart(y, z)
  BY <1>1, MapTargetFits DEF Zones
<1>3. /\ pt' = MapInternal(pt, IterUnmaps(L, z), IterMaps(L, z)) /\ vmap' = WithZone(vmap, L, z)
  BY DEF MapInto
<1>4. /\ z \notin DOMAIN vmap
      /\ MapInv(WithZone(vmap, L, z), MapInternal(pt, {}, IterMaps(L, z)))
      /\ MapInternal(pt, IterUnmaps(L, z), IterMaps(L, z)) = MapInternal(pt, {}, IterMaps(L, z))
      /\ DOMAIN WithZone(vmap, L, z) = DOMAIN vmap \cup {z}
      /\ WithZone(vmap, L, z)[z] = SyncMem(L)
      /\ \A y \in DOMAIN vmap : WithZone(vmap, L, z)[y] = vmap[y]
  BY <1>2, AddZone
<1>5. MapInv(vmap', pt')
  BY <1>3, <1>4
<1>6. Added(z, SyncMem(L))
  BY <1>3, <1>4 DEF Added
<1>7. z.addr \in Nat
  BY <1>2 DEF Ranges
<1>. QED
  BY <1>5, <1>6, <1>7, FreshMaps

(* unmap *)
LEMMA UnmapEffect ==
  ASSUME MapInv(vmap, pt), NEW z \in Zones, Synced(vmap[z]), UnmapZone(z)
  PROVE  MapInv(vmap', pt') /\ Removed(z)
<1>1. z \in DOMAIN vmap /\ UnmapperUnmaps(vmap[z], z) = PagesOf(Cells(vmap[z].data, z.addr))
  BY SyncedUnmaps DEF Zones
<1>2. /\ pt' = MapInternal(pt, UnmapperUnmaps(vmap[z], z), {}) /\ vmap' = WithoutZone(vmap, z)
  BY DEF UnmapZone
<1>3. /\ MapInv(WithoutZone(vmap, z), MapInternal(pt, UnmapperUnmaps(vmap[z], z), {}))
      /\ DOMAIN WithoutZone(vmap, z) = DOMAIN vmap \ {z}
      /\ \A y \in DOMAIN vmap \ {z} : WithoutZone(vmap, z)[y] = vmap[y]
  BY <1>1, RemoveZone
<1>. QED
  BY <1>1, <1>2, <1>3 DEF Removed

(* realloc_func of a range that grows: a layout that is as it was, or has  *)
(* one element more, with the block that was taken for it.                 *)
LEMMA GrownCases ==
  ASSUME NEW t, NEW L, Synced(L), call[t].size \in Nat, call[t].exact \in BOOLEAN,
         call[t].size >= Size(L.data), live \subseteq Block,
         NEW b \in Block \cup {NoBlock}, GrowBlock(t, L, b)
  PROVE  /\ b \notin live
         /\ \/ b = NoBlock /\ Grown(t, L, b) = L
            \/ \E e \in Elem : /\ Grown(t, L, b) = PushElement(L, e)
                               /\ Owned(<<e>>) = {b} \ {NoBlock}
                               /\ Keeps(e)
<1>. DEFINE s == L.data
            n == call[t].size
            d == n - Size(s)
            f == s[1].flags
            x == call[t].exact
            e == NewElement(b, d, f, x)
<1>1. s \in Seq(Elem) /\ s # <<>>
  BY DEF Synced, Layouts, Elems
<1>2. Size(s) \in Nat /\ n \in Nat /\ n >= Size(s)
  BY <1>1, SizeOf
<1>3. b \notin live
  BY AddressSpaceConstants DEF GrowBlock
<1>4. CASE n = Size(s)
  <2>1. b = NoBlock
    BY <1>4 DEF GrowBlock
  <2>2. d = 0
    BY <1>2, <1>4
  <2>3. Grown(t, L, b) = L
    BY <2>2 DEF Grown
  <2>. QED BY <1>3, <2>1, <2>3
<1>5. CASE n # Size(s)
  <2>1. d \in Nat \ {0}
    BY <1>2, <1>5
  <2>2. s[1] \in Elem
    BY <1>1
  <2>3. f \in FlagSets
    BY <2>2 DEF Elem, FlagSets
  <2>4. (f = {} => b = NoBlock) /\ (f # {} => b \in Block)
    BY <1>5 DEF GrowBlock
  <2>5. x \in BOOLEAN
    OBVIOUS
  <2>6. Grown(t, L, b) = PushElement(L, e)
    BY <2>1 DEF Grown
  <2>. HIDE DEF d, f, x
  <2>7. /\ e \in Elem /\ e.flags = f /\ e.own = (f # {})
        /\ Owned(<<e>>) = {b} \ {NoBlock}
    BY <2>1, <2>3, <2>4, <2>5, NewElementType
  <2>. HIDE DEF e
  <2>8. Keeps(e)
    BY <2>7 DEF Keeps
  <2>. QED BY <1>3, <2>6, <2>7, <2>8
<1>. QED
  BY <1>4, <1>5

(* A layout that is as it was or has one element more gets the range nz. *)
LEMMA RemapEffect ==
  ASSUME MapInv(vmap, pt), NEW z \in Zones, Synced(vmap[z]), NEW L,
         L = vmap[z] \/ \E e \in Elem : L = PushElement(vmap[z], e),
         NEW nz \in Ranges, nz.size = Size(L.data), \A y \in Zones \ {z} : Apart(y, nz),
         \/ Relocate(L, z, nz)
         \/ nz.addr = z.addr /\ InPlace(L, z, nz) /\ L # vmap[z]
  PROVE  /\ MapInv(vmap', pt')
         /\ \E M : /\ Moved(z, nz, M) /\ Synced(M)
                   /\ M.data = L.data /\ M.atype = vmap[z].atype
<1>. DEFINE N == MarkUnmapped(L)
            C == PagesOf(Cells(vmap[z].data, z.addr))
            p == MapInternal(MapInternal(pt, UnmapperUnmaps(L, z), {}), {}, IterMaps(N, nz))
            W == WithZone(WithoutZone(vmap, z), N, nz)
<1>0. z \in DOMAIN vmap /\ z.addr \in Nat /\ nz.addr \in Nat
  BY DEF MapInv, Tiled, Ranges, Zones
<1>1. UnmapperUnmaps(L, z) = C /\ Fresh(N) /\ N.data = L.data /\ N.atype = vmap[z].atype
  <2>1. CASE L = vmap[z]
    BY <2>1, SyncedUnmaps
  <2>2. ASSUME NEW e \in Elem, L = PushElement(vmap[z], e)
        PROVE  UnmapperUnmaps(L, z) = C /\ Fresh(N) /\ N.data = L.data /\ N.atype = vmap[z].atype
    BY <1>0, <2>2, PushedMaps
  <2>. QED BY <2>1, <2>2
<1>. HIDE DEF C
<1>2. /\ MapInv(W, p) /\ DOMAIN W = (DOMAIN vmap \ {z}) \cup {nz} /\ nz \notin DOMAIN vmap \ {z}
      /\ W[nz] = SyncMem(N) /\ \A y \in DOMAIN vmap \ {z} : W[y] = vmap[y]
  <2>1. \A y \in DOMAIN vmap \ {z} : Apart(y, nz)
    BY DEF Zones
  <2>2. nz.size = Size(N.data)
    BY <1>1
  <2>3. UnmapperUnmaps(L, z) = PagesOf(Cells(vmap[z].data, z.addr)) /\ Fresh(MarkUnmapped(L))
    BY <1>1 DEF C
  <2>4. LET M == WithZone(WithoutZone(vmap, z), MarkUnmapped(L), nz)
        IN /\ MapInv(M, MapInternal(MapInternal(pt, UnmapperUnmaps(L, z), {}), {},
                                    IterMaps(MarkUnmapped(L), nz)))
           /\ DOMAIN M = (DOMAIN vmap \ {z}) \cup {nz} /\ nz \notin DOMAIN vmap \ {z}
           /\ M[nz] = SyncMem(MarkUnmapped(L))
           /\ \A y \in DOMAIN vmap \ {z} : M[y] = vmap[y]
    <3>1. z \in DOMAIN vmap /\ nz.size = Size(MarkUnmapped(L).data)
      BY <1>0, <2>2
    <3>2. MapInv(vmap, pt) /\ Synced(vmap[z]) /\ nz \in Ranges
      OBVIOUS
    <3>. QED BY ONLY <2>1, <2>3, <3>1, <3>2, MoveZone
  <2>. QED BY <2>4
<1>3. vmap' = W /\ pt' = p
  <2>1. CASE Relocate(L, z, nz)
    BY <2>1 DEF Relocate
  <2>2. CASE nz.addr = z.addr /\ InPlace(L, z, nz) /\ L # vmap[z]
    <3>1. PICK e \in Elem : L = PushElement(vmap[z], e)
      BY <2>2
    <3>2. /\ MapInternal(pt, IterUnmaps(L, nz), IterMaps(L, nz)) = p
          /\ SyncMem(L) = SyncMem(N)
      BY <1>0, <2>2, <3>1, GrowInPlace
    <3>3. WithZone(WithoutZone(vmap, z), L, nz) = W
      BY <3>2 DEF WithZone
    <3>4. pt' = MapInternal(pt, IterUnmaps(L, nz), IterMaps(L, nz))
          /\ vmap' = WithZone(WithoutZone(vmap, z), L, nz)
      BY <2>2 DEF InPlace
    <3>. QED BY <3>2, <3>3, <3>4
  <2>. QED BY <2>1, <2>2
<1>4. Synced(SyncMem(N)) /\ SyncMem(N).data = N.data /\ SyncMem(N).atype = N.atype
  BY <1>0, <1>1, FreshMaps
<1>. HIDE DEF W, p
<1>5. MapInv(vmap', pt')
  BY <1>2, <1>3
<1>6. Moved(z, nz, SyncMem(N))
  BY <1>0, <1>2, <1>3 DEF Moved
<1>. HIDE DEF N
<1>. QED
  BY <1>1, <1>4, <1>5, <1>6

-----------------------------------------------------------------------------
(* What a thread's call becomes.                                           *)

(* The call of t is now c. *)
SetCall(t, c) ==
  /\ c \in Calls /\ call' \in [Thread -> Calls] /\ call'[t] = c
  /\ \A u \in Thread \ {t} : call'[u] = call[u]

(* The layouts of ranges are among the ones a call may have. *)
LEMMA LayoutTypes ==
  /\ Layouts \subseteq AnyLayouts
  /\ \A s \in Seq(Elem), a \in {"VirtMem", "Protected", "Shared"} :
       s # <<>> => /\ Fresh(Layout(s, a)) /\ Layout(s, a).data = s /\ Layout(s, a).atype = a
  /\ Idle \in Calls /\ Idle.pc = "idle"
<1>1. ASSUME NEW s \in Seq(Elem) PROVE s \in AnyElems
  <2>1. \A e \in Elem : e \in [blk : Block \cup {NoBlock}, own : BOOLEAN, size : Nat, flags : FlagSets]
    BY DEF Elem, FlagSets
  <2>2. \A i \in 1 .. Len(s) : s[i] \in Elem
    OBVIOUS
  <2>. DEFINE A == [blk : Block \cup {NoBlock}, own : BOOLEAN, size : Nat, flags : FlagSets]
  <2>. HIDE DEF A
  <2>3. \A i \in 1 .. Len(s) : s[i] \in A
    BY <2>1, <2>2 DEF A
  <2>4. s \in Seq(A)
    BY <2>3
  <2>. QED BY <2>4 DEF A, AnyElems
<1>2. Elems \subseteq AnyElems
  BY <1>1 DEF Elems
<1>3. Layouts \subseteq AnyLayouts
  BY <1>2 DEF Layouts, AnyLayouts
<1>4. ASSUME NEW s \in Seq(Elem), NEW a \in {"VirtMem", "Protected", "Shared"}, s # <<>>
      PROVE  Fresh(Layout(s, a)) /\ Layout(s, a).data = s /\ Layout(s, a).atype = a
  <2>1. s \in Elems /\ <<>> \in Elems
    BY DEF Elems
  <2>. QED BY <1>4, <2>1 DEF Fresh, Layout, Layouts
<1>5. <<>> \in AnyElems
  BY DEF AnyElems
<1>6. NoLayout \in AnyLayouts
  BY <1>5 DEF NoLayout, Layout, AnyLayouts
<1>7. Idle \in Calls /\ Idle.pc = "idle"
  BY <1>6 DEF Idle, Calls, Pcs, VirtRange
<1>. QED
  BY <1>3, <1>4, <1>7

(* One call changes. *)
LEMMA SetCallOf ==
  ASSUME call \in [Thread -> Calls], NEW t \in Thread, NEW c \in Calls,
         call' = [call EXCEPT ![t] = c]
  PROVE  SetCall(t, c)
BY DEF SetCall

(* The calls that begin. *)
LEMMA NewCalls ==
  /\ \A L \in AnyLayouts, a \in Nat :
       LET c == [Idle EXCEPT !.pc = "map", !.use = "realloc", !.at = a, !.lay = L]
       IN c \in Calls /\ c.pc = "map" /\ c.use = "realloc" /\ c.lay = L
  /\ \A L \in AnyLayouts :
       LET c == [Idle EXCEPT !.pc = "map", !.use = "stack", !.lay = L]
       IN c \in Calls /\ c.pc = "map" /\ c.use = "stack" /\ c.lay = L
  /\ \A z \in [addr : Nat, size : Nat] :
       LET c == [Idle EXCEPT !.pc = "unmap", !.zone = z] IN c \in Calls /\ c.pc = "unmap"
  /\ \A L \in AnyLayouts :
       LET c == [Idle EXCEPT !.pc = "dealloc", !.lay = L]
       IN c \in Calls /\ c.pc = "dealloc" /\ c.lay = L
  /\ \A L \in AnyLayouts :
       LET c == [Idle EXCEPT !.pc = "clone", !.lay = L]
       IN c \in Calls /\ c.pc = "clone" /\ c.lay = L
<1>1. Idle \in Calls
  BY LayoutTypes
<1>2. ASSUME NEW L \in AnyLayouts, NEW a \in Nat
      PROVE  LET c == [Idle EXCEPT !.pc = "map", !.use = "realloc", !.at = a, !.lay = L]
             IN c \in Calls /\ c.pc = "map" /\ c.use = "realloc" /\ c.lay = L
  BY <1>1 DEF Calls, Pcs
<1>3. ASSUME NEW L \in AnyLayouts
      PROVE  LET c == [Idle EXCEPT !.pc = "map", !.use = "stack", !.lay = L]
             IN c \in Calls /\ c.pc = "map" /\ c.use = "stack" /\ c.lay = L
  BY <1>1 DEF Calls, Pcs
<1>4. ASSUME NEW z \in [addr : Nat, size : Nat]
      PROVE  LET c == [Idle EXCEPT !.pc = "unmap", !.zone = z] IN c \in Calls /\ c.pc = "unmap"
  BY <1>1 DEF Calls, Pcs
<1>5. ASSUME NEW L \in AnyLayouts
      PROVE  LET c == [Idle EXCEPT !.pc = "dealloc", !.lay = L]
             IN c \in Calls /\ c.pc = "dealloc" /\ c.lay = L
  BY <1>1 DEF Calls, Pcs
<1>6. ASSUME NEW L \in AnyLayouts
      PROVE  LET c == [Idle EXCEPT !.pc = "clone", !.lay = L]
             IN c \in Calls /\ c.pc = "clone" /\ c.lay = L
  BY <1>1 DEF Calls, Pcs
<1>. QED
  BY <1>2, <1>3, <1>4, <1>5, <1>6

(* The calls that go on. *)
LEMMA NextCalls ==
  ASSUME call \in [Thread -> Calls], NEW t \in Thread
  PROVE  /\ \A L \in AnyLayouts :
              call' = [call EXCEPT ![t].pc = "dealloc", ![t].lay = L] =>
                \E c \in Calls : SetCall(t, c) /\ c.pc = "dealloc" /\ c.lay = L
         /\ call' = [call EXCEPT ![t].pc = "drop"] =>
              \E c \in Calls : SetCall(t, c) /\ c.pc = "drop" /\ c.lay = call[t].lay
         /\ call' = [call EXCEPT ![t].pc = "spin"] =>
              \E c \in Calls : SetCall(t, c) /\ c.pc = "spin"
         /\ Done(t) => SetCall(t, Idle)
<1>. DEFINE k == call[t]
<1>1. k \in Calls
  OBVIOUS
<1>. HIDE DEF k
<1>2. ASSUME NEW L \in AnyLayouts, call' = [call EXCEPT ![t].pc = "dealloc", ![t].lay = L]
      PROVE  \E c \in Calls : SetCall(t, c) /\ c.pc = "dealloc" /\ c.lay = L
  <2>. DEFINE c == [k EXCEPT !.pc = "dealloc", !.lay = L]
  <2>1. c \in Calls /\ c.pc = "dealloc" /\ c.lay = L
    BY <1>1 DEF Calls, Pcs
  <2>2. call' = [call EXCEPT ![t] = c]
    BY <1>2 DEF k
  <2>3. SetCall(t, c)
    BY <2>1, <2>2, SetCallOf
  <2>. QED BY <2>1, <2>3
<1>3. ASSUME call' = [call EXCEPT ![t].pc = "drop"]
      PROVE  \E c \in Calls : SetCall(t, c) /\ c.pc = "drop" /\ c.lay = call[t].lay
  <2>. DEFINE c == [k EXCEPT !.pc = "drop"]
  <2>1. c \in Calls /\ c.pc = "drop" /\ c.lay = k.lay
    BY <1>1 DEF Calls, Pcs
  <2>2. call' = [call EXCEPT ![t] = c]
    BY <1>3 DEF k
  <2>3. SetCall(t, c)
    BY <2>1, <2>2, SetCallOf
  <2>. QED BY <2>1, <2>3 DEF k
<1>4. ASSUME call' = [call EXCEPT ![t].pc = "spin"]
      PROVE  \E c \in Calls : SetCall(t, c) /\ c.pc = "spin"
  <2>. DEFINE c == [k EXCEPT !.pc = "spin"]
  <2>1. c \in Calls /\ c.pc = "spin"
    BY <1>1 DEF Calls, Pcs
  <2>2. call' = [call EXCEPT ![t] = c]
    BY <1>4 DEF k
  <2>3. SetCall(t, c)
    BY <2>1, <2>2, SetCallOf
  <2>. QED BY <2>1, <2>3
<1>5. ASSUME Done(t) PROVE SetCall(t, Idle)
  <2>1. Idle \in Calls
    BY LayoutTypes
  <2>. QED BY <1>5, <2>1, SetCallOf DEF Done
<1>. QED
  BY <1>2, <1>3, <1>4, <1>5

-----------------------------------------------------------------------------
(* What the steps of the address space come to.                            *)

(* A layout is made, with the block b or with none. *)
Take(t) ==
  \E c \in Calls, b \in Block \cup {NoBlock} :
    /\ call[t].pc = "idle" /\ SetCall(t, c) /\ c.pc = "map" /\ Fresh(c.lay) /\ Owns(c.lay.data)
    /\ IF c.use = "stack" THEN c.lay.atype = "Protected" /\ StackData(c.lay.data)
                          ELSE c.lay.atype = "VirtMem"
    /\ b \notin live /\ live' = live \cup ({b} \ {NoBlock}) /\ LayoutFrees(c.lay) = {b} \ {NoBlock}
    /\ Still /\ UNCHANGED <<lock, stacks, halt>>

(* A layout gets a range. *)
Put(t) ==
  \E z \in Ranges, L \in Layouts :
    /\ call[t].pc = "map" /\ Added(z, L) /\ Synced(L)
    /\ L.data = call[t].lay.data /\ L.atype = call[t].lay.atype
    /\ LayoutFrees(L) = LayoutFrees(call[t].lay)
    /\ stacks' = IF call[t].use = "stack" THEN stacks \cup {z} ELSE stacks
    /\ SetCall(t, Idle) /\ UNCHANGED <<live, lock, halt>>

(* A layout gives its blocks back. *)
GiveBack(t) ==
  \E c \in Calls :
    /\ call[t].pc \in {"map", "dealloc", "drop"} /\ SetCall(t, c)
    /\ c.pc = "idle" \/ (c.pc = "drop" /\ call[t].pc = "dealloc" /\ c.lay = call[t].lay)
    /\ live' = live \ LayoutFrees(call[t].lay) /\ halt = "no" /\ halt' \in {"no", "double free"}
    /\ Still /\ UNCHANGED <<lock, stacks>>

(* Only the thread goes on. *)
Look(t) ==
  \E c \in Calls :
    /\ call[t].pc \in {"idle", "unmap", "remap"} /\ c.pc \in {"idle", "unmap", "remap"}
    /\ SetCall(t, c) /\ Still /\ UNCHANGED <<live, lock, stacks, halt>>

(* A range goes, and its layout is in the hands of the thread. *)
TakeOut(t) ==
  \E z \in Zones, c \in Calls :
    /\ call[t].pc \in {"idle", "unmap"} /\ lock = NoThread /\ Removed(z)
    /\ \/ vmap[z].atype = "VirtMem" /\ stacks' = stacks
       \/ vmap[z].atype = "Protected" /\ stacks' = stacks \ {z}
    /\ SetCall(t, c) /\ c.pc = "dealloc" /\ LayoutFrees(c.lay) = LayoutFrees(vmap[z])
    /\ UNCHANGED <<live, lock, halt>>

(* A range grows or moves. *)
Grow(t) ==
  \E z \in Zones, nz \in Ranges, L \in Layouts, b \in Block \cup {NoBlock} :
    /\ call[t].pc = "remap" /\ lock = NoThread /\ vmap[z].atype = "VirtMem"
    /\ Moved(z, nz, L) /\ Synced(L) /\ L.atype = "VirtMem"
    /\ \/ L.data = vmap[z].data
       \/ \E e \in Elem : Keeps(e) /\ L.data = Append(vmap[z].data, e)
    /\ b \notin live /\ live' = live \cup ({b} \ {NoBlock})
    /\ LayoutFrees(L) = LayoutFrees(vmap[z]) \cup ({b} \ {NoBlock})
    /\ SetCall(t, Idle) /\ UNCHANGED <<lock, stacks, halt>>

(* The loop that shrinks a range keeps virt_map. *)
Stick(t) ==
  \E c \in Calls :
    /\ call[t].pc = "remap" /\ SetCall(t, c) /\ c.pc = "spin"
    /\ Kept /\ lock' = t /\ UNCHANGED <<live, stacks, halt>>

AsEffect(t) ==
  Take(t) \/ Put(t) \/ GiveBack(t) \/ Look(t) \/ TakeOut(t) \/ Grow(t) \/ Stick(t)

(* realloc(0, n) *)
LEMMA ReallocNewStep ==
  ASSUME StateTypes, NEW t \in Thread, ReallocNew(t)
  PROVE  Take(t)
<1>1. PICK n \in Sizes, f \in Flags, x \in Exact, a \in At \cup {0}, b \in Block \cup {NoBlock} :
        /\ AllocBlock(f, b)
        /\ call' = [call EXCEPT ![t] = [Idle EXCEPT !.pc = "map", !.use = "realloc", !.at = a,
                      !.lay = Layout(<<NewElement(b, n, f, x)>>, "VirtMem")]]
  BY DEF ReallocNew
<1>. DEFINE e == NewElement(b, n, f, x)
            L == Layout(<<e>>, "VirtMem")
            c == [Idle EXCEPT !.pc = "map", !.use = "realloc", !.at = a, !.lay = L]
<1>2. n \in Nat \ {0} /\ f \in FlagSets /\ x \in BOOLEAN /\ a \in Nat
  BY AddressSpaceConstants DEF FlagSets
<1>3. /\ b \notin live /\ live' = live \cup ({b} \ {NoBlock})
      /\ (f = {} => b = NoBlock) /\ (f # {} => b \in Block)
  BY <1>1, AddressSpaceConstants DEF AllocBlock, StateTypes
<1>4. e \in Elem /\ e.flags = f /\ e.own = (f # {}) /\ Owned(<<e>>) = {b} \ {NoBlock}
  BY <1>2, <1>3, NewElementType
<1>. HIDE DEF e
<1>5. <<e>> \in Seq(Elem) /\ <<e>> # <<>> /\ Len(<<e>>) = 1 /\ <<e>>[1] = e
  BY <1>4
<1>6. Fresh(L) /\ L.data = <<e>> /\ L.atype = "VirtMem"
  BY <1>5, LayoutTypes
<1>. HIDE DEF L
<1>7. L \in AnyLayouts
  BY <1>6, LayoutTypes DEF Fresh
<1>8. c \in Calls /\ c.pc = "map" /\ c.use = "realloc" /\ c.lay = L
  <2>1. a \in Nat
    BY <1>2
  <2>2. \A M \in AnyLayouts, i \in Nat :
          LET d == [Idle EXCEPT !.pc = "map", !.use = "realloc", !.at = i, !.lay = M]
          IN d \in Calls /\ d.pc = "map" /\ d.use = "realloc" /\ d.lay = M
    BY NewCalls
  <2>. QED BY ONLY <1>7, <2>1, <2>2
<1>9. call' = [call EXCEPT ![t] = c]
  BY <1>1 DEF L, e
<1>. HIDE DEF c
<1>10. SetCall(t, c)
  BY <1>8, <1>9, SetCallOf DEF StateTypes
<1>11. Owns(L.data)
  <2>1. \A i \in 1 .. Len(<<e>>) : <<e>>[i] = e
    BY <1>5
  <2>2. Owns(<<e>>)
    BY <1>4, <2>1 DEF Owns, Keeps
  <2>. QED BY <1>6, <2>2
<1>12. LayoutFrees(L) = {b} \ {NoBlock}
  BY <1>4, <1>6, FreesOf DEF Fresh
<1>13. call[t].pc = "idle" /\ UNCHANGED <<vmap, pt, lock, stacks, halt>>
  BY DEF ReallocNew, Ready
<1>. QED
  BY <1>3, <1>6, <1>8, <1>10, <1>11, <1>12, <1>13 DEF Take, Still

(* Stack::user_new *)
LEMMA StackNewStep ==
  ASSUME StateTypes, NEW t \in Thread, StackNew(t)
  PROVE  Take(t)
<1>1. PICK b \in Block :
        /\ AllocBlock({"r", "w"}, b)
        /\ call' = [call EXCEPT ![t] = [Idle EXCEPT !.pc = "map", !.use = "stack",
                      !.lay = Layout(<<NewElement(NoBlock, 1, {}, FALSE),
                                       NewElement(b, StackPages, {"r", "w"}, FALSE)>>, "Protected")]]
  BY DEF StackNew
<1>. DEFINE g == NewElement(NoBlock, 1, {}, FALSE)
            e == NewElement(b, StackPages, {"r", "w"}, FALSE)
            s == <<g, e>>
            L == Layout(s, "Protected")
            c == [Idle EXCEPT !.pc = "map", !.use = "stack", !.lay = L]
<1>2. StackPages \in Nat \ {0} /\ {} \in FlagSets /\ {"r", "w"} \in FlagSets /\ {"r", "w"} # {}
  BY AddressSpaceConstants DEF FlagSets
<1>3. b \notin live /\ b # NoBlock /\ live' = live \cup ({b} \ {NoBlock})
  BY <1>1, <1>2, AddressSpaceConstants DEF AllocBlock
<1>4. e \in Elem /\ e.flags = {"r", "w"} /\ e.own /\ Owned(<<e>>) = {b} \ {NoBlock}
  <2>. DEFINE f == {"r", "w"}
  <2>1. f \in FlagSets /\ f # {} /\ b \in Block \cup {NoBlock} /\ FALSE \in BOOLEAN
    BY <1>2
  <2>. HIDE DEF f
  <2>2. \A x \in BOOLEAN :
          LET d == NewElement(b, StackPages, f, x)
          IN /\ d \in Elem /\ d.flags = f /\ d.own = (f # {}) /\ Owned(<<d>>) = {b} \ {NoBlock}
    BY <1>2, <2>1, NewElementType
  <2>3. LET d == NewElement(b, StackPages, f, FALSE)
        IN /\ d \in Elem /\ d.flags = f /\ d.own = (f # {}) /\ Owned(<<d>>) = {b} \ {NoBlock}
    BY <2>2, Zenon
  <2>. QED BY <2>1, <2>3 DEF f
<1>5. g \in Elem /\ g.flags = {} /\ g.size = 1 /\ Owned(<<g>>) = {}
  <2>1. {} \in FlagSets /\ NoBlock \in Block \cup {NoBlock} /\ FALSE \in BOOLEAN /\ 1 \in Nat \ {0}
    BY <1>2
  <2>2. \A x \in BOOLEAN :
          LET d == NewElement(NoBlock, 1, {}, x)
          IN /\ d \in Elem /\ d.flags = {} /\ d.size = 1 /\ Owned(<<d>>) = {NoBlock} \ {NoBlock}
    BY <2>1, NewElementType
  <2>3. /\ g \in Elem /\ g.flags = {} /\ g.size = 1 /\ Owned(<<g>>) = {NoBlock} \ {NoBlock}
    BY <2>2, Zenon DEF g
  <2>. QED BY <2>3
<1>. HIDE DEF e, g
<1>6. /\ s \in Seq(Elem) /\ s # <<>> /\ Len(s) = 2 /\ s[1] = g /\ s[2] = e /\ s = Append(<<g>>, e)
      /\ <<g>> \in Seq(Elem)
  <2>1. <<g>> \in Seq(Elem) /\ Len(<<g>>) = 1 /\ <<g>>[1] = g
    BY <1>5
  <2>2. s \in Seq(Elem) /\ Len(s) = 2 /\ s[1] = g /\ s[2] = e
    BY <1>4, <1>5
  <2>3. s = Append(<<g>>, e)
    OBVIOUS
  <2>. QED BY <2>1, <2>2, <2>3
<1>. HIDE DEF s
<1>7. Fresh(L) /\ L.data = s /\ L.atype = "Protected"
  BY <1>6, LayoutTypes
<1>. HIDE DEF L
<1>8. L \in AnyLayouts
  BY <1>7, LayoutTypes DEF Fresh
<1>9. c \in Calls /\ c.pc = "map" /\ c.use = "stack" /\ c.lay = L
  BY <1>8, NewCalls
<1>10. call' = [call EXCEPT ![t] = c]
  BY <1>1 DEF L, s, e, g
<1>. HIDE DEF c
<1>11. SetCall(t, c)
  BY <1>9, <1>10, SetCallOf DEF StateTypes
<1>12. Owns(L.data)
  BY <1>4, <1>5, <1>6, <1>7 DEF Owns, Keeps
<1>13. StackData(L.data)
  BY <1>2, <1>4, <1>5, <1>6, <1>7 DEF StackData
<1>14. LayoutFrees(L) = {b} \ {NoBlock}
  <2>1. LayoutFrees(L) = Owned(Append(<<g>>, e))
    BY <1>6, <1>7, FreesOf DEF Fresh
  <2>2. Owned(Append(<<g>>, e)) = Owned(<<g>>) \cup Owned(<<e>>)
    BY <1>4, <1>6, FreesOf
  <2>. QED BY <1>4, <1>5, <2>1, <2>2
<1>15. call[t].pc = "idle" /\ UNCHANGED <<vmap, pt, lock, stacks, halt>>
  BY DEF StackNew, Ready
<1>. QED
  BY <1>3, <1>7, <1>9, <1>11, <1>12, <1>13, <1>14, <1>15 DEF Take, Still

(* map and map_at *)
LEMMA MapOkStep ==
  ASSUME MapInv(vmap, pt), StateTypes, CallInv, NEW t \in Thread, MapOk(t)
  PROVE  MapInv(vmap', pt') /\ Put(t)
<1>. DEFINE L == call[t].lay
            a == call[t].at
<1>1. call[t].pc = "map" /\ Done(t) /\ UNCHANGED <<live, lock, halt>>
  BY DEF MapOk, Locked, Ready
<1>2. PICK z \in MapTarget(L, a) :
        MapInto(L, z) /\ stacks' = IF call[t].use = "stack" THEN stacks \cup {z} ELSE stacks
  BY DEF MapOk
<1>3. Fresh(L)
  BY <1>1 DEF CallInv, Carries
<1>4. call[t] \in Calls
  BY DEF StateTypes
<1>5. a \in Nat
  BY <1>4 DEF Calls
<1>6. z \in Ranges
  <2>1. Tiled(vmap)
    BY DEF MapInv
  <2>. QED BY <1>3, <1>5, <2>1, MapTargetFits
<1>. DEFINE M == SyncMem(L)
<1>7. MapInv(vmap', pt') /\ Added(z, M) /\ Synced(M) /\ M.data = L.data /\ M.atype = L.atype
  BY <1>2, <1>3, <1>5, MapEffect
<1>. HIDE DEF M
<1>8. M \in Layouts
  BY <1>7 DEF Synced
<1>9. LayoutFrees(M) = LayoutFrees(L)
  <2>1. M.que = <<>> /\ L.que = <<>>
    BY <1>3, <1>7 DEF Synced, Fresh
  <2>. QED BY <1>7, <2>1 DEF LayoutFrees
<1>10. SetCall(t, Idle)
  BY <1>1, NextCalls DEF StateTypes
<1>. QED
  BY <1>1, <1>2, <1>6, <1>7, <1>8, <1>9, <1>10 DEF Put

(* A layout that is refused, dealloc and the drop. *)
LEMMA GiveBackStep ==
  ASSUME StateTypes, NEW t \in Thread, MapErr(t) \/ DeallocLayout(t) \/ DropLayout(t)
  PROVE  GiveBack(t)
<1>1. Idle \in Calls /\ Idle.pc = "idle"
  BY LayoutTypes
<1>2. CASE MapErr(t)
  <2>1. /\ call[t].pc = "map" /\ halt = "no" /\ Free(LayoutFrees(call[t].lay)) /\ Done(t)
        /\ UNCHANGED <<vmap, pt, lock, stacks>>
    BY <1>2 DEF MapErr, Locked, Ready
  <2>2. SetCall(t, Idle)
    BY <2>1, NextCalls DEF StateTypes
  <2>. QED BY <1>1, <2>1, <2>2 DEF GiveBack, Still, Free
<1>3. CASE DropLayout(t)
  <2>1. /\ call[t].pc = "drop" /\ halt = "no" /\ Free(LayoutFrees(call[t].lay)) /\ Done(t)
        /\ UNCHANGED <<vmap, pt, lock, stacks>>
    BY <1>3 DEF DropLayout, Locked, Ready
  <2>2. SetCall(t, Idle)
    BY <2>1, NextCalls DEF StateTypes
  <2>. QED BY <1>1, <2>1, <2>2 DEF GiveBack, Still, Free
<1>4. CASE DeallocLayout(t)
  <2>1. /\ call[t].pc = "dealloc" /\ halt = "no" /\ Free(LayoutFrees(call[t].lay))
        /\ call' = [call EXCEPT ![t].pc = "drop"] /\ UNCHANGED <<vmap, pt, lock, stacks>>
    BY <1>4 DEF DeallocLayout, Ready
  <2>2. PICK c \in Calls : SetCall(t, c) /\ c.pc = "drop" /\ c.lay = call[t].lay
    BY <2>1, NextCalls DEF StateTypes
  <2>. QED BY <2>1, <2>2 DEF GiveBack, Still, Free
<1>. QED
  BY <1>2, <1>3, <1>4

(* The lookup, and the calls that find their range gone. *)
LEMMA LookStep ==
  ASSUME MapInv(vmap, pt), StateTypes, NEW t \in Thread,
         Lookup(t) \/ RemapErr(t) \/ (UnmapCall(t) /\ ~ Known(call[t].zone, "VirtMem"))
  PROVE  Look(t)
<1>1. Idle \in Calls /\ Idle.pc = "idle"
  BY LayoutTypes
<1>2. CASE Lookup(t)
  <2>1. call[t].pc = "idle" /\ UNCHANGED <<vmap, pt, live, lock, stacks, halt>>
    BY <1>2 DEF Lookup, Locked, Ready
  <2>2. PICK z \in Zones :
         \/ call' = [call EXCEPT ![t] = [Idle EXCEPT !.pc = "unmap", !.zone = z]]
         \/ \E n \in Sizes, exact \in Exact, at \in At \cup {0} :
              call' = [call EXCEPT ![t] = [Idle EXCEPT !.pc = "remap", !.zone = z, !.size = n,
                                                       !.exact = exact, !.at = at]]
    BY <1>2 DEF Lookup
  <2>3. z \in [addr : Nat, size : Nat]
    BY DEF MapInv, Tiled, Ranges, Zones
  <2>4. \E c \in Calls : c.pc \in {"unmap", "remap"} /\ call' = [call EXCEPT ![t] = c]
    <3>1. CASE call' = [call EXCEPT ![t] = [Idle EXCEPT !.pc = "unmap", !.zone = z]]
      <4>. DEFINE c == [Idle EXCEPT !.pc = "unmap", !.zone = z]
      <4>1. c \in Calls /\ c.pc = "unmap"
        BY <2>3, NewCalls
      <4>. HIDE DEF c
      <4>2. call' = [call EXCEPT ![t] = c]
        BY <3>1 DEF c
      <4>. QED BY <4>1, <4>2
    <3>2. ASSUME NEW n \in Sizes, NEW x \in Exact, NEW a \in At \cup {0},
                 call' = [call EXCEPT ![t] = [Idle EXCEPT !.pc = "remap", !.zone = z, !.size = n,
                                                          !.exact = x, !.at = a]]
          PROVE  \E c \in Calls : c.pc \in {"unmap", "remap"} /\ call' = [call EXCEPT ![t] = c]
      <4>. DEFINE c == [Idle EXCEPT !.pc = "remap", !.zone = z, !.size = n, !.exact = x, !.at = a]
      <4>1. n \in Nat /\ x \in BOOLEAN /\ a \in Nat
        BY AddressSpaceConstants
      <4>2. Idle \in Calls
        BY LayoutTypes
      <4>3. c \in Calls /\ c.pc = "remap"
        BY <2>3, <4>1, <4>2 DEF Calls, Pcs
      <4>. HIDE DEF c
      <4>4. call' = [call EXCEPT ![t] = c]
        BY <3>2 DEF c
      <4>. QED BY <4>3, <4>4
    <3>. QED BY <2>2, <3>1, <3>2
  <2>5. PICK c \in Calls : c.pc \in {"unmap", "remap"} /\ call' = [call EXCEPT ![t] = c]
    BY <2>4
  <2>6. SetCall(t, c)
    BY <2>5, SetCallOf DEF StateTypes
  <2>. QED BY <2>1, <2>5, <2>6 DEF Look, Still
<1>3. CASE RemapErr(t)
  <2>1. /\ call[t].pc = "remap" /\ Done(t) /\ UNCHANGED <<vmap, pt, live, lock, stacks, halt>>
    BY <1>3 DEF RemapErr, Locked, Ready
  <2>2. SetCall(t, Idle)
    BY <2>1, NextCalls DEF StateTypes
  <2>. QED BY <1>1, <2>1, <2>2 DEF Look, Still
<1>4. CASE UnmapCall(t) /\ ~ Known(call[t].zone, "VirtMem")
  <2>1. /\ call[t].pc = "unmap" /\ Done(t) /\ UNCHANGED <<vmap, pt, live, lock, stacks, halt>>
    BY <1>4 DEF UnmapCall, Locked, Ready
  <2>2. SetCall(t, Idle)
    BY <2>1, NextCalls DEF StateTypes
  <2>. QED BY <1>1, <2>1, <2>2 DEF Look, Still
<1>. QED
  BY <1>2, <1>3, <1>4

(* realloc(addr, 0) and Stack::dealloc *)
LEMMA TakeOutStep ==
  ASSUME MapInv(vmap, pt), StateTypes, SyncInv, StackInv, NEW t \in Thread,
         StackFree(t) \/ (UnmapCall(t) /\ Known(call[t].zone, "VirtMem"))
  PROVE  MapInv(vmap', pt') /\ TakeOut(t)
<1>1. lock = NoThread /\ halt = "no" /\ call[t].pc \in {"idle", "unmap"} /\ lock' = lock
  BY DEF StackFree, UnmapCall, Locked, Ready
<1>2. ASSUME NEW z \in Zones, UnmapZone(z), Free(SyncFrees(vmap[z]))
      PROVE  /\ MapInv(vmap', pt') /\ Removed(z) /\ UNCHANGED <<live, halt>>
             /\ MarkUnmapped(vmap[z]) \in AnyLayouts
             /\ LayoutFrees(MarkUnmapped(vmap[z])) = LayoutFrees(vmap[z])
  <2>1. Synced(vmap[z])
    BY <1>1 DEF SyncInv
  <2>2. MapInv(vmap', pt') /\ Removed(z)
    BY <1>2, <2>1, UnmapEffect
  <2>3. /\ SyncFrees(vmap[z]) = {} /\ Fresh(MarkUnmapped(vmap[z]))
        /\ MarkUnmapped(vmap[z]).data = vmap[z].data
    BY <2>1, SyncedUnmaps
  <2>4. MarkUnmapped(vmap[z]).que = <<>> /\ vmap[z].que = <<>>
    BY <2>1, <2>3 DEF Fresh, Synced
  <2>5. UNCHANGED <<live, halt>>
    BY <1>2, <2>3 DEF Free
  <2>6. MarkUnmapped(vmap[z]) \in AnyLayouts
    BY <2>3, LayoutTypes DEF Fresh
  <2>. QED BY <2>2, <2>3, <2>4, <2>5, <2>6 DEF LayoutFrees
<1>3. CASE StackFree(t)
  <2>1. PICK z \in stacks :
          /\ stacks' = stacks \ {z}
          /\ IF Known(z, "Protected")
             THEN /\ UnmapZone(z)
                  /\ Free(SyncFrees(vmap[z]))
                  /\ call' = [call EXCEPT ![t] = [Idle EXCEPT !.pc = "dealloc",
                                                              !.lay = MarkUnmapped(vmap[z])]]
             ELSE halt' = "unwrap" /\ UNCHANGED <<vmap, pt, live, call>>
    BY <1>3 DEF StackFree
  <2>2. z \in Zones /\ vmap[z].atype = "Protected" /\ Known(z, "Protected")
    BY DEF StackInv, Known
  <2>. DEFINE N == MarkUnmapped(vmap[z])
              c == [Idle EXCEPT !.pc = "dealloc", !.lay = N]
  <2>3. /\ MapInv(vmap', pt') /\ Removed(z) /\ UNCHANGED <<live, halt>>
        /\ N \in AnyLayouts /\ LayoutFrees(N) = LayoutFrees(vmap[z])
    BY <1>2, <2>1, <2>2
  <2>4. call' = [call EXCEPT ![t] = c]
    BY <2>1, <2>2
  <2>. HIDE DEF N
  <2>5. c \in Calls /\ c.pc = "dealloc" /\ c.lay = N
    BY <2>3, NewCalls
  <2>. HIDE DEF c
  <2>6. SetCall(t, c)
    BY <2>4, <2>5, SetCallOf DEF StateTypes
  <2>. QED BY <1>1, <2>1, <2>2, <2>3, <2>5, <2>6 DEF TakeOut
<1>4. CASE UnmapCall(t) /\ Known(call[t].zone, "VirtMem")
  <2>. DEFINE z == call[t].zone
              N == MarkUnmapped(vmap[z])
  <2>1. /\ UnmapZone(z) /\ Free(SyncFrees(vmap[z])) /\ UNCHANGED <<lock, stacks>>
        /\ call' = [call EXCEPT ![t].pc = "dealloc", ![t].lay = N]
        /\ z \in Zones /\ vmap[z].atype = "VirtMem"
    BY <1>4 DEF UnmapCall, Known
  <2>. HIDE DEF z
  <2>2. /\ MapInv(vmap', pt') /\ Removed(z) /\ UNCHANGED <<live, halt>>
        /\ N \in AnyLayouts /\ LayoutFrees(N) = LayoutFrees(vmap[z])
    BY <1>2, <2>1
  <2>. HIDE DEF N
  <2>3. PICK c \in Calls : SetCall(t, c) /\ c.pc = "dealloc" /\ c.lay = N
    BY <2>1, <2>2, NextCalls DEF StateTypes
  <2>. QED BY <1>1, <2>1, <2>2, <2>3 DEF TakeOut
<1>. QED
  BY <1>3, <1>4

(* What a remap finds when it holds virt_map: a range of which all is      *)
(* mapped, and what realloc_func makes of its layout.                      *)
LEMMA RemapFinds ==
  ASSUME MapInv(vmap, pt), StateTypes, SyncInv, NEW t \in Thread,
         Locked(t, "remap"), Known(call[t].zone, "VirtMem")
  PROVE  /\ call[t].zone \in Zones /\ vmap[call[t].zone].atype = "VirtMem"
         /\ Synced(vmap[call[t].zone]) /\ call[t].zone \in Ranges
         /\ call[t].zone.size = Size(vmap[call[t].zone].data)
         /\ call[t].size \in Nat /\ call[t].exact \in BOOLEAN /\ call[t].at \in Nat
         /\ lock = NoThread /\ call[t].pc = "remap"
<1>. DEFINE z == call[t].zone
<1>1. z \in Zones /\ vmap[z].atype = "VirtMem" /\ lock = NoThread /\ call[t].pc = "remap"
  BY DEF Known, Locked, Ready
<1>2. call[t] \in Calls
  BY DEF StateTypes
<1>3. call[t].size \in Nat /\ call[t].exact \in BOOLEAN /\ call[t].at \in Nat
  BY <1>2 DEF Calls
<1>. HIDE DEF z
<1>4. Synced(vmap[z])
  BY <1>1 DEF SyncInv
<1>5. Mapped(vmap[z]) = vmap[z].data
  BY <1>4, SyncedUnmaps
<1>6. z \in Ranges /\ z.size = Size(vmap[z].data)
  BY <1>1, <1>5 DEF MapInv, Tiled, Laid, Zones
<1>. QED
  BY <1>1, <1>3, <1>4, <1>6 DEF z

(* remap and remap_at *)
LEMMA GrowStep ==
  ASSUME MapInv(vmap, pt), StateTypes, SyncInv, NEW t \in Thread, RemapOk(t)
  PROVE  MapInv(vmap', pt') /\ Grow(t)
<1>. DEFINE z == call[t].zone
            a == call[t].at
<1>1. /\ z \in Zones /\ vmap[z].atype = "VirtMem" /\ Synced(vmap[z])
      /\ z \in Ranges /\ z.size = Size(vmap[z].data)
      /\ call[t].size \in Nat /\ call[t].exact \in BOOLEAN /\ a \in Nat
      /\ lock = NoThread /\ call[t].pc = "remap"
  BY RemapFinds DEF RemapOk
<1>2. call[t].size >= Size(vmap[z].data) /\ Done(t) /\ UNCHANGED <<lock, stacks, halt>>
  BY DEF RemapOk
<1>. DEFINE NZ(L) == VirtRange(IF a = 0 THEN z.addr ELSE a, Size(L.data))
<1>3. PICK b \in Block \cup {NoBlock} :
        LET L == Grown(t, vmap[z], b)
        IN /\ GrowBlock(t, vmap[z], b)
           /\ \/ /\ FreeSpace(NZ(L), {z})
                 /\ IF NZ(L).addr = z.addr THEN InPlace(L, z, NZ(L)) ELSE Relocate(L, z, NZ(L))
              \/ /\ ~FreeSpace(NZ(L), {z}) /\ a = 0 /\ Candidates(Size(L.data)) # {}
                 /\ Relocate(L, z, FindRange(Size(L.data)))
           /\ live' = live \cup ({b} \ {NoBlock})
  BY DEF RemapOk
<1>. DEFINE L == Grown(t, vmap[z], b)
            n == Size(L.data)
            nz == NZ(L)
<1>4. /\ b \notin live
      /\ \/ b = NoBlock /\ L = vmap[z]
         \/ \E e \in Elem : /\ L = PushElement(vmap[z], e) /\ Owned(<<e>>) = {b} \ {NoBlock}
                            /\ Keeps(e)
  <2>1. live \subseteq Block /\ GrowBlock(t, vmap[z], b)
    BY <1>3 DEF StateTypes
  <2>. HIDE DEF z, nz, n, a, NZ
  <2>2. /\ Synced(vmap[z]) /\ call[t].size \in Nat /\ call[t].exact \in BOOLEAN
        /\ call[t].size >= Size(vmap[z].data) /\ b \in Block \cup {NoBlock}
    BY <1>1, <1>2
  <2>. HIDE DEF L
  <2>3. /\ b \notin live
        /\ \/ b = NoBlock /\ Grown(t, vmap[z], b) = vmap[z]
           \/ \E e \in Elem : /\ Grown(t, vmap[z], b) = PushElement(vmap[z], e)
                              /\ Owned(<<e>>) = {b} \ {NoBlock}
                              /\ Keeps(e)
    BY ONLY <2>1, <2>2, GrownCases
  <2>. QED BY <2>3 DEF L
<1>5. /\ \/ /\ FreeSpace(nz, {z})
            /\ IF nz.addr = z.addr THEN InPlace(L, z, nz) ELSE Relocate(L, z, nz)
         \/ /\ Candidates(n) # {} /\ Relocate(L, z, FindRange(n))
      /\ live' = live \cup ({b} \ {NoBlock})
  BY <1>3
<1>. HIDE DEF L
<1>6. /\ L.data \in Seq(Elem) /\ L.data # <<>> /\ vmap[z].data \in Seq(Elem)
      /\ \/ L.data = vmap[z].data
         \/ \E e \in Elem : Keeps(e) /\ L.data = Append(vmap[z].data, e)
  <2>1. vmap[z].data \in Seq(Elem) /\ vmap[z].data # <<>>
    BY <1>1 DEF Synced, Layouts, Elems
  <2>2. ASSUME NEW e \in Elem, L = PushElement(vmap[z], e)
        PROVE  L.data = Append(vmap[z].data, e)
    BY <1>1, <2>2, PushedMaps DEF Ranges
  <2>. HIDE DEF z
  <2>3. ASSUME NEW e \in Elem, L.data = Append(vmap[z].data, e)
        PROVE  L.data \in Seq(Elem) /\ L.data # <<>>
    BY <2>1, <2>3
  <2>4. CASE L = vmap[z]
    BY <2>1, <2>4
  <2>5. ASSUME NEW e \in Elem, L = PushElement(vmap[z], e), Keeps(e)
        PROVE  L.data = Append(vmap[z].data, e) /\ L.data \in Seq(Elem) /\ L.data # <<>>
    BY <2>2, <2>3, <2>5
  <2>. QED BY <1>4, <2>1, <2>4, <2>5
<1>7. n \in Nat /\ n >= 1
  BY <1>6, SizeOf
<1>8. Tiled(vmap)
  BY DEF MapInv
<1>. HIDE DEF z, a, n
<1>9. z.addr \in Nat /\ z.size \in Nat /\ z.size >= 1 /\ End(z) = z.addr + z.size
  BY <1>1 DEF Ranges, End
<1>10. nz \in [addr : Nat, size : Nat] /\ nz.size = n
  BY <1>1, <1>7, <1>9 DEF VirtRange, n
<1>11. \E y \in Ranges : /\ y.size = n /\ \A x \in Zones \ {z} : Apart(x, y)
                         /\ \/ Relocate(L, z, y)
                            \/ y.addr = z.addr /\ InPlace(L, z, y) /\ L # vmap[z]
  <2>. HIDE DEF nz
  <2>1. CASE FreeSpace(nz, {z}) /\ IF nz.addr = z.addr THEN InPlace(L, z, nz) ELSE Relocate(L, z, nz)
    <3>1. nz \in Ranges /\ \A y \in Zones \ {z} : Apart(y, nz)
      BY <1>7, <1>8, <1>10, <2>1, FreeSpaceApart
    <3>2. ASSUME nz.addr = z.addr, L = vmap[z] PROVE FALSE
      <4>1. nz.size = z.size
        BY <1>1, <1>10, <3>2 DEF n
      <4>2. nz = z
        BY <1>1, <1>10, <3>2, <4>1 DEF Ranges
      <4>3. ~ Less(z, nz)
        BY <1>9, <4>2 DEF Less
      <4>4. End(nz) <= z.addr
        BY <1>1, <1>8, <1>10, <2>1, <4>3, AboveApart
      <4>. QED BY <1>9, <4>2, <4>4
    <3>. QED BY <1>10, <2>1, <3>1, <3>2
  <2>2. CASE Candidates(n) # {} /\ Relocate(L, z, FindRange(n))
    <3>1. FindRange(n) \in Ranges /\ FindRange(n).size = n /\ \A y \in Zones : Apart(y, FindRange(n))
      BY <1>7, <1>8, <2>2, FindRangeApart
    <3>. QED BY <2>2, <3>1
  <2>. QED BY <1>5, <2>1, <2>2
<1>12. PICK y \in Ranges : /\ y.size = n /\ \A x \in Zones \ {z} : Apart(x, y)
                           /\ \/ Relocate(L, z, y)
                              \/ y.addr = z.addr /\ InPlace(L, z, y) /\ L # vmap[z]
  BY <1>11
<1>13. /\ MapInv(vmap', pt')
       /\ \E M : Moved(z, y, M) /\ Synced(M) /\ M.data = L.data /\ M.atype = vmap[z].atype
  <2>1. L = vmap[z] \/ \E e \in Elem : L = PushElement(vmap[z], e)
    BY <1>4
  <2>2. y.size = Size(L.data)
    BY <1>12 DEF n
  <2>. QED BY <1>1, <1>12, <2>1, <2>2, RemapEffect
<1>14. PICK M : Moved(z, y, M) /\ Synced(M) /\ M.data = L.data /\ M.atype = vmap[z].atype
  BY <1>13
<1>15. LayoutFrees(M) = LayoutFrees(vmap[z]) \cup ({b} \ {NoBlock})
  <2>1. LayoutFrees(M) = Owned(L.data) /\ LayoutFrees(vmap[z]) = Owned(vmap[z].data)
    BY <1>1, <1>14, FreesOf DEF Synced
  <2>2. CASE b = NoBlock /\ L = vmap[z]
    BY <2>1, <2>2
  <2>3. ASSUME NEW e \in Elem, L = PushElement(vmap[z], e), Owned(<<e>>) = {b} \ {NoBlock}
        PROVE  LayoutFrees(M) = LayoutFrees(vmap[z]) \cup ({b} \ {NoBlock})
    <3>1. L.data = Append(vmap[z].data, e)
      BY <1>1, <1>9, <2>3, PushedMaps
    <3>2. Owned(Append(vmap[z].data, e)) = Owned(vmap[z].data) \cup Owned(<<e>>)
      BY <1>6, FreesOf
    <3>. QED BY <2>1, <2>3, <3>1, <3>2
  <2>. QED BY <1>4, <2>2, <2>3
<1>16. SetCall(t, Idle)
  BY <1>2, NextCalls DEF StateTypes
<1>17. M \in Layouts /\ M.atype = "VirtMem"
  BY <1>1, <1>14 DEF Synced
<1>18. \/ M.data = vmap[z].data
       \/ \E e \in Elem : Keeps(e) /\ M.data = Append(vmap[z].data, e)
  BY <1>6, <1>14
<1>19. Grow(t)
  BY <1>1, <1>2, <1>4, <1>5, <1>14, <1>15, <1>16, <1>17, <1>18 DEF Grow
<1>. QED
  BY <1>13, <1>19

(* No space for the larger range. *)
LEMMA RevertStep ==
  ASSUME MapInv(vmap, pt), StateTypes, SyncInv, NEW t \in Thread, RemapRevert(t)
  PROVE  Look(t)
<1>. DEFINE z == call[t].zone
<1>1. /\ z \in Zones /\ vmap[z].atype = "VirtMem" /\ Synced(vmap[z]) /\ z.addr \in Nat
      /\ call[t].size \in Nat /\ call[t].exact \in BOOLEAN
      /\ lock = NoThread /\ call[t].pc = "remap"
  BY RemapFinds DEF RemapRevert, Ranges
<1>2. call[t].size >= Size(vmap[z].data) /\ Done(t) /\ UNCHANGED <<pt, lock, stacks, halt>>
  BY DEF RemapRevert
<1>3. PICK b \in Block \cup {NoBlock} :
        LET L == Grown(t, vmap[z], b)
        IN /\ GrowBlock(t, vmap[z], b)
           /\ vmap' = [vmap EXCEPT ![z] = Revert(L)]
           /\ live' = (live \cup ({b} \ {NoBlock})) \ RevertFrees(L)
  BY DEF RemapRevert
<1>. DEFINE L == Grown(t, vmap[z], b)
<1>. HIDE DEF z
<1>4. /\ b \notin live
      /\ \/ b = NoBlock /\ L = vmap[z]
         \/ \E e \in Elem : L = PushElement(vmap[z], e) /\ Owned(<<e>>) = {b} \ {NoBlock}
  <2>1. live \subseteq Block /\ GrowBlock(t, vmap[z], b)
    BY <1>3 DEF StateTypes
  <2>2. /\ Synced(vmap[z]) /\ call[t].size \in Nat /\ call[t].exact \in BOOLEAN
        /\ call[t].size >= Size(vmap[z].data) /\ b \in Block \cup {NoBlock}
    BY <1>1, <1>2
  <2>. HIDE DEF L
  <2>3. /\ b \notin live
        /\ \/ b = NoBlock /\ Grown(t, vmap[z], b) = vmap[z]
           \/ \E e \in Elem : /\ Grown(t, vmap[z], b) = PushElement(vmap[z], e)
                              /\ Owned(<<e>>) = {b} \ {NoBlock} /\ Keeps(e)
    BY ONLY <2>1, <2>2, GrownCases
  <2>. QED BY <2>3 DEF L
<1>5. vmap' = [vmap EXCEPT ![z] = Revert(L)] /\ live' = (live \cup ({b} \ {NoBlock})) \ RevertFrees(L)
  BY <1>3
<1>. HIDE DEF L
<1>6. Revert(L) = vmap[z] /\ RevertFrees(L) = {b} \ {NoBlock}
  <2>1. CASE b = NoBlock /\ L = vmap[z]
    BY <1>1, <2>1, UnchangedMaps
  <2>2. ASSUME NEW e \in Elem, L = PushElement(vmap[z], e), Owned(<<e>>) = {b} \ {NoBlock}
        PROVE  Revert(L) = vmap[z] /\ RevertFrees(L) = {b} \ {NoBlock}
    BY <1>1, <2>2, PushedMaps
  <2>. QED BY <1>4, <2>1, <2>2
<1>7. live' = live
  BY <1>4, <1>5, <1>6
<1>8. Still
  BY <1>2, <1>5, <1>6 DEF Still
<1>9. SetCall(t, Idle) /\ Idle \in Calls /\ Idle.pc = "idle"
  BY <1>2, NextCalls, LayoutTypes DEF StateTypes
<1>. QED
  BY <1>1, <1>2, <1>7, <1>8, <1>9 DEF Look, Still

(* A range that shrinks. *)
LEMMA StickStep ==
  ASSUME MapInv(vmap, pt), StateTypes, SyncInv, NEW t \in Thread, RemapShrink(t)
  PROVE  Stick(t)
<1>. DEFINE z == call[t].zone
            n == call[t].size
<1>1. /\ z \in Zones /\ vmap[z].atype = "VirtMem" /\ Synced(vmap[z])
      /\ n \in Nat /\ lock = NoThread /\ call[t].pc = "remap"
  BY RemapFinds DEF RemapShrink
<1>2. /\ n < Size(vmap[z].data) /\ vmap' = [vmap EXCEPT ![z] = Shrunk(vmap[z], n)]
      /\ lock' = t /\ call' = [call EXCEPT ![t].pc = "spin"] /\ UNCHANGED <<pt, live, stacks, halt>>
  BY DEF RemapShrink
<1>. HIDE DEF z, n
<1>3. PICK c \in Calls : SetCall(t, c) /\ c.pc = "spin"
  BY <1>2, NextCalls DEF StateTypes
<1>4. /\ Shrunk(vmap[z], n) \in Layouts /\ Mapped(Shrunk(vmap[z], n)) = vmap[z].data
      /\ Shrunk(vmap[z], n).atype = vmap[z].atype
      /\ LayoutFrees(Shrunk(vmap[z], n)) = LayoutFrees(vmap[z])
  BY <1>1, <1>2, ShrunkMapped
<1>5. Mapped(vmap[z]) = vmap[z].data
  BY <1>1, SyncedUnmaps
<1>6. DOMAIN vmap' = DOMAIN vmap /\ vmap'[z] = Shrunk(vmap[z], n)
      /\ \A y \in DOMAIN vmap \ {z} : vmap'[y] = vmap[y]
  BY <1>1, <1>2 DEF Zones
<1>7. \A y \in DOMAIN vmap : vmap[y] \in Layouts
  BY DEF MapInv, Laid
<1>8. Kept
  BY <1>1, <1>2, <1>4, <1>5, <1>6, <1>7 DEF Kept
<1>. QED
  BY <1>1, <1>2, <1>3, <1>8 DEF Stick

(* A map whose layouts are mapped as they were. *)
LEMMA SameTable ==
  ASSUME NEW m, NEW p, MapInv(m, p), NEW n, DOMAIN n = DOMAIN m,
         \A y \in DOMAIN m : n[y] \in Layouts /\ Mapped(n[y]) = Mapped(m[y])
  PROVE  MapInv(n, p) /\ RegionsOf(n) = RegionsOf(m)
<1>1. \A y \in DOMAIN m : ZoneCells(n, y) = ZoneCells(m, y) /\ Region(n, y) = Region(m, y)
  BY DEF ZoneCells, Region
<1>2. Tiled(n)
  BY DEF MapInv, Tiled
<1>3. Laid(n)
  BY DEF MapInv, Laid
<1>4. Table(n) = Table(m)
  BY <1>1 DEF Table
<1>5. RegionsOf(n) = RegionsOf(m)
  BY <1>1 DEF RegionsOf
<1>. QED
  BY <1>2, <1>3, <1>4, <1>5 DEF MapInv

(* Where no layout changes, or only its slices do. *)
LEMMA KeptInv ==
  ASSUME MapInv(vmap, pt), Still \/ Kept
  PROVE  Kept /\ MapInv(vmap', pt') /\ RegionsOf(vmap') = RegionsOf(vmap)
<1>1. \A y \in DOMAIN vmap : vmap[y] \in Layouts
  BY DEF MapInv, Laid
<1>2. Kept
  BY <1>1 DEF Kept, Still
<1>3. /\ DOMAIN vmap' = DOMAIN vmap /\ pt' = pt
      /\ \A y \in DOMAIN vmap : vmap'[y] \in Layouts /\ Mapped(vmap'[y]) = Mapped(vmap[y])
  BY <1>2 DEF Kept
<1>4. MapInv(vmap', pt) /\ RegionsOf(vmap') = RegionsOf(vmap)
  BY <1>3, SameTable
<1>. QED
  BY <1>2, <1>3, <1>4

(* Every step of the address space has one of the effects. *)
LEMMA AsStep ==
  ASSUME MapInv(vmap, pt), StateTypes, SyncInv, CallInv, StackInv, NEW t \in Thread, AsNext(t)
  PROVE  MapInv(vmap', pt') /\ AsEffect(t)
<1>1. CASE ReallocNew(t) \/ StackNew(t)
  <2>1. Take(t)
    BY <1>1, ReallocNewStep, StackNewStep
  <2>2. Still
    BY <2>1 DEF Take
  <2>. QED BY <2>1, <2>2, KeptInv DEF AsEffect
<1>2. CASE MapOk(t)
  BY <1>2, MapOkStep DEF AsEffect
<1>3. CASE MapErr(t) \/ DeallocLayout(t) \/ DropLayout(t)
  <2>1. GiveBack(t)
    BY <1>3, GiveBackStep
  <2>2. Still
    BY <2>1 DEF GiveBack
  <2>. QED BY <2>1, <2>2, KeptInv DEF AsEffect
<1>4. CASE Lookup(t) \/ RemapErr(t) \/ (UnmapCall(t) /\ ~ Known(call[t].zone, "VirtMem")) \/ RemapRevert(t)
  <2>1. Look(t)
    BY <1>4, LookStep, RevertStep
  <2>2. Still
    BY <2>1 DEF Look
  <2>. QED BY <2>1, <2>2, KeptInv DEF AsEffect
<1>5. CASE StackFree(t) \/ (UnmapCall(t) /\ Known(call[t].zone, "VirtMem"))
  BY <1>5, TakeOutStep DEF AsEffect
<1>6. CASE RemapOk(t)
  BY <1>6, GrowStep DEF AsEffect
<1>7. CASE RemapShrink(t)
  <2>1. Stick(t)
    BY <1>7, StickStep
  <2>2. Kept
    BY <2>1 DEF Stick
  <2>. QED BY <2>1, <2>2, KeptInv DEF AsEffect
<1>. QED
  BY <1>1, <1>2, <1>3, <1>4, <1>5, <1>6, <1>7 DEF AsNext

-----------------------------------------------------------------------------
(* What the calls on capabilities come to.                                 *)

(* The layout of a shared memory. *)
LEMMA SmemLayoutFresh ==
  ASSUME NEW o \in Block, NEW id, id.flags \in FlagSets
  PROVE  LET L == SmemLayout(o, id)
         IN /\ Fresh(L) /\ L.atype = "Shared" /\ LayoutFrees(L) = {}
            /\ Len(L.data) = 1 /\ L.data[1] \in Elem /\ L.data[1].blk = o /\ L.data[1].flags = id.flags
<1>. DEFINE e == Element(o, FALSE, AllocLen(SmemPages), id.flags)
            L == SmemLayout(o, id)
<1>1. AllocLen(SmemPages) \in Nat \ {0}
  BY CapabilityConstants, AllocLenType
<1>2. e \in Elem /\ e.blk = o /\ e.flags = id.flags /\ e.own = FALSE
  BY <1>1 DEF Element, Elem, FlagSets
<1>3. L = Layout(<<e>>, "Shared")
  BY DEF SmemLayout
<1>. HIDE DEF e, L
<1>4. <<e>> \in Seq(Elem) /\ <<e>> # <<>> /\ Len(<<e>>) = 1 /\ <<e>>[1] = e
  BY <1>2
<1>5. Fresh(L) /\ L.data = <<e>> /\ L.atype = "Shared"
  BY <1>3, <1>4, LayoutTypes
<1>6. Owned(<<e>>) = {}
  <2>1. Owned(<<e>>) = IF e.own THEN {e.blk} ELSE {}
    BY FreesOf
  <2>. QED BY <1>2, <2>1
<1>7. LayoutFrees(L) = {}
  BY <1>5, <1>6, FreesOf DEF Fresh
<1>. QED
  BY <1>2, <1>4, <1>5, <1>7 DEF L

(* A capability with the rights f to the object o gets an id. *)
Inserted(o, f) ==
  \E id : /\ id.flags = f /\ DOMAIN caps' = DOMAIN caps \cup {id}
          /\ \A i \in DOMAIN caps' : caps'[i] = IF i \in DOMAIN caps THEN caps[i] ELSE o
          /\ nextId < MaxIds /\ nextId' = nextId + 1

(* A shared memory is made. *)
NewObject ==
  \E b \in Block, f \in FlagSets :
    /\ b \notin live /\ live' = live \cup {b} /\ Inserted(b, f)
    /\ DOMAIN capData' = DOMAIN capData \cup {b} /\ DOMAIN made' = DOMAIN made \cup {b}
    /\ DOMAIN capData'[b] = {} /\ made'[b] = f
    /\ \A o \in DOMAIN capData \ {b} : capData'[o] = capData[o]
    /\ \A o \in DOMAIN made \ {b} : made'[o] = made[o]
    /\ Still /\ UNCHANGED <<lock, stacks, call, halt>>

(* A copy is made, and gets an id. *)
Copied(t) ==
  \E c \in Calls, id \in DOMAIN caps, f \in Rights :
    /\ call[t].pc = "idle" /\ SetCall(t, c) /\ c.pc = "clone"
    /\ Len(c.lay.data) = 1 /\ c.lay.data[1].blk = caps[id]
    /\ c.lay.data[1].flags = id.flags \cap f
    /\ Still /\ UNCHANGED <<live, lock, stacks, halt, capVars>>

CopyInserted(t) ==
  /\ call[t].pc = "clone" /\ SetCall(t, Idle)
  /\ Inserted(call[t].lay.data[1].blk, call[t].lay.data[1].flags)
  /\ Still /\ UNCHANGED <<live, lock, stacks, halt, capData, made>>

(* A capability goes, and with it perhaps an object that no other          *)
(* capability and no copy refers to.                                       *)
Destroyed ==
  /\ DOMAIN caps' \subseteq DOMAIN caps /\ \A i \in DOMAIN caps' : caps'[i] = caps[i]
  /\ DOMAIN capData' \subseteq DOMAIN capData
  /\ \A o \in DOMAIN capData' : capData'[o] = capData[o]
  /\ \A o \in DOMAIN capData \ DOMAIN capData' :
       /\ \A i \in DOMAIN caps' : caps[i] # o
       /\ \A u \in Thread : call[u].pc = "clone" => call[u].lay.data[1].blk # o
  /\ Still /\ UNCHANGED <<live, lock, stacks, call, halt, nextId, made>>

(* The object of an id gets a range. *)
Shared ==
  \E id \in DOMAIN caps, z \in Ranges, L \in Layouts :
    LET o == caps[id]
    IN /\ id \notin DOMAIN capData[o] /\ Added(z, L) /\ Synced(L) /\ L.atype = "Shared"
       /\ L.data = SmemLayout(o, id).data /\ LayoutFrees(L) = {}
       /\ DOMAIN capData' = DOMAIN capData
       /\ \A p \in DOMAIN capData \ {o} : capData'[p] = capData[p]
       /\ DOMAIN capData'[o] = DOMAIN capData[o] \cup {id} /\ capData'[o][id] = z
       /\ \A i \in DOMAIN capData[o] : capData'[o][i] = capData[o][i]
       /\ UNCHANGED <<live, lock, stacks, call, halt, caps, nextId, made>>

(* The range of an id goes. *)
Unshared ==
  \E id \in DOMAIN caps :
    LET o == caps[id]
        z == capData[o][id]
    IN /\ id \in DOMAIN capData[o] /\ lock = NoThread /\ Removed(z)
       /\ DOMAIN capData' = DOMAIN capData
       /\ \A p \in DOMAIN capData \ {o} : capData'[p] = capData[p]
       /\ DOMAIN capData'[o] = DOMAIN capData[o] \ {id}
       /\ \A i \in DOMAIN capData[o] \ {id} : capData'[o][i] = capData[o][i]
       /\ UNCHANGED <<live, lock, stacks, call, halt, caps, nextId, made>>

CapEffect(t) ==
  NewObject \/ Copied(t) \/ CopyInserted(t) \/ Destroyed \/ Shared \/ Unshared

(* CapMap::insert *)
LEMMA InsertCapStep ==
  ASSUME NEW o, NEW f, InsertCap(o, f)
  PROVE  Inserted(o, f)
<1>. DEFINE id == CapId(nextId, f)
<1>1. id.flags = f
  BY DEF CapId
<1>2. /\ caps' = [i \in DOMAIN caps \cup {id} |-> IF i \in DOMAIN caps THEN caps[i] ELSE o]
      /\ nextId < MaxIds /\ nextId' = nextId + 1
  BY DEF InsertCap
<1>. HIDE DEF id
<1>3. /\ DOMAIN caps' = DOMAIN caps \cup {id}
      /\ \A i \in DOMAIN caps' : caps'[i] = IF i \in DOMAIN caps THEN caps[i] ELSE o
  BY <1>2
<1>. QED
  BY <1>1, <1>2, <1>3 DEF Inserted

(* smem_new *)
LEMMA SmemNewStep ==
  ASSUME NEW t \in Thread, SmemNew(t)
  PROVE  NewObject
<1>1. PICK b \in Block, f \in Rights :
        /\ AllocBlock({"r"}, b) /\ InsertCap(b, f)
        /\ capData' = [o \in DOMAIN capData \cup {b} |-> IF o = b THEN <<>> ELSE capData[o]]
        /\ made' = [o \in DOMAIN made \cup {b} |-> IF o = b THEN f ELSE made[o]]
  BY DEF SmemNew
<1>2. f \in FlagSets
  BY CapabilityConstants DEF FlagSets
<1>3. b \notin live /\ live' = live \cup {b}
  BY <1>1 DEF AllocBlock
<1>4. Inserted(b, f)
  BY <1>1, InsertCapStep
<1>5. /\ DOMAIN capData' = DOMAIN capData \cup {b} /\ capData'[b] = <<>>
      /\ \A o \in DOMAIN capData \ {b} : capData'[o] = capData[o]
  BY <1>1
<1>6. /\ DOMAIN made' = DOMAIN made \cup {b} /\ made'[b] = f
      /\ \A o \in DOMAIN made \ {b} : made'[o] = made[o]
  BY <1>1
<1>7. DOMAIN <<>> = {}
  OBVIOUS
<1>8. Still /\ UNCHANGED <<lock, stacks, call, halt>>
  BY DEF SmemNew, Still
<1>. QED
  BY <1>2, <1>3, <1>4, <1>5, <1>6, <1>7, <1>8 DEF NewObject

(* cap_clone: the copy *)
LEMMA CapCloneStep ==
  ASSUME StateTypes, CapTypes, NEW t \in Thread, CapClone(t)
  PROVE  Copied(t)
<1>1. PICK id \in DOMAIN caps, f \in Rights :
        call' = [call EXCEPT ![t] = [Idle EXCEPT !.pc = "clone",
                   !.lay = Layout(<<Element(caps[id], FALSE, 0, AndFlags(id, f))>>, "Shared")]]
  BY DEF CapClone
<1>. DEFINE g == AndFlags(id, f)
            e == Element(caps[id], FALSE, 0, g)
            s == <<e>>
            L == Layout(s, "Shared")
            c == [Idle EXCEPT !.pc = "clone", !.lay = L]
<1>2. caps[id] \in Block /\ id.flags \in FlagSets
  BY DEF CapTypes
<1>3. g = id.flags \cap f /\ g \in FlagSets
  BY <1>2 DEF AndFlags, FlagSets
<1>. HIDE DEF g
<1>. DEFINE A == [blk : Block \cup {NoBlock}, own : BOOLEAN, size : Nat, flags : FlagSets]
<1>4. e \in A /\ e.blk = caps[id] /\ e.flags = g
  BY <1>2, <1>3 DEF Element
<1>. HIDE DEF e, A
<1>5. s \in Seq(A) /\ Len(s) = 1 /\ s[1] = e /\ <<>> \in Seq(A)
  BY <1>4
<1>6. s \in AnyElems /\ <<>> \in AnyElems
  BY <1>5 DEF AnyElems, A
<1>. HIDE DEF s
<1>7. L \in AnyLayouts /\ L.data = s
  BY <1>6 DEF Layout, AnyLayouts
<1>8. call' = [call EXCEPT ![t] = c]
  BY <1>1 DEF s, e, g
<1>. HIDE DEF L
<1>9. c \in Calls /\ c.pc = "clone" /\ c.lay = L
  BY <1>7, NewCalls
<1>. HIDE DEF c
<1>10. SetCall(t, c)
  BY <1>8, <1>9, SetCallOf DEF StateTypes
<1>11. call[t].pc = "idle" /\ Still /\ UNCHANGED <<live, lock, stacks, halt, capVars>>
  BY DEF CapClone, Ready, Still
<1>. QED
  BY <1>3, <1>4, <1>5, <1>7, <1>9, <1>10, <1>11 DEF Copied

(* cap_clone: the insertion; cap_destroy *)
LEMMA InsertDestroyStep ==
  ASSUME StateTypes, NEW t \in Thread, CloneInsert(t) \/ CapDestroy(t)
  PROVE  CopyInserted(t) \/ Destroyed
<1>1. CASE CloneInsert(t)
  <2>1. /\ call[t].pc = "clone" /\ Done(t) /\ Still
        /\ UNCHANGED <<live, lock, stacks, halt, capData, made>>
        /\ InsertCap(call[t].lay.data[1].blk, call[t].lay.data[1].flags)
    BY <1>1 DEF CloneInsert, Ready, Still
  <2>2. SetCall(t, Idle)
    BY <2>1, NextCalls DEF StateTypes
  <2>. QED BY <2>1, <2>2, InsertCapStep DEF CopyInserted
<1>2. CASE CapDestroy(t)
  <2>1. PICK id \in DOMAIN caps :
          /\ caps' = [i \in DOMAIN caps \ {id} |-> caps[i]]
          /\ capData' = [o \in {p \in DOMAIN capData :
                                  p # caps[id] \/ Referenced(p, DOMAIN caps \ {id})} |-> capData[o]]
    BY <1>2 DEF CapDestroy
  <2>2. DOMAIN caps' = DOMAIN caps \ {id} /\ \A i \in DOMAIN caps' : caps'[i] = caps[i]
    BY <2>1
  <2>3. /\ DOMAIN capData' \subseteq DOMAIN capData
        /\ \A o \in DOMAIN capData' : capData'[o] = capData[o]
    BY <2>1
  <2>4. \A o \in DOMAIN capData \ DOMAIN capData' : ~ Referenced(o, DOMAIN caps')
    BY <2>1, <2>2
  <2>5. \A o \in DOMAIN capData \ DOMAIN capData' :
          /\ \A i \in DOMAIN caps' : caps[i] # o
          /\ \A u \in Thread : call[u].pc = "clone" => call[u].lay.data[1].blk # o
    BY <2>4 DEF Referenced
  <2>6. Still /\ UNCHANGED <<live, lock, stacks, call, halt, nextId, made>>
    BY <1>2 DEF CapDestroy, asVars, Still
  <2>. QED BY <2>2, <2>3, <2>5, <2>6 DEF Destroyed
<1>. QED
  BY <1>1, <1>2

(* cap_map *)
LEMMA CapMapStep ==
  ASSUME MapInv(vmap, pt), CapTypes, NEW t \in Thread, CapMapCall(t)
  PROVE  MapInv(vmap', pt') /\ Shared
<1>1. PICK id \in DOMAIN caps, a \in At \cup {0} :
        id \notin DOMAIN capData[caps[id]] /\ MapAndRecord(id, caps[id], a)
  BY DEF CapMapCall
<1>. DEFINE o == caps[id]
            L == SmemLayout(o, id)
            M == SyncMem(L)
<1>2. o \in Block /\ o \in DOMAIN capData /\ id.flags \in FlagSets /\ a \in Nat
  BY AddressSpaceConstants DEF CapTypes
<1>3. PICK z \in MapTarget(L, a) :
        /\ MapInto(L, z)
        /\ capData' = [capData EXCEPT ![o] = [i \in DOMAIN capData[o] \cup {id} |->
                                                IF i = id THEN z ELSE capData[o][i]]]
  BY <1>1 DEF MapAndRecord
<1>. HIDE DEF o
<1>4. Fresh(L) /\ L.atype = "Shared" /\ LayoutFrees(L) = {}
  BY <1>2, SmemLayoutFresh
<1>. HIDE DEF L
<1>5. /\ MapInv(vmap', pt') /\ Added(z, M) /\ Synced(M) /\ M.data = L.data /\ M.atype = L.atype
  BY <1>2, <1>3, <1>4, MapEffect
<1>6. z \in Ranges
  <2>1. Tiled(vmap)
    BY DEF MapInv
  <2>. QED BY <1>2, <1>3, <1>4, <2>1, MapTargetFits
<1>. HIDE DEF M
<1>7. M \in Layouts /\ LayoutFrees(M) = {}
  <2>1. M.que = <<>> /\ L.que = <<>>
    BY <1>4, <1>5 DEF Synced, Fresh
  <2>2. LayoutFrees(M) = LayoutFrees(L)
    BY <1>5, <2>1 DEF LayoutFrees
  <2>. QED BY <1>4, <1>5, <2>2 DEF Synced
<1>8. /\ DOMAIN capData' = DOMAIN capData
      /\ \A p \in DOMAIN capData \ {o} : capData'[p] = capData[p]
      /\ capData'[o] = [i \in DOMAIN capData[o] \cup {id} |-> IF i = id THEN z ELSE capData[o][i]]
  BY <1>2, <1>3
<1>9. id \notin DOMAIN capData[o]
  BY <1>1 DEF o
<1>10. /\ DOMAIN capData'[o] = DOMAIN capData[o] \cup {id} /\ capData'[o][id] = z
       /\ \A i \in DOMAIN capData[o] : capData'[o][i] = capData[o][i]
  BY <1>8, <1>9
<1>11. UNCHANGED <<live, lock, stacks, call, halt, caps, nextId, made>>
  BY DEF CapMapCall
<1>12. Shared
  BY <1>4, <1>5, <1>6, <1>7, <1>8, <1>9, <1>10, <1>11 DEF Shared, o, L
<1>. QED
  BY <1>5, <1>12

(* cap_unmap *)
LEMMA CapUnmapStep ==
  ASSUME MapInv(vmap, pt), CapTypes, SyncInv, RecordInv, NEW t \in Thread, CapUnmap(t)
  PROVE  MapInv(vmap', pt') /\ Unshared
<1>1. PICK id \in DOMAIN caps :
        /\ id \in DOMAIN capData[caps[id]]
        /\ LET z == capData[caps[id]][id]
           IN IF Known(z, "Shared")
              THEN /\ UnmapZone(z)
                   /\ capData' = [capData EXCEPT ![caps[id]] = Forget(@, id)]
                   /\ UNCHANGED halt
              ELSE halt' = "unwrap" /\ UNCHANGED <<vmap, pt, capData>>
  BY DEF CapUnmap
<1>2. lock = NoThread /\ UNCHANGED <<live, lock, stacks, call, caps, nextId, made>>
  BY DEF CapUnmap, Locked
<1>. DEFINE o == caps[id]
            z == capData[o][id]
<1>3. o \in DOMAIN capData /\ id \in DOMAIN capData[o]
  BY <1>1 DEF CapTypes
<1>4. z \in Zones /\ vmap[z].atype = "Shared" /\ Known(z, "Shared")
  BY <1>3 DEF RecordInv, Known
<1>5. /\ UnmapZone(z) /\ capData' = [capData EXCEPT ![o] = Forget(capData[o], id)] /\ UNCHANGED halt
  BY <1>1, <1>4
<1>. HIDE DEF z, o
<1>6. Synced(vmap[z])
  BY <1>2, <1>4 DEF SyncInv
<1>7. MapInv(vmap', pt') /\ Removed(z)
  BY <1>4, <1>5, <1>6, UnmapEffect
<1>8. /\ DOMAIN capData' = DOMAIN capData
      /\ \A p \in DOMAIN capData \ {o} : capData'[p] = capData[p]
      /\ capData'[o] = [i \in DOMAIN capData[o] \ {id} |-> capData[o][i]]
  BY <1>3, <1>5 DEF Forget
<1>9. /\ DOMAIN capData'[o] = DOMAIN capData[o] \ {id}
      /\ \A i \in DOMAIN capData[o] \ {id} : capData'[o][i] = capData[o][i]
  BY <1>8
<1>10. Unshared
  BY <1>2, <1>3, <1>5, <1>7, <1>8, <1>9 DEF Unshared, z, o
<1>. QED
  BY <1>7, <1>10

(* What any step of a thread comes to. *)
Effect(t) == (AsEffect(t) /\ UNCHANGED capVars) \/ CapEffect(t)

(* Every step of a thread has one of the effects, and keeps the tables     *)
(* exact.                                                                  *)
LEMMA NextStep ==
  ASSUME Inv, NEW t \in Thread,
         \/ AsNext(t) /\ UNCHANGED capVars
         \/ SmemNew(t) \/ CapClone(t) \/ CloneInsert(t) \/ CapDestroy(t) \/ CapMapCall(t) \/ CapUnmap(t)
  PROVE  MapInv(vmap', pt') /\ Effect(t)
<1>0. MapInv(vmap, pt) /\ StateTypes /\ CapTypes /\ SyncInv /\ CallInv /\ StackInv /\ RecordInv
  BY DEF Inv
<1>1. CASE AsNext(t) /\ UNCHANGED capVars
  BY <1>0, <1>1, AsStep DEF Effect
<1>2. CASE SmemNew(t) \/ CapClone(t) \/ CloneInsert(t) \/ CapDestroy(t)
  <2>1. NewObject \/ Copied(t) \/ CopyInserted(t) \/ Destroyed
    BY <1>0, <1>2, SmemNewStep, CapCloneStep, InsertDestroyStep
  <2>2. Still
    BY <2>1 DEF NewObject, Copied, CopyInserted, Destroyed
  <2>. QED BY <1>0, <2>1, <2>2, KeptInv DEF Effect, CapEffect
<1>3. CASE CapMapCall(t)
  BY <1>0, <1>3, CapMapStep DEF Effect, CapEffect
<1>4. CASE CapUnmap(t)
  BY <1>0, <1>4, CapUnmapStep DEF Effect, CapEffect
<1>. QED
  BY <1>1, <1>2, <1>3, <1>4

-----------------------------------------------------------------------------
(* The parts of the invariant.                                             *)

(* The variables of the address space have their types. *)
LEMMA StateTypesStep ==
  ASSUME StateTypes, CapTypes, NEW t \in Thread, Effect(t)
  PROVE  StateTypes'
<1>. USE DEF StateTypes
<1>1. CASE Take(t)
  BY <1>1, AddressSpaceConstants DEF Take, SetCall
<1>2. CASE Put(t)
  BY <1>2 DEF Put, SetCall
<1>3. CASE GiveBack(t)
  BY <1>3 DEF GiveBack, SetCall
<1>4. CASE Look(t)
  BY <1>4 DEF Look, SetCall
<1>5. CASE TakeOut(t)
  BY <1>5 DEF TakeOut, SetCall
<1>6. CASE Grow(t)
  BY <1>6, AddressSpaceConstants DEF Grow, SetCall
<1>7. CASE Stick(t)
  BY <1>7 DEF Stick, SetCall
<1>8. CASE NewObject
  BY <1>8 DEF NewObject
<1>9. CASE Copied(t)
  BY <1>9 DEF Copied, SetCall
<1>10. CASE CopyInserted(t)
  BY <1>10 DEF CopyInserted, SetCall
<1>11. CASE Destroyed \/ Shared \/ Unshared
  BY <1>11 DEF Destroyed, Shared, Unshared
<1>. QED
  BY <1>1, <1>2, <1>3, <1>4, <1>5, <1>6, <1>7, <1>8, <1>9, <1>10, <1>11
     DEF Effect, AsEffect, CapEffect

(* A capability that is inserted. *)
LEMMA InsertedTypes ==
  ASSUME CapTypes, NEW o, NEW f \in FlagSets, Inserted(o, f)
  PROVE  /\ \A id \in DOMAIN caps' :
              (caps'[id] \in DOMAIN capData \/ caps'[id] = o) /\ id.flags \in FlagSets
         /\ nextId' \in 0 .. MaxIds
<1>1. PICK id : /\ id.flags = f /\ DOMAIN caps' = DOMAIN caps \cup {id}
                /\ \A i \in DOMAIN caps' : caps'[i] = IF i \in DOMAIN caps THEN caps[i] ELSE o
                /\ nextId < MaxIds /\ nextId' = nextId + 1
  BY DEF Inserted
<1>2. nextId' \in 0 .. MaxIds
  BY <1>1, CapabilityConstants DEF CapTypes
<1>3. \A i \in DOMAIN caps : caps[i] \in DOMAIN capData /\ i.flags \in FlagSets
  BY DEF CapTypes
<1>. QED
  BY <1>1, <1>2, <1>3

(* What is known of the copy in the hands of cap_clone. *)
LEMMA CopyKnown ==
  ASSUME StateTypes, CallInv, NEW t \in Thread, call[t].pc = "clone"
  PROVE  call[t].lay.data[1].blk \in DOMAIN capData /\ call[t].lay.data[1].flags \in FlagSets
<1>. DEFINE s == call[t].lay.data
            A == [blk : Block \cup {NoBlock}, own : BOOLEAN, size : Nat, flags : FlagSets]
<1>1. call[t] \in Calls
  BY DEF StateTypes
<1>2. call[t].lay \in AnyLayouts
  BY <1>1 DEF Calls
<1>3. s \in AnyElems
  BY <1>2 DEF AnyLayouts
<1>4. Len(s) = 1 /\ s[1].blk \in DOMAIN capData
  BY DEF CallInv, Carries
<1>. HIDE DEF s, A
<1>5. s \in Seq(A)
  BY <1>3 DEF AnyElems, A
<1>6. s[1] \in A
  BY <1>4, <1>5
<1>7. s[1].flags \in FlagSets
  BY <1>6 DEF A
<1>. QED
  BY <1>4, <1>7 DEF s

(* The variables of the capabilities have their types. *)
LEMMA CapTypesStep ==
  ASSUME StateTypes, CapTypes, CallInv, NEW t \in Thread, Effect(t)
  PROVE  CapTypes'
<1>1. CASE (AsEffect(t) /\ UNCHANGED capVars) \/ Copied(t)
  BY <1>1 DEF Copied, capVars, CapTypes
<1>2. CASE NewObject
  <2>1. PICK b \in Block, f \in FlagSets :
          /\ Inserted(b, f)
          /\ DOMAIN capData' = DOMAIN capData \cup {b} /\ DOMAIN made' = DOMAIN made \cup {b}
          /\ DOMAIN capData'[b] = {} /\ \A o \in DOMAIN capData \ {b} : capData'[o] = capData[o]
    BY <1>2 DEF NewObject
  <2>2. /\ \A id \in DOMAIN caps' :
             (caps'[id] \in DOMAIN capData \/ caps'[id] = b) /\ id.flags \in FlagSets
        /\ nextId' \in 0 .. MaxIds
    BY <2>1, InsertedTypes
  <2>3. \A o \in DOMAIN capData' : \A id \in DOMAIN capData'[o] : id.flags \in FlagSets
    BY <2>1 DEF CapTypes
  <2>. QED BY <2>1, <2>2, <2>3 DEF CapTypes
<1>3. CASE CopyInserted(t)
  <2>1. /\ call[t].pc = "clone" /\ UNCHANGED <<capData, made>>
        /\ Inserted(call[t].lay.data[1].blk, call[t].lay.data[1].flags)
    BY <1>3 DEF CopyInserted
  <2>2. call[t].lay.data[1].blk \in DOMAIN capData /\ call[t].lay.data[1].flags \in FlagSets
    BY <2>1, CopyKnown
  <2>3. /\ \A id \in DOMAIN caps' : caps'[id] \in DOMAIN capData /\ id.flags \in FlagSets
        /\ nextId' \in 0 .. MaxIds
    BY <2>1, <2>2, InsertedTypes
  <2>. QED BY <2>1, <2>3 DEF CapTypes
<1>4. CASE Destroyed
  <2>1. \A id \in DOMAIN caps' : caps'[id] \in DOMAIN capData' /\ id.flags \in FlagSets
    BY <1>4 DEF Destroyed, CapTypes
  <2>2. \A o \in DOMAIN capData' : \A id \in DOMAIN capData'[o] : id.flags \in FlagSets
    BY <1>4 DEF Destroyed, CapTypes
  <2>. QED BY <1>4, <2>1, <2>2 DEF Destroyed, CapTypes
<1>5. CASE Shared
  <2>1. PICK id \in DOMAIN caps :
          /\ UNCHANGED <<caps, nextId, made>> /\ DOMAIN capData' = DOMAIN capData
          /\ \A p \in DOMAIN capData \ {caps[id]} : capData'[p] = capData[p]
          /\ DOMAIN capData'[caps[id]] = DOMAIN capData[caps[id]] \cup {id}
    BY <1>5 DEF Shared
  <2>2. \A o \in DOMAIN capData : \A i \in DOMAIN capData'[o] : i.flags \in FlagSets
    BY <2>1 DEF CapTypes
  <2>. QED BY <2>1, <2>2 DEF CapTypes
<1>6. CASE Unshared
  <2>1. PICK id \in DOMAIN caps :
          /\ UNCHANGED <<caps, nextId, made>> /\ DOMAIN capData' = DOMAIN capData
          /\ \A p \in DOMAIN capData \ {caps[id]} : capData'[p] = capData[p]
          /\ DOMAIN capData'[caps[id]] = DOMAIN capData[caps[id]] \ {id}
    BY <1>6 DEF Unshared
  <2>2. \A o \in DOMAIN capData : \A i \in DOMAIN capData'[o] : i.flags \in FlagSets
    BY <2>1 DEF CapTypes
  <2>. QED BY <2>1, <2>2 DEF CapTypes
<1>. QED
  BY <1>1, <1>2, <1>3, <1>4, <1>5, <1>6 DEF Effect, CapEffect

(* All of every layout stays mapped, until virt_map is locked for good. *)
LEMMA SyncStep ==
  ASSUME SyncInv, NEW t \in Thread, Effect(t)
  PROVE  SyncInv'
<1>. DEFINE Ok(m, l) == \A z \in DOMAIN m : l = NoThread \/ m[z].atype # "VirtMem" => Synced(m[z])
<1>. SUFFICES Ok(vmap', lock')
  BY DEF SyncInv, Zones
<1>1. Ok(vmap, lock)
  BY DEF SyncInv, Zones
<1>2. CASE Stick(t)
  <2>1. lock' # NoThread /\ Kept
    BY <1>2, AddressSpaceConstants DEF Stick
  <2>. QED BY <1>1, <2>1 DEF Kept
<1>3. ASSUME lock' = lock, Still PROVE Ok(vmap', lock')
  BY <1>1, <1>3 DEF Still
<1>4. ASSUME lock' = lock, NEW z, NEW L, Added(z, L), Synced(L) PROVE Ok(vmap', lock')
  BY <1>1, <1>4 DEF Added
<1>5. ASSUME lock' = lock, NEW z, Removed(z) PROVE Ok(vmap', lock')
  BY <1>1, <1>5 DEF Removed
<1>6. ASSUME lock' = lock, NEW z, NEW nz, NEW L, Moved(z, nz, L), Synced(L) PROVE Ok(vmap', lock')
  BY <1>1, <1>6 DEF Moved
<1>. HIDE DEF Ok
<1>7. CASE Put(t)
  BY <1>4, <1>7 DEF Put
<1>8. CASE Shared
  BY <1>4, <1>8 DEF Shared
<1>9. CASE TakeOut(t)
  BY <1>5, <1>9 DEF TakeOut
<1>10. CASE Unshared
  BY <1>5, <1>10 DEF Unshared
<1>11. CASE Grow(t)
  BY <1>6, <1>11 DEF Grow
<1>12. CASE Take(t) \/ GiveBack(t) \/ Look(t) \/ NewObject \/ Copied(t) \/ CopyInserted(t) \/ Destroyed
  BY <1>3, <1>12 DEF Take, GiveBack, Look, NewObject, Copied, CopyInserted, Destroyed
<1>. QED
  BY <1>2, <1>7, <1>8, <1>9, <1>10, <1>11, <1>12 DEF Effect, AsEffect, CapEffect

(* What the calls carry. *)
LEMMA CallStep ==
  ASSUME CapTypes, CallInv, NEW t \in Thread, Effect(t)
  PROVE  CallInv'
<1>1. ASSUME NEW c, SetCall(t, c), Carries(c, DOMAIN capData'), DOMAIN capData \subseteq DOMAIN capData'
      PROVE  CallInv'
  <2>1. ASSUME NEW u \in Thread PROVE Carries(call'[u], DOMAIN capData')
    <3>1. CASE u = t
      BY <1>1, <3>1 DEF SetCall
    <3>2. CASE u # t
      <4>1. call'[u] = call[u] /\ Carries(call[u], DOMAIN capData)
        BY <1>1, <3>2 DEF SetCall, CallInv
      <4>. QED BY <1>1, <4>1 DEF Carries
    <3>. QED BY <3>1, <3>2
  <2>. QED BY <2>1 DEF CallInv
<1>2. ASSUME call' = call, DOMAIN capData \subseteq DOMAIN capData' PROVE CallInv'
  BY <1>2 DEF CallInv, Carries
<1>3. \A c, D : c.pc \notin {"map", "clone"} => Carries(c, D)
  BY DEF Carries
<1>4. Idle.pc = "idle"
  BY LayoutTypes
<1>5. CASE AsEffect(t) /\ UNCHANGED capVars
  <2>1. DOMAIN capData \subseteq DOMAIN capData'
    BY <1>5 DEF capVars
  <2>2. CASE Take(t)
    <3>1. PICK c \in Calls : /\ SetCall(t, c) /\ c.pc = "map" /\ Fresh(c.lay)
                             /\ IF c.use = "stack"
                                THEN c.lay.atype = "Protected" /\ StackData(c.lay.data)
                                ELSE c.lay.atype = "VirtMem"
      BY <2>2 DEF Take
    <3>2. Carries(c, DOMAIN capData')
      BY <3>1 DEF Carries
    <3>. QED BY <1>1, <2>1, <3>1, <3>2
  <2>3. ASSUME ~ Take(t) PROVE \E c : SetCall(t, c) /\ c.pc \notin {"map", "clone"}
    BY <1>4, <1>5, <2>3 DEF AsEffect, Put, GiveBack, Look, TakeOut, Grow, Stick
  <2>. QED BY <1>1, <1>3, <2>1, <2>2, <2>3
<1>6. CASE NewObject \/ Shared \/ Unshared
  <2>1. call' = call /\ DOMAIN capData \subseteq DOMAIN capData'
    BY <1>6 DEF NewObject, Shared, Unshared
  <2>. QED BY <1>2, <2>1
<1>7. CASE Copied(t)
  <2>1. PICK c \in Calls, id \in DOMAIN caps :
          /\ SetCall(t, c) /\ c.pc = "clone" /\ Len(c.lay.data) = 1 /\ c.lay.data[1].blk = caps[id]
          /\ capData' = capData
    BY <1>7 DEF Copied, capVars
  <2>2. caps[id] \in DOMAIN capData
    BY DEF CapTypes
  <2>3. Carries(c, DOMAIN capData')
    BY <2>1, <2>2 DEF Carries
  <2>. QED BY <1>1, <2>1, <2>3
<1>8. CASE CopyInserted(t)
  <2>1. SetCall(t, Idle) /\ capData' = capData
    BY <1>8 DEF CopyInserted
  <2>. QED BY <1>1, <1>3, <1>4, <2>1
<1>9. CASE Destroyed
  <2>1. ASSUME NEW u \in Thread PROVE Carries(call'[u], DOMAIN capData')
    <3>1. call'[u] = call[u] /\ Carries(call[u], DOMAIN capData)
      BY <1>9 DEF Destroyed, CallInv
    <3>2. call[u].pc = "clone" /\ call[u].lay.data[1].blk \in DOMAIN capData =>
            call[u].lay.data[1].blk \in DOMAIN capData'
      BY <1>9 DEF Destroyed
    <3>. QED BY <3>1, <3>2 DEF Carries
  <2>. QED BY <2>1 DEF CallInv
<1>. QED
  BY <1>5, <1>6, <1>7, <1>8, <1>9 DEF Effect, CapEffect

(* A range that is not VirtMem stays as it is, but for the stacks that are *)
(* given back.                                                             *)
LEMMA OthersKept ==
  ASSUME NEW t \in Thread, AsEffect(t), NEW y \in Zones, vmap[y].atype # "VirtMem",
         vmap[y].atype = "Shared" \/ y \in stacks \cap stacks'
  PROVE  y \in DOMAIN vmap' /\ vmap'[y] = vmap[y]
<1>0. y \in DOMAIN vmap
  BY DEF Zones
<1>1. CASE Take(t) \/ GiveBack(t) \/ Look(t)
  BY <1>0, <1>1 DEF Take, GiveBack, Look, Still
<1>2. CASE Put(t)
  BY <1>0, <1>2 DEF Put, Added
<1>3. CASE TakeOut(t)
  <2>1. PICK z \in Zones : /\ Removed(z)
                           /\ \/ vmap[z].atype = "VirtMem" /\ stacks' = stacks
                              \/ vmap[z].atype = "Protected" /\ stacks' = stacks \ {z}
    BY <1>3 DEF TakeOut
  <2>2. y # z
    BY <2>1
  <2>. QED BY <1>0, <2>1, <2>2 DEF Removed
<1>4. CASE Grow(t)
  <2>1. PICK z \in Zones, nz \in Ranges, L \in Layouts : vmap[z].atype = "VirtMem" /\ Moved(z, nz, L)
    BY <1>4 DEF Grow
  <2>2. y # z
    BY <2>1
  <2>. QED BY <1>0, <2>1, <2>2 DEF Moved
<1>5. CASE Stick(t)
  BY <1>0, <1>5 DEF Stick, Kept
<1>. QED
  BY <1>1, <1>2, <1>3, <1>4, <1>5 DEF AsEffect

(* The stacks keep their ranges. *)
LEMMA StackStep ==
  ASSUME MapInv(vmap, pt), CapTypes, CallInv, StackInv, RecordInv, NEW t \in Thread, Effect(t)
  PROVE  StackInv'
<1>1. halt' # "unwrap"
  BY DEF Effect, AsEffect, CapEffect, Take, Put, GiveBack, Look, TakeOut, Grow, Stick, NewObject,
         Copied, CopyInserted, Destroyed, Shared, Unshared, StackInv
<1>2. ASSUME NEW y \in stacks, y \in DOMAIN vmap', vmap'[y] = vmap[y]
      PROVE  vmap'[y].atype = "Protected" /\ StackData(Mapped(vmap'[y]))
  BY <1>2 DEF StackInv
<1>3. \A y \in stacks : y \in Zones /\ y \in DOMAIN vmap /\ vmap[y].atype = "Protected"
  BY DEF StackInv, Zones
<1>4. SUFFICES ASSUME NEW y \in stacks'
               PROVE  /\ y \in DOMAIN vmap' /\ vmap'[y].atype = "Protected"
                      /\ StackData(Mapped(vmap'[y]))
  BY <1>1 DEF StackInv, Zones
<1>5. CASE AsEffect(t)
  <2>1. CASE y \in stacks
    <3>1. y \in DOMAIN vmap' /\ vmap'[y] = vmap[y]
      BY <1>3, <1>5, <2>1, OthersKept
    <3>. QED BY <1>2, <2>1, <3>1
  <2>2. CASE y \notin stacks
    <3>1. Put(t)
      BY <1>5, <2>2 DEF AsEffect, Take, GiveBack, Look, TakeOut, Grow, Stick
    <3>2. PICK z \in Ranges, L \in Layouts :
            /\ call[t].pc = "map" /\ Added(z, L) /\ Synced(L)
            /\ L.data = call[t].lay.data /\ L.atype = call[t].lay.atype
            /\ stacks' = IF call[t].use = "stack" THEN stacks \cup {z} ELSE stacks
      BY <3>1 DEF Put
    <3>3. call[t].use = "stack" /\ y = z
      BY <2>2, <3>2
    <3>4. L.atype = "Protected" /\ StackData(L.data)
      BY <3>2, <3>3 DEF CallInv, Carries
    <3>5. Mapped(L) = L.data
      BY <3>2, SyncedUnmaps
    <3>6. y \in DOMAIN vmap' /\ vmap'[y] = L
      BY <3>2, <3>3 DEF Added
    <3>. QED BY <3>4, <3>5, <3>6
  <2>. QED BY <2>1, <2>2
<1>6. CASE CapEffect(t)
  <2>1. y \in stacks
    BY <1>6 DEF CapEffect, NewObject, Copied, CopyInserted, Destroyed, Shared, Unshared
  <2>2. y \in DOMAIN vmap /\ vmap[y].atype = "Protected"
    BY <1>3, <2>1
  <2>3. CASE NewObject \/ Copied(t) \/ CopyInserted(t) \/ Destroyed
    <3>1. Still
      BY <2>3 DEF NewObject, Copied, CopyInserted, Destroyed
    <3>. QED BY <1>2, <2>1, <2>2, <3>1 DEF Still
  <2>4. CASE Shared
    <3>1. PICK z \in Ranges, L \in Layouts : Added(z, L)
      BY <2>4 DEF Shared
    <3>. QED BY <1>2, <2>1, <2>2, <3>1 DEF Added
  <2>5. CASE Unshared
    <3>1. PICK id \in DOMAIN caps : id \in DOMAIN capData[caps[id]] /\ Removed(capData[caps[id]][id])
      BY <2>5 DEF Unshared
    <3>2. vmap[capData[caps[id]][id]].atype = "Shared"
      BY <3>1 DEF RecordInv, CapTypes
    <3>3. y # capData[caps[id]][id]
      BY <2>2, <3>2
    <3>. QED BY <1>2, <2>1, <2>2, <3>1, <3>3 DEF Removed
  <2>. QED BY <1>6, <2>3, <2>4, <2>5 DEF CapEffect
<1>. QED
  BY <1>5, <1>6 DEF Effect

(* What is recorded stays a Shared range of the object. *)
LEMMA RecordStep ==
  ASSUME CapTypes, RecordInv, NEW t \in Thread, Effect(t)
  PROVE  RecordInv'
<1>. DEFINE Rec(m, o, i, z) == z \in DOMAIN m /\ m[z].atype = "Shared" /\ m[z].data = SmemLayout(o, i).data
<1>1. \A o \in DOMAIN capData : \A i \in DOMAIN capData[o] :
        capData[o][i] \in Zones /\ Rec(vmap, o, i, capData[o][i])
  BY DEF RecordInv, Zones
<1>2. \A o, p \in DOMAIN capData : \A i \in DOMAIN capData[o], j \in DOMAIN capData[p] :
        capData[o][i] = capData[p][j] => o = p /\ i = j
  BY DEF RecordInv
<1>3. SUFFICES /\ \A o \in DOMAIN capData' : \A i \in DOMAIN capData'[o] : Rec(vmap', o, i, capData'[o][i])
               /\ \A o, p \in DOMAIN capData' : \A i \in DOMAIN capData'[o], j \in DOMAIN capData'[p] :
                    capData'[o][i] = capData'[p][j] => o = p /\ i = j
  BY DEF RecordInv, Zones
<1>4. CASE AsEffect(t) /\ UNCHANGED capVars
  <2>1. capData' = capData
    BY <1>4 DEF capVars
  <2>2. ASSUME NEW o \in DOMAIN capData, NEW i \in DOMAIN capData[o]
        PROVE  Rec(vmap', o, i, capData[o][i])
    <3>. DEFINE z == capData[o][i]
    <3>1. z \in Zones /\ Rec(vmap, o, i, z)
      BY <1>1
    <3>. HIDE DEF z
    <3>2. z \in DOMAIN vmap' /\ vmap'[z] = vmap[z]
      BY <1>4, <3>1, OthersKept
    <3>3. Rec(vmap', o, i, z)
      BY <3>1, <3>2
    <3>. QED BY <3>3 DEF z
  <2>. HIDE DEF Rec
  <2>. QED BY <1>2, <2>1, <2>2
<1>5. CASE NewObject
  <2>1. PICK b \in Block :
          /\ DOMAIN capData' = DOMAIN capData \cup {b}
          /\ DOMAIN capData'[b] = {} /\ Still
          /\ \A o \in DOMAIN capData \ {b} : capData'[o] = capData[o]
    BY <1>5 DEF NewObject
  <2>2. \A o \in DOMAIN capData' : \A i \in DOMAIN capData'[o] :
          o \in DOMAIN capData /\ i \in DOMAIN capData[o] /\ capData'[o][i] = capData[o][i]
    BY <2>1
  <2>3. \A o \in DOMAIN capData : \A i \in DOMAIN capData[o] : Rec(vmap', o, i, capData[o][i])
    BY <1>1, <2>1 DEF Still
  <2>. HIDE DEF Rec
  <2>4. \A o \in DOMAIN capData' : \A i \in DOMAIN capData'[o] : Rec(vmap', o, i, capData'[o][i])
    BY <2>2, <2>3
  <2>5. \A o, p \in DOMAIN capData' : \A i \in DOMAIN capData'[o], j \in DOMAIN capData'[p] :
          capData'[o][i] = capData'[p][j] => o = p /\ i = j
    BY <1>2, <2>2
  <2>. QED BY <2>4, <2>5
<1>6. CASE Copied(t) \/ CopyInserted(t)
  <2>1. capData' = capData /\ Still
    BY <1>6 DEF Copied, CopyInserted, capVars
  <2>2. \A o \in DOMAIN capData : \A i \in DOMAIN capData[o] : Rec(vmap', o, i, capData[o][i])
    BY <1>1, <2>1 DEF Still
  <2>. HIDE DEF Rec
  <2>. QED BY <1>2, <2>1, <2>2
<1>7. CASE Shared
  <2>1. PICK id \in DOMAIN caps, z \in Ranges, L \in Layouts :
          /\ id \notin DOMAIN capData[caps[id]] /\ Added(z, L) /\ L.atype = "Shared"
          /\ L.data = SmemLayout(caps[id], id).data /\ DOMAIN capData' = DOMAIN capData
          /\ \A p \in DOMAIN capData \ {caps[id]} : capData'[p] = capData[p]
          /\ DOMAIN capData'[caps[id]] = DOMAIN capData[caps[id]] \cup {id}
          /\ capData'[caps[id]][id] = z
          /\ \A i \in DOMAIN capData[caps[id]] : capData'[caps[id]][i] = capData[caps[id]][i]
    BY <1>7 DEF Shared
  <2>. DEFINE o1 == caps[id]
  <2>2. o1 \in DOMAIN capData
    BY DEF CapTypes
  <2>3. /\ z \notin DOMAIN vmap /\ z \in DOMAIN vmap' /\ vmap'[z] = L
        /\ \A y \in DOMAIN vmap : y \in DOMAIN vmap' /\ vmap'[y] = vmap[y]
    BY <2>1 DEF Added
  <2>4. \A o \in DOMAIN capData : \A i \in DOMAIN capData'[o] :
          \/ i \in DOMAIN capData[o] /\ capData'[o][i] = capData[o][i] /\ capData[o][i] \in DOMAIN vmap
          \/ o = o1 /\ i = id /\ capData'[o][i] = z
    BY <1>1, <2>1, <2>2 DEF Zones
  <2>5. Rec(vmap', o1, id, z)
    BY <2>1, <2>3
  <2>6. \A o \in DOMAIN capData : \A i \in DOMAIN capData[o] : Rec(vmap', o, i, capData[o][i])
    BY <1>1, <2>3
  <2>. HIDE DEF Rec, o1
  <2>7. \A o \in DOMAIN capData' : \A i \in DOMAIN capData'[o] : Rec(vmap', o, i, capData'[o][i])
    BY <2>1, <2>4, <2>5, <2>6
  <2>8. \A o, p \in DOMAIN capData' : \A i \in DOMAIN capData'[o], j \in DOMAIN capData'[p] :
          capData'[o][i] = capData'[p][j] => o = p /\ i = j
    BY <1>2, <2>1, <2>3, <2>4
  <2>. QED BY <2>7, <2>8
<1>8. CASE Unshared
  <2>1. PICK id \in DOMAIN caps :
          /\ id \in DOMAIN capData[caps[id]] /\ Removed(capData[caps[id]][id])
          /\ DOMAIN capData' = DOMAIN capData
          /\ \A p \in DOMAIN capData \ {caps[id]} : capData'[p] = capData[p]
          /\ DOMAIN capData'[caps[id]] = DOMAIN capData[caps[id]] \ {id}
          /\ \A i \in DOMAIN capData[caps[id]] \ {id} : capData'[caps[id]][i] = capData[caps[id]][i]
    BY <1>8 DEF Unshared
  <2>. DEFINE o1 == caps[id]
              z == capData[o1][id]
  <2>2. o1 \in DOMAIN capData /\ id \in DOMAIN capData[o1]
    BY <2>1 DEF CapTypes
  <2>3. \A y \in DOMAIN vmap \ {z} : y \in DOMAIN vmap' /\ vmap'[y] = vmap[y]
    BY <2>1 DEF Removed
  <2>4. \A o \in DOMAIN capData : \A i \in DOMAIN capData'[o] :
          i \in DOMAIN capData[o] /\ capData'[o][i] = capData[o][i] /\ ~ (o = o1 /\ i = id)
    BY <2>1, <2>2
  <2>5. \A o \in DOMAIN capData : \A i \in DOMAIN capData'[o] : capData[o][i] # z
    BY <1>2, <2>2, <2>4
  <2>. HIDE DEF o1, z
  <2>6. ASSUME NEW o \in DOMAIN capData, NEW i \in DOMAIN capData'[o]
        PROVE  Rec(vmap', o, i, capData'[o][i])
    <3>1. /\ capData'[o][i] = capData[o][i] /\ capData[o][i] # z /\ i \in DOMAIN capData[o]
      BY <2>4, <2>5
    <3>2. Rec(vmap, o, i, capData[o][i])
      BY <1>1, <3>1
    <3>3. Rec(vmap', o, i, capData[o][i])
      BY <2>3, <3>1, <3>2
    <3>. HIDE DEF Rec
    <3>. QED BY <3>1, <3>3
  <2>. HIDE DEF Rec
  <2>7. \A o, p \in DOMAIN capData' : \A i \in DOMAIN capData'[o], j \in DOMAIN capData'[p] :
          capData'[o][i] = capData'[p][j] => o = p /\ i = j
    BY <1>2, <2>1, <2>4
  <2>. QED BY <2>1, <2>6, <2>7
<1>9. CASE Destroyed
  <2>1. /\ \A o \in DOMAIN capData' : o \in DOMAIN capData /\ capData'[o] = capData[o]
        /\ Still
    BY <1>9 DEF Destroyed
  <2>2. \A o \in DOMAIN capData : \A i \in DOMAIN capData[o] : Rec(vmap', o, i, capData[o][i])
    BY <1>1, <2>1 DEF Still
  <2>. HIDE DEF Rec
  <2>3. \A o \in DOMAIN capData' : \A i \in DOMAIN capData'[o] : Rec(vmap', o, i, capData'[o][i])
    BY <2>1, <2>2
  <2>4. \A o, p \in DOMAIN capData' : \A i \in DOMAIN capData'[o], j \in DOMAIN capData'[p] :
          capData'[o][i] = capData'[p][j] => o = p /\ i = j
    BY <1>2, <2>1
  <2>. QED BY <2>3, <2>4
<1>. QED
  BY <1>4, <1>5, <1>6, <1>7, <1>8, <1>9 DEF Effect, CapEffect

(* A block stays with its range, or with its call, or is let go of. *)
LEMMA HeldKept ==
  ASSUME NEW b
  PROVE  /\ Kept \/ Still => (HeldByZone(b) => HeldByZone(b)')
         /\ \A z, L : Added(z, L) => /\ HeldByZone(b) => HeldByZone(b)'
                                     /\ b \in LayoutFrees(L) => HeldByZone(b)'
         /\ \A z : Removed(z) => (HeldByZone(b) => b \in LayoutFrees(vmap[z]) \/ HeldByZone(b)')
         /\ \A z, nz, L : Moved(z, nz, L) /\ LayoutFrees(vmap[z]) \subseteq LayoutFrees(L) =>
              /\ HeldByZone(b) => HeldByZone(b)'
              /\ b \in LayoutFrees(L) => HeldByZone(b)'
         /\ \A t \in Thread : \A c : SetCall(t, c) =>
              /\ HeldByCall(b) => \/ HeldByCall(b)'
                                  \/ /\ call[t].pc \in {"map", "dealloc"}
                                     /\ b \in LayoutFrees(call[t].lay)
              /\ c.pc \in {"map", "dealloc"} /\ b \in LayoutFrees(c.lay) => HeldByCall(b)'
<1>1. HeldByZone(b) = \E z \in DOMAIN vmap : b \in LayoutFrees(vmap[z])
  BY DEF HeldByZone, Zones
<1>2. HeldByZone(b)' = \E z \in DOMAIN vmap' : b \in LayoutFrees(vmap'[z])
  BY DEF HeldByZone, Zones
<1>3. Kept \/ Still => (HeldByZone(b) => HeldByZone(b)')
  BY <1>1, <1>2 DEF Kept, Still
<1>4. ASSUME NEW z, NEW L, Added(z, L)
      PROVE  /\ HeldByZone(b) => HeldByZone(b)'
             /\ b \in LayoutFrees(L) => HeldByZone(b)'
  BY <1>1, <1>2, <1>4 DEF Added
<1>5. ASSUME NEW z, Removed(z) PROVE HeldByZone(b) => b \in LayoutFrees(vmap[z]) \/ HeldByZone(b)'
  BY <1>1, <1>2, <1>5 DEF Removed
<1>6. ASSUME NEW z, NEW nz, NEW L, Moved(z, nz, L), LayoutFrees(vmap[z]) \subseteq LayoutFrees(L)
      PROVE  /\ HeldByZone(b) => HeldByZone(b)'
             /\ b \in LayoutFrees(L) => HeldByZone(b)'
  BY <1>1, <1>2, <1>6 DEF Moved
<1>7. ASSUME NEW t \in Thread, NEW c, SetCall(t, c)
      PROVE  /\ HeldByCall(b) => \/ HeldByCall(b)'
                                 \/ call[t].pc \in {"map", "dealloc"} /\ b \in LayoutFrees(call[t].lay)
             /\ c.pc \in {"map", "dealloc"} /\ b \in LayoutFrees(c.lay) => HeldByCall(b)'
  <2>1. HeldByCall(b)' = \E u \in Thread : call'[u].pc \in {"map", "dealloc"} /\ b \in LayoutFrees(call'[u].lay)
    BY DEF HeldByCall
  <2>. QED BY <1>7, <2>1 DEF SetCall, HeldByCall
<1>. QED
  BY <1>3, <1>4, <1>5, <1>6, <1>7

(* A block in use is held. *)
LEMMA LeakStep ==
  ASSUME MapInv(vmap, pt), StateTypes, CapTypes, SyncInv, RecordInv, LeakInv, NEW t \in Thread, Effect(t)
  PROVE  LeakInv'
<1>. SUFFICES ASSUME NEW b \in live' PROVE b \in DOMAIN made' \/ HeldByZone(b)' \/ HeldByCall(b)'
  BY DEF LeakInv
<1>1. b \in live => b \in DOMAIN made \/ HeldByZone(b) \/ HeldByCall(b)
  BY DEF LeakInv
<1>2. DOMAIN made \subseteq DOMAIN made'
  BY DEF Effect, CapEffect, capVars, NewObject, Copied, CopyInserted, Destroyed, Shared, Unshared
<1>3. Idle.pc = "idle"
  BY LayoutTypes
<1>4. CASE Take(t)
  <2>1. PICK c \in Calls, a \in Block \cup {NoBlock} :
          /\ call[t].pc = "idle" /\ SetCall(t, c) /\ c.pc = "map" /\ Still
          /\ live' = live \cup ({a} \ {NoBlock}) /\ LayoutFrees(c.lay) = {a} \ {NoBlock}
    BY <1>4 DEF Take
  <2>2. CASE b \in live
    <3>1. HeldByZone(b) => HeldByZone(b)'
      BY <2>1, HeldKept
    <3>2. HeldByCall(b) => HeldByCall(b)'
      BY <2>1, HeldKept
    <3>. QED BY <1>1, <1>2, <2>2, <3>1, <3>2
  <2>3. CASE b \notin live
    <3>1. b \in LayoutFrees(c.lay)
      BY <2>1, <2>3
    <3>. QED BY <2>1, <3>1, HeldKept
  <2>. QED BY <2>2, <2>3
<1>5. CASE Put(t)
  <2>1. PICK z \in Ranges, L \in Layouts :
          /\ Added(z, L) /\ LayoutFrees(L) = LayoutFrees(call[t].lay) /\ SetCall(t, Idle) /\ live' = live
    BY <1>5 DEF Put
  <2>2. HeldByZone(b) => HeldByZone(b)'
    BY <2>1, HeldKept
  <2>3. b \in LayoutFrees(call[t].lay) => HeldByZone(b)'
    BY <2>1, HeldKept
  <2>4. HeldByCall(b) => HeldByCall(b)' \/ b \in LayoutFrees(call[t].lay)
    BY <2>1, HeldKept
  <2>. QED BY <1>1, <1>2, <2>1, <2>2, <2>3, <2>4
<1>6. CASE GiveBack(t)
  <2>1. PICK c \in Calls : SetCall(t, c) /\ live' = live \ LayoutFrees(call[t].lay) /\ Still
    BY <1>6 DEF GiveBack
  <2>2. HeldByZone(b) => HeldByZone(b)'
    BY <2>1, HeldKept
  <2>3. HeldByCall(b) => HeldByCall(b)' \/ b \in LayoutFrees(call[t].lay)
    BY <2>1, HeldKept
  <2>. QED BY <1>1, <1>2, <2>1, <2>2, <2>3
<1>7. CASE Look(t)
  <2>1. PICK c \in Calls : SetCall(t, c) /\ call[t].pc \in {"idle", "unmap", "remap"} /\ live' = live /\ Still
    BY <1>7 DEF Look
  <2>2. HeldByZone(b) => HeldByZone(b)'
    BY <2>1, HeldKept
  <2>3. HeldByCall(b) => HeldByCall(b)'
    BY <2>1, HeldKept
  <2>. QED BY <1>1, <1>2, <2>1, <2>2, <2>3
<1>8. CASE TakeOut(t)
  <2>1. PICK z \in Zones, c \in Calls :
          /\ call[t].pc \in {"idle", "unmap"} /\ Removed(z) /\ SetCall(t, c)
          /\ c.pc = "dealloc" /\ LayoutFrees(c.lay) = LayoutFrees(vmap[z]) /\ live' = live
    BY <1>8 DEF TakeOut
  <2>2. HeldByZone(b) => b \in LayoutFrees(vmap[z]) \/ HeldByZone(b)'
    BY <2>1, HeldKept
  <2>3. b \in LayoutFrees(vmap[z]) => HeldByCall(b)'
    BY <2>1, HeldKept
  <2>4. HeldByCall(b) => HeldByCall(b)'
    BY <2>1, HeldKept
  <2>. QED BY <1>1, <1>2, <2>1, <2>2, <2>3, <2>4
<1>9. CASE Grow(t)
  <2>1. PICK z \in Zones, nz \in Ranges, L \in Layouts, a \in Block \cup {NoBlock} :
          /\ call[t].pc = "remap" /\ Moved(z, nz, L) /\ live' = live \cup ({a} \ {NoBlock})
          /\ LayoutFrees(L) = LayoutFrees(vmap[z]) \cup ({a} \ {NoBlock}) /\ SetCall(t, Idle)
    BY <1>9 DEF Grow
  <2>2. LayoutFrees(vmap[z]) \subseteq LayoutFrees(L)
    BY <2>1
  <2>3. HeldByZone(b) => HeldByZone(b)'
    BY <2>1, <2>2, HeldKept
  <2>4. b \in LayoutFrees(L) => HeldByZone(b)'
    BY <2>1, <2>2, HeldKept
  <2>5. HeldByCall(b) => HeldByCall(b)'
    BY <2>1, HeldKept
  <2>. QED BY <1>1, <1>2, <2>1, <2>3, <2>4, <2>5
<1>10. CASE Stick(t)
  <2>1. PICK c \in Calls : SetCall(t, c) /\ call[t].pc = "remap" /\ live' = live /\ Kept
    BY <1>10 DEF Stick
  <2>2. HeldByZone(b) => HeldByZone(b)'
    BY <2>1, HeldKept
  <2>3. HeldByCall(b) => HeldByCall(b)'
    BY <2>1, HeldKept
  <2>. QED BY <1>1, <1>2, <2>1, <2>2, <2>3
<1>11. CASE NewObject
  <2>1. Still /\ call' = call /\ \A a \in live' : a \in live \/ a \in DOMAIN made'
    BY <1>11 DEF NewObject
  <2>2. HeldByZone(b) => HeldByZone(b)'
    BY <2>1, HeldKept
  <2>3. HeldByCall(b) => HeldByCall(b)'
    BY <2>1 DEF HeldByCall
  <2>. QED BY <1>1, <1>2, <2>1, <2>2, <2>3
<1>12. CASE Copied(t) \/ CopyInserted(t)
  <2>1. PICK c : SetCall(t, c) /\ call[t].pc \in {"idle", "clone"} /\ live' = live /\ Still
    BY <1>12 DEF Copied, CopyInserted
  <2>2. HeldByZone(b) => HeldByZone(b)'
    BY <2>1, HeldKept
  <2>3. HeldByCall(b) => HeldByCall(b)'
    BY <2>1, HeldKept
  <2>. QED BY <1>1, <1>2, <2>1, <2>2, <2>3
<1>13. CASE Destroyed \/ Shared
  <2>1. call' = call /\ live' = live
    BY <1>13 DEF Destroyed, Shared
  <2>2. HeldByZone(b) => HeldByZone(b)'
    BY <1>13, HeldKept DEF Destroyed, Shared
  <2>3. HeldByCall(b) => HeldByCall(b)'
    BY <2>1 DEF HeldByCall
  <2>. QED BY <1>1, <1>2, <2>1, <2>2, <2>3
<1>14. CASE Unshared
  <2>1. PICK id \in DOMAIN caps :
          /\ id \in DOMAIN capData[caps[id]] /\ lock = NoThread /\ Removed(capData[caps[id]][id])
          /\ call' = call /\ live' = live
    BY <1>14 DEF Unshared
  <2>. DEFINE o == caps[id]
              z == capData[o][id]
  <2>2. o \in DOMAIN capData /\ o \in Block /\ id.flags \in FlagSets
    BY DEF CapTypes
  <2>3. z \in Zones /\ vmap[z].data = SmemLayout(o, id).data
    BY <2>1, <2>2 DEF RecordInv
  <2>4. Removed(z)
    BY <2>1
  <2>. HIDE DEF o, z
  <2>5. vmap[z].que = <<>>
    BY <2>1, <2>3 DEF SyncInv, Synced
  <2>6. LayoutFrees(SmemLayout(o, id)) = {} /\ SmemLayout(o, id).que = <<>>
    BY <2>2, SmemLayoutFresh DEF Fresh
  <2>7. LayoutFrees(vmap[z]) = {}
    BY <2>3, <2>5, <2>6 DEF LayoutFrees
  <2>8. HeldByZone(b) => HeldByZone(b)'
    BY <2>4, <2>7, HeldKept
  <2>9. HeldByCall(b) => HeldByCall(b)'
    BY <2>1 DEF HeldByCall
  <2>. QED BY <1>1, <1>2, <2>1, <2>8, <2>9
<1>. QED
  BY <1>4, <1>5, <1>6, <1>7, <1>8, <1>9, <1>10, <1>11, <1>12, <1>13, <1>14
     DEF Effect, AsEffect, CapEffect

-----------------------------------------------------------------------------
(* The invariant.                                                          *)

(* The program that is loaded. *)
LEMMA InvInit == Init => Inv
<1>. SUFFICES ASSUME Init PROVE Inv
  OBVIOUS
<1>. DEFINE f == {"r", "w"}
<1>1. PICK b \in Block :
        LET L == SyncMem(Layout(<<NewElement(b, Image.size, f, TRUE)>>, "Protected"))
        IN /\ vmap = [z \in {Image} |-> L] /\ pt = Cells(L.data, Image.addr) /\ live = {b}
  BY DEF Init, AsInit
<1>2. /\ lock = NoThread /\ stacks = {} /\ halt = "no" /\ call = [t \in Thread |-> Idle]
      /\ caps = <<>> /\ nextId = 0 /\ capData = <<>> /\ made = <<>>
  BY DEF Init, AsInit
<1>3. DOMAIN caps = {} /\ DOMAIN capData = {} /\ DOMAIN made = {}
  BY <1>2
<1>4. /\ Image \in [addr : Nat, size : Nat] /\ Image.addr >= 1 /\ Image.size >= 1
      /\ Image.addr + Image.size <= MaxMap
  BY AddressSpaceConstants
<1>5. Image \in Ranges
  BY <1>4 DEF Ranges, End
<1>6. f \in FlagSets /\ f # {}
  BY DEF FlagSets
<1>. DEFINE e == NewElement(b, Image.size, f, TRUE)
            L == Layout(<<e>>, "Protected")
            M == SyncMem(L)
<1>. HIDE DEF f
<1>7. e = Element(b, TRUE, Image.size, f)
  BY <1>6 DEF NewElement
<1>8. vmap = [z \in {Image} |-> M] /\ pt = Cells(M.data, Image.addr) /\ live = {b}
  BY <1>1
<1>. HIDE DEF e
<1>9. e \in Elem /\ e.size = Image.size /\ e.own = TRUE /\ e.blk = b
  <2>1. Image.size \in Nat \ {0}
    BY <1>4
  <2>. QED BY <1>6, <1>7, <2>1 DEF Element, Elem, FlagSets
<1>10. <<e>> \in Seq(Elem) /\ <<e>> # <<>>
  BY <1>9
<1>11. Fresh(L) /\ L.data = <<e>> /\ L.atype = "Protected"
  BY <1>10, LayoutTypes
<1>. HIDE DEF L
<1>12. Synced(M) /\ M.data = <<e>> /\ Mapped(M) = <<e>>
  BY <1>4, <1>11, FreshMaps
<1>. HIDE DEF M
<1>13. M \in Layouts /\ M.que = <<>>
  BY <1>12 DEF Synced
<1>14. Size(<<e>>) = Image.size
  BY <1>9, SizeShort
<1>15. DOMAIN vmap = {Image} /\ vmap[Image] = M
  BY <1>8
<1>16. MapInv(vmap, pt)
  <2>1. Tiled(vmap)
    BY <1>5, <1>15 DEF Tiled
  <2>2. Laid(vmap)
    BY <1>10, <1>12, <1>13, <1>14, <1>15 DEF Laid
  <2>3. pt = Table(vmap)
    BY <1>8, <1>12, <1>15 DEF Table, ZoneCells
  <2>. QED BY <2>1, <2>2, <2>3 DEF MapInv
<1>17. StateTypes
  BY <1>2, <1>8, LayoutTypes DEF StateTypes
<1>18. CapTypes
  BY <1>2, <1>3, CapabilityConstants DEF CapTypes
<1>19. SyncInv
  BY <1>12, <1>15 DEF SyncInv, Zones
<1>20. CallInv
  BY <1>2, LayoutTypes DEF CallInv, Carries
<1>21. StackInv
  BY <1>2 DEF StackInv
<1>22. RecordInv
  BY <1>3 DEF RecordInv
<1>23. LeakInv
  <2>1. LayoutFrees(M) = Owned(<<e>>) /\ Owned(<<e>>) = IF e.own THEN {e.blk} ELSE {}
    BY <1>12, <1>13, FreesOf
  <2>2. LayoutFrees(M) = {b}
    BY <1>9, <2>1
  <2>3. HeldByZone(b)
    BY <1>15, <2>2 DEF HeldByZone, Zones
  <2>. QED BY <1>8, <2>3 DEF LeakInv
<1>. QED
  BY <1>16, <1>17, <1>18, <1>19, <1>20, <1>21, <1>22, <1>23 DEF Inv

(* Every step keeps the invariant. *)
LEMMA InvStep ==
  ASSUME Inv, [Next]_vars
  PROVE  Inv'
<1>1. CASE UNCHANGED vars
  <2>1. /\ vmap' = vmap /\ pt' = pt /\ live' = live /\ lock' = lock /\ stacks' = stacks
        /\ call' = call /\ halt' = halt
        /\ caps' = caps /\ nextId' = nextId /\ capData' = capData /\ made' = made
    BY <1>1 DEF vars, asVars, capVars
  <2>2. MapInv(vmap, pt)' /\ StateTypes' /\ SyncInv' /\ CallInv'
    BY <2>1 DEF Inv, StateTypes, SyncInv, CallInv, Zones
  <2>3. CapTypes'
    BY <2>1 DEF Inv, CapTypes
  <2>4. StackInv' /\ LeakInv'
    BY <2>1 DEF Inv, StackInv, LeakInv, HeldByZone, HeldByCall, Zones
  <2>5. RecordInv'
    BY <2>1 DEF Inv, RecordInv, Zones
  <2>. QED BY <2>2, <2>3, <2>4, <2>5 DEF Inv
<1>2. CASE Next
  <2>1. PICK t \in Thread :
          \/ AsNext(t) /\ UNCHANGED capVars
          \/ SmemNew(t) \/ CapClone(t) \/ CloneInsert(t) \/ CapDestroy(t) \/ CapMapCall(t) \/ CapUnmap(t)
    BY <1>2 DEF Next
  <2>2. MapInv(vmap, pt)' /\ Effect(t)
    BY <2>1, NextStep
  <2>3. MapInv(vmap, pt) /\ StateTypes /\ CapTypes /\ SyncInv /\ CallInv /\ StackInv /\ RecordInv /\ LeakInv
    BY DEF Inv
  <2>4. StateTypes' /\ CapTypes' /\ SyncInv' /\ CallInv'
    BY <2>2, <2>3, StateTypesStep, CapTypesStep, SyncStep, CallStep
  <2>5. StackInv' /\ RecordInv' /\ LeakInv'
    BY <2>2, <2>3, StackStep, RecordStep, LeakStep
  <2>. QED BY <2>2, <2>4, <2>5 DEF Inv
<1>. QED
  BY <1>1, <1>2

(* The invariant holds of every state of every behaviour. *)
THEOREM InvCorrect == Spec => []Inv
<1>1. Init => Inv
  BY InvInit
<1>2. Inv /\ [Next]_vars => Inv'
  BY InvStep
<1>. QED
  BY <1>1, <1>2, PTL DEF Spec

(* The variables of the address space and of the capabilities always have  *)
(* their types: every range is one that a process may map, and every entry *)
(* of the page tables is for such a page and leads to a block of memory.   *)
THEOREM TypeCorrect == Spec => []TypeOK
<1>1. Inv => TypeOK
  <2>. SUFFICES ASSUME Inv PROVE TypeOK
    OBVIOUS
  <2>1. MapInv(vmap, pt) /\ StateTypes /\ CapTypes
    BY DEF Inv
  <2>2. \A z \in Zones : z.addr \in 1 .. MaxMap /\ z.size \in 1 .. MaxMap
    <3>1. \A z \in Zones : z \in Ranges
      BY <2>1 DEF MapInv, Tiled, Zones
    <3>2. ASSUME NEW z \in Ranges PROVE z.addr \in 1 .. MaxMap /\ z.size \in 1 .. MaxMap
      <4>1. z.addr \in Nat /\ z.size \in Nat /\ z.addr >= 1 /\ z.size >= 1 /\ z.addr + z.size <= MaxMap
        BY DEF Ranges, End
      <4>2. MaxMap \in Nat
        BY AddressSpaceConstants
      <4>. QED BY <4>1, <4>2
    <3>. QED BY <3>1, <3>2
  <2>3. ASSUME NEW c \in pt PROVE c.page \in 1 .. MaxMap /\ c.blk \in Block
    <3>1. PICK z \in DOMAIN vmap : c \in ZoneCells(vmap, z)
      BY <2>1, TableCell
    <3>2. Tiled(vmap) /\ Laid(vmap)
      BY <2>1 DEF MapInv
    <3>3. /\ c.page \in Nat /\ z.addr <= c.page /\ c.page < End(z) /\ c.blk \in Block
          /\ z.addr \in Nat /\ z.size \in Nat /\ z.addr >= 1 /\ End(z) = z.addr + z.size
          /\ End(z) <= MaxMap
      BY <3>1, <3>2, ZoneCellIn
    <3>4. MaxMap \in Nat
      BY AddressSpaceConstants
    <3>5. c.page \in 1 .. MaxMap
      BY ONLY <3>3, <3>4
    <3>. QED BY <3>3, <3>5
  <2>4. ASSUME NEW t \in Thread PROVE call[t].pc \in Pcs
    <3>1. call[t] \in Calls
      BY <2>1 DEF StateTypes
    <3>. QED BY <3>1 DEF Calls
  <2>. QED BY <2>1, <2>2, <2>3, <2>4 DEF TypeOK, StateTypes, CapTypes, Pcs
<1>. QED
  BY <1>1, InvCorrect, PTL

(* Whatever map, unmap, remap and their failures did, in any order: the    *)
(* page tables translate exactly the pages of the layouts in virt_map,     *)
(* each page once.                                                         *)
THEOREM PageTablesExact == Spec => []PageMapExact
<1>1. Inv => PageMapExact
  <2>. SUFFICES ASSUME Inv PROVE PageMapExact
    OBVIOUS
  <2>1. MapInv(vmap, pt)
    BY DEF Inv
  <2>2. Cardinality(PagesOf(pt)) = Cardinality(pt)
    BY <2>1, TableCardinality
  <2>. QED BY <2>1, <2>2 DEF PageMapExact, MapInv, Table, ZoneCells, Laid, Zones
<1>. QED
  BY <1>1, InvCorrect, PTL

(* A stack in the tables: its first page has no entry and the others have. *)
LEMMA StackPagesMapped ==
  ASSUME MapInv(vmap, pt), NEW z \in Zones, StackData(Mapped(vmap[z]))
  PROVE  z.addr \notin PagesOf(pt) /\ z.addr + 1 .. End(z) - 1 \subseteq PagesOf(pt)
<1>. DEFINE s == Mapped(vmap[z])
            a == z.addr
<1>1. /\ z \in DOMAIN vmap /\ z \in Ranges /\ s \in Seq(Elem) /\ Size(s) = z.size
      /\ Tiled(vmap) /\ Laid(vmap)
  BY DEF MapInv, Tiled, Laid, Zones
<1>2. a \in Nat /\ z.size \in Nat /\ End(z) = a + z.size /\ z.size >= 1
  BY <1>1 DEF Ranges, End
<1>3. Len(s) = 2 /\ s[1].flags = {} /\ s[1].size = 1 /\ s[2].flags # {}
  BY DEF StackData
<1>. HIDE DEF s, a
<1>4. s[2] \in Elem
  <2>1. s \in Seq(Elem) /\ 2 \in 1 .. Len(s)
    BY <1>1, <1>3
  <2>. QED BY ONLY <2>1
<1>5. s[2].size \in Nat
  BY <1>4 DEF Elem
<1>. DEFINE w == Offsets(s)
<1>6. w[0] = 0 /\ \A i \in 1 .. Len(s) : w[i] = w[i - 1] + s[i].size
  BY <1>1, OffsetsDef
<1>. HIDE DEF w
<1>7. w[1] = 1 /\ w[2] = 1 + s[2].size
  <2>1. 1 \in 1 .. Len(s) /\ 2 \in 1 .. Len(s) /\ 1 - 1 = 0 /\ 2 - 1 = 1
    BY <1>3
  <2>2. w[1] = w[0] + s[1].size /\ w[2] = w[1] + s[2].size
    BY <1>6, <2>1
  <2>. QED BY <1>3, <1>6, <2>2
<1>8. z.size = 1 + s[2].size
  BY <1>1, <1>3, <1>7 DEF Size, w
<1>9. ASSUME NEW k \in 0 .. s[2].size - 1
      PROVE  CellAt(s, a, 2, k) \in ZoneCells(vmap, z) /\ CellAt(s, a, 2, k).page = a + 1 + k
  <2>1. 2 \in 1 .. Len(s)
    BY <1>3
  <2>2. CellAt(s, a, 2, k) \in Cells(s, a)
    BY <1>1, <1>3, <2>1, CellsDef
  <2>3. CellAt(s, a, 2, k).page = a + Offsets(s)[2 - 1] + k
    BY DEF CellAt
  <2>4. Offsets(s)[2 - 1] = 1
    BY <1>7 DEF w
  <2>. QED BY <2>2, <2>3, <2>4 DEF ZoneCells, s, a
<1>10. ASSUME NEW c \in ZoneCells(vmap, z) PROVE c.page # a
  <2>1. c \in Cells(s, a)
    BY DEF ZoneCells, s, a
  <2>2. PICK i \in 1 .. Len(s) : \E k \in 0 .. s[i].size - 1 : s[i].flags # {} /\ c = CellAt(s, a, i, k)
    BY <1>1, <2>1, CellsDef
  <2>3. PICK k \in 0 .. s[i].size - 1 : s[i].flags # {} /\ c = CellAt(s, a, i, k)
    BY <2>2
  <2>4. i = 2
    <3>1. i # 1
      BY <1>3, <2>3
    <3>. QED BY <1>3, <3>1
  <2>5. k \in 0 .. s[2].size - 1
    BY <2>4
  <2>6. c.page = a + 1 + k
    BY <1>9, <2>3, <2>4, <2>5
  <2>. QED BY <1>2, <1>5, <2>5, <2>6
<1>11. ASSUME NEW c \in pt PROVE c.page # a
  <2>1. PICK y \in DOMAIN vmap : c \in ZoneCells(vmap, y)
    BY TableCell
  <2>2. CASE y = z
    BY <1>10, <2>1, <2>2
  <2>3. CASE y # z
    <3>1. ~ (z.addr <= c.page /\ c.page < End(z))
      BY <1>1, <2>1, <2>3, ZoneOfPage
    <3>. QED BY <1>2, <3>1 DEF a
  <2>. QED BY <2>2, <2>3
<1>12. a \notin PagesOf(pt)
  BY <1>11 DEF PagesOf
<1>13. ASSUME NEW p \in a + 1 .. End(z) - 1 PROVE p \in PagesOf(pt)
  <2>1. p - a - 1 \in 0 .. s[2].size - 1 /\ a + 1 + (p - a - 1) = p
    BY <1>2, <1>5, <1>8
  <2>2. PICK k \in 0 .. s[2].size - 1 : a + 1 + k = p
    BY <2>1
  <2>3. CellAt(s, a, 2, k) \in ZoneCells(vmap, z) /\ CellAt(s, a, 2, k).page = p
    BY <1>9, <2>2
  <2>4. CellAt(s, a, 2, k) \in pt
    BY <1>1, <2>3, TableCell
  <2>. QED BY <2>3, <2>4 DEF PagesOf
<1>. QED
  BY <1>12, <1>13 DEF a

(* No call of any thread, from whatever range it looked up earlier, takes  *)
(* the range of a Stack value away or maps its guard page, and the unwraps *)
(* of Stack::dealloc and cap_unmap never panic.                            *)
THEOREM StacksSafe == Spec => []StacksMapped
<1>1. Inv => StacksMapped
  <2>. SUFFICES ASSUME Inv PROVE StacksMapped
    OBVIOUS
  <2>1. MapInv(vmap, pt) /\ StackInv
    BY DEF Inv
  <2>2. ASSUME NEW z \in stacks
        PROVE  /\ Known(z, "Protected") /\ z.addr \notin PagesOf(pt)
               /\ z.addr + 1 .. End(z) - 1 \subseteq PagesOf(pt)
    <3>1. z \in Zones /\ vmap[z].atype = "Protected" /\ StackData(Mapped(vmap[z]))
      BY <2>1 DEF StackInv
    <3>. QED BY <2>1, <3>1, StackPagesMapped DEF Known
  <2>. QED BY <2>1, <2>2 DEF StacksMapped, StackInv
<1>. QED
  BY <1>1, InvCorrect, PTL

(* Every block in use belongs to a layout or to a shared memory that still *)
(* has a capability, also when a call failed half way; only the memory of  *)
(* those that have none is lost.                                           *)
THEOREM NothingLeaks == Spec => []NoLeak
<1>1. Inv => NoLeak
  <2>. SUFFICES ASSUME Inv, NEW b \in live, b \notin Dropped, b \notin DOMAIN capData
                PROVE  \E L \in Holders : b \in LayoutFrees(L)
    <3>1. (\A b \in live : \/ b \in Dropped \/ b \in DOMAIN capData
                            \/ \E L \in Holders : b \in LayoutFrees(L)) => NoLeak
      BY DEF NoLeak
    <3>. QED BY <3>1
  <2>0. b \notin DOMAIN made
    BY DEF Dropped
  <2>1. HeldByZone(b) \/ HeldByCall(b)
    BY <2>0 DEF Inv, LeakInv
  <2>2. \A z \in Zones : vmap[z] \in Holders
    BY DEF Holders
  <2>3. \A t \in Thread : call[t].pc \in {"map", "dealloc"} => call[t].lay \in Holders
    BY DEF Holders
  <2>. QED BY <2>1, <2>2, <2>3 DEF HeldByZone, HeldByCall
<1>. QED
  BY <1>1, InvCorrect, PTL

-----------------------------------------------------------------------------
(* The refinement of Regions.                                              *)

(* What the code above sees, as the layouts say it. *)
RegionsExact == {RegionOf(z) : z \in Zones} = RegionsOf(vmap)

(* One region at a time appears, goes, or is replaced by one that begins   *)
(* with the same contents.                                                 *)
RegionsStep(A, B) ==
  \/ B = A
  \/ \E r \in B : R!Fits(r, A) /\ B = A \cup {r}
  \/ \E r \in A : B = A \ {r}
  \/ \E r \in A, s \in B :
       /\ R!Fits(s, A \ {r}) /\ B = (A \ {r}) \cup {s}
       /\ \A i \in 1 .. (IF Len(r.pages) < Len(s.pages) THEN Len(r.pages) ELSE Len(s.pages)) :
            s.pages[i] = r.pages[i]

(* The contents of a range that grows or moves. *)
LEMMA RegionContents ==
  ASSUME NEW m, NEW p, MapInv(m, p), NEW n, NEW q, MapInv(n, q),
         NEW z \in DOMAIN m, NEW y \in DOMAIN n, Synced(m[z]), Synced(n[y]),
         n[y].data = m[z].data \/ \E e \in Elem : n[y].data = Append(m[z].data, e),
         NEW i \in 1 .. z.size
  PROVE  i \in 1 .. y.size => Region(n, y).pages[i] = Region(m, z).pages[i]
<1>. SUFFICES ASSUME i \in 1 .. y.size PROVE Region(n, y).pages[i] = Region(m, z).pages[i]
  OBVIOUS
<1>. DEFINE s == m[z].data
            u == n[y].data
<1>1. Mapped(m[z]) = s /\ Mapped(n[y]) = u
  BY SyncedUnmaps
<1>2. /\ s \in Seq(Elem) /\ Size(s) = z.size /\ z.addr \in Nat /\ y.addr \in Nat
  BY <1>1 DEF MapInv, Laid, Tiled, Ranges
<1>. HIDE DEF s, u
<1>3. Region(m, z).pages[i] = Contents(Cells(s, z.addr), z.addr, i)
  BY <1>1 DEF Region, ZoneCells
<1>4. Region(n, y).pages[i] = Contents(Cells(u, y.addr), y.addr, i)
  BY <1>1 DEF Region, ZoneCells
<1>5. i \in 1 .. Size(s)
  BY <1>2
<1>6. /\ Contents(Cells(s, z.addr), z.addr, i) = Contents(Cells(s, y.addr), y.addr, i)
      /\ \A e \in Elem : Contents(Cells(Append(s, e), y.addr), y.addr, i)
                           = Contents(Cells(s, z.addr), z.addr, i)
  BY <1>2, <1>5, ContentsKept
<1>7. u = s \/ \E e \in Elem : u = Append(s, e)
  BY DEF s, u
<1>. QED
  BY <1>3, <1>4, <1>6, <1>7

(* Every step of a thread is a step of Regions, or none. *)
LEMMA RegionsNext ==
  ASSUME MapInv(vmap, pt), SyncInv, NEW t \in Thread, Effect(t), MapInv(vmap', pt')
  PROVE  RegionsStep(RegionsOf(vmap), RegionsOf(vmap'))
<1>. DEFINE A == RegionsOf(vmap)
            B == RegionsOf(vmap')
<1>. SUFFICES RegionsStep(A, B)
  OBVIOUS
<1>1. Tiled(vmap) /\ Tiled(vmap')
  BY DEF MapInv
<1>2. CASE Still \/ Kept
  <2>1. B = A
    BY <1>2, KeptInv
  <2>. QED BY <2>1 DEF RegionsStep
<1>3. ASSUME NEW z, NEW L, Added(z, L) PROVE RegionsStep(A, B)
  <2>1. /\ z \notin DOMAIN vmap /\ DOMAIN vmap' = DOMAIN vmap \cup {z}
        /\ \A y \in DOMAIN vmap : vmap'[y] = vmap[y]
    BY <1>3 DEF Added
  <2>2. R!Fits(Region(vmap', z), A) /\ B = A \cup {Region(vmap', z)}
    BY <1>1, <2>1, RegionMapped
  <2>. HIDE DEF A, B
  <2>3. Region(vmap', z) \in B
    BY <2>2
  <2>. QED BY <2>2, <2>3 DEF RegionsStep
<1>4. ASSUME NEW z, Removed(z) PROVE RegionsStep(A, B)
  <2>1. z \in DOMAIN vmap /\ DOMAIN vmap' = DOMAIN vmap \ {z}
        /\ \A y \in DOMAIN vmap \ {z} : vmap'[y] = vmap[y]
    BY <1>4 DEF Removed
  <2>2. B = A \ {Region(vmap, z)}
    BY <1>1, <2>1, RegionUnmapped
  <2>3. Region(vmap, z) \in A
    BY <2>1 DEF RegionsOf
  <2>. HIDE DEF A, B
  <2>. QED BY <2>2, <2>3 DEF RegionsStep
<1>5. CASE Grow(t)
  <2>1. PICK z \in Zones, nz \in Ranges, L \in Layouts :
          /\ lock = NoThread /\ Moved(z, nz, L) /\ Synced(L)
          /\ L.data = vmap[z].data \/ \E e \in Elem : L.data = Append(vmap[z].data, e)
    BY <1>5 DEF Grow
  <2>2. /\ z \in DOMAIN vmap /\ nz \notin DOMAIN vmap \ {z}
        /\ DOMAIN vmap' = (DOMAIN vmap \ {z}) \cup {nz} /\ vmap'[nz] = L
        /\ \A y \in DOMAIN vmap \ {z} : vmap'[y] = vmap[y]
    BY <2>1 DEF Moved
  <2>. DEFINE r == Region(vmap, z)
              s == Region(vmap', nz)
              kept == IF Len(r.pages) < Len(s.pages) THEN Len(r.pages) ELSE Len(s.pages)
  <2>3. R!Fits(s, A \ {r}) /\ B = (A \ {r}) \cup {s}
    BY <1>1, <2>2, RegionMoved
  <2>4. r \in A /\ s \in B
    BY <2>2 DEF RegionsOf
  <2>5. Len(r.pages) = z.size /\ Len(s.pages) = nz.size
    BY <1>1, <2>2, RegionFits
  <2>6. z.size \in Nat /\ nz.size \in Nat
    BY <1>1, <2>2 DEF Tiled, Ranges
  <2>7. \A i \in 1 .. kept : i \in 1 .. z.size /\ i \in 1 .. nz.size
    BY <2>5, <2>6
  <2>8. Synced(vmap[z])
    BY <2>1 DEF SyncInv
  <2>9. ASSUME NEW i \in 1 .. z.size PROVE i \in 1 .. nz.size => s.pages[i] = r.pages[i]
    <3>1. nz \in DOMAIN vmap' /\ Synced(vmap'[nz])
      BY <2>1, <2>2
    <3>2. vmap'[nz].data = vmap[z].data \/ \E e \in Elem : vmap'[nz].data = Append(vmap[z].data, e)
      BY <2>1, <2>2
    <3>. QED BY <2>2, <2>8, <3>1, <3>2, RegionContents
  <2>. HIDE DEF r, s, A, B
  <2>10. \A i \in 1 .. kept : s.pages[i] = r.pages[i]
    BY <2>7, <2>9
  <2>. QED BY <2>3, <2>4, <2>10 DEF RegionsStep
<1>. HIDE DEF A, B
<1>6. CASE Put(t)
  BY <1>3, <1>6 DEF Put
<1>7. CASE Shared
  BY <1>3, <1>7 DEF Shared
<1>8. CASE TakeOut(t)
  BY <1>4, <1>8 DEF TakeOut
<1>9. CASE Unshared
  BY <1>4, <1>9 DEF Unshared
<1>10. CASE \/ Take(t) \/ GiveBack(t) \/ Look(t) \/ Stick(t)
            \/ NewObject \/ Copied(t) \/ CopyInserted(t) \/ Destroyed
  <2>1. Still \/ Kept
    BY <1>10 DEF Take, GiveBack, Look, Stick, NewObject, Copied, CopyInserted, Destroyed
  <2>. QED BY <1>2, <2>1
<1>. QED
  BY <1>5, <1>6, <1>7, <1>8, <1>9, <1>10 DEF Effect, AsEffect, CapEffect

(* The calls on the address space and on capabilities implement Regions:   *)
(* ranges appear where there is room, go as a whole, and a range that      *)
(* grows or moves keeps its contents, as the page tables translate them.   *)
THEOREM AddressSpaceImplementsRegions == Spec => ImplementsRegions
<1>1. Inv => RegionsExact
  <2>. SUFFICES ASSUME Inv PROVE RegionsExact
    OBVIOUS
  <2>1. MapInv(vmap, pt)
    BY DEF Inv
  <2>. QED BY <2>1, RegionTable DEF RegionsExact
<1>2. Inv /\ RegionsExact => R!Init
  <2>. SUFFICES ASSUME Inv, RegionsExact PROVE R!Init
    OBVIOUS
  <2>1. Tiled(vmap)
    BY DEF Inv, MapInv
  <2>2. ASSUME NEW r \in RegionsOf(vmap), NEW s \in RegionsOf(vmap) \ {r}
        PROVE  R!Span(r) \cap R!Span(s) = {}
    <3>1. PICK z \in DOMAIN vmap : r = Region(vmap, z)
      BY DEF RegionsOf
    <3>2. s \in {Region(vmap, y) : y \in DOMAIN vmap \ {z}}
      BY <2>1, <3>1, RegionDistinct
    <3>3. R!Fits(Region(vmap, z), {Region(vmap, y) : y \in DOMAIN vmap \ {z}})
      BY <2>1, RegionFits
    <3>. QED BY <3>1, <3>2, <3>3 DEF R!Fits
  <2>. QED BY <2>2 DEF RegionsExact, R!Init
<1>3. Inv /\ Inv' /\ RegionsExact /\ RegionsExact' /\ [Next]_vars
        => [R!Next]_({RegionOf(z) : z \in Zones})
  <2>. SUFFICES ASSUME Inv, Inv', RegionsExact, RegionsExact', [Next]_vars
                PROVE  [R!Next]_({RegionOf(z) : z \in Zones})
    OBVIOUS
  <2>1. /\ {RegionOf(z) : z \in Zones} = RegionsOf(vmap)
        /\ {RegionOf(z) : z \in Zones}' = RegionsOf(vmap')
    BY DEF RegionsExact
  <2>2. RegionsStep(RegionsOf(vmap), RegionsOf(vmap'))
    <3>1. CASE UNCHANGED vars
      <4>1. vmap' = vmap
        BY <3>1 DEF vars, asVars
      <4>. QED BY <4>1 DEF RegionsStep
    <3>2. CASE Next
      <4>1. PICK t \in Thread :
              \/ AsNext(t) /\ UNCHANGED capVars
              \/ SmemNew(t) \/ CapClone(t) \/ CloneInsert(t) \/ CapDestroy(t) \/ CapMapCall(t)
              \/ CapUnmap(t)
        BY <3>2 DEF Next
      <4>2. MapInv(vmap', pt') /\ Effect(t)
        BY <4>1, NextStep
      <4>. QED BY <4>2, RegionsNext DEF Inv
    <3>. QED BY <3>1, <3>2
  <2>. QED BY <2>1, <2>2 DEF RegionsStep, R!Next, R!Map, R!Unmap, R!Remap
<1>. QED
  BY <1>1, <1>2, <1>3, InvCorrect, PTL DEF Spec, ImplementsRegions, R!Spec

-----------------------------------------------------------------------------
(* Where no block is handed out between the two deallocs of its layout.    *)

(* Who holds a block after a step. *)
LEMMA HoldersAfter ==
  ASSUME NEW b
  PROVE  /\ Kept \/ Still => \A y : InZone(y, b)' <=> InZone(y, b)
         /\ \A z, L : Added(z, L) =>
              \A y : InZone(y, b)' <=> (InZone(y, b) \/ (y = z /\ b \in LayoutFrees(L)))
         /\ \A z : Removed(z) => \A y : InZone(y, b)' <=> (InZone(y, b) /\ y # z)
         /\ \A z, nz, L : Moved(z, nz, L) =>
              \A y : InZone(y, b)' <=> ((InZone(y, b) /\ y # z) \/ (y = nz /\ b \in LayoutFrees(L)))
         /\ \A t \in Thread : \A c : SetCall(t, c) =>
              /\ \A u : u # t => InCall(u, b)' <=> InCall(u, b)
              /\ InCall(t, b)' <=> (c.pc \in {"map", "dealloc"} /\ b \in LayoutFrees(c.lay))
<1>1. ASSUME NEW y PROVE InZone(y, b) <=> (y \in DOMAIN vmap /\ b \in LayoutFrees(vmap[y]))
  BY DEF InZone, Zones
<1>2. ASSUME NEW y PROVE InZone(y, b)' <=> (y \in DOMAIN vmap' /\ b \in LayoutFrees(vmap'[y]))
  BY DEF InZone, Zones
<1>3. ASSUME Kept \/ Still, NEW y PROVE InZone(y, b)' <=> InZone(y, b)
  BY <1>1, <1>2, <1>3 DEF Kept, Still
<1>4. ASSUME NEW z, NEW L, Added(z, L), NEW y
      PROVE  InZone(y, b)' <=> (InZone(y, b) \/ (y = z /\ b \in LayoutFrees(L)))
  BY <1>1, <1>2, <1>4 DEF Added
<1>5. ASSUME NEW z, Removed(z), NEW y PROVE InZone(y, b)' <=> (InZone(y, b) /\ y # z)
  <2>1. /\ \A x : x \in DOMAIN vmap' <=> x \in DOMAIN vmap /\ x # z
        /\ \A x \in DOMAIN vmap : x # z => vmap'[x] = vmap[x]
    BY <1>5 DEF Removed
  <2>. QED BY <1>1, <1>2, <2>1
<1>6. ASSUME NEW z, NEW nz, NEW L, Moved(z, nz, L), NEW y
      PROVE  InZone(y, b)' <=> ((InZone(y, b) /\ y # z) \/ (y = nz /\ b \in LayoutFrees(L)))
  BY <1>1, <1>2, <1>6 DEF Moved
<1>7. ASSUME NEW t \in Thread, NEW c, SetCall(t, c)
      PROVE  /\ \A u : u # t => InCall(u, b)' <=> InCall(u, b)
             /\ InCall(t, b)' <=> (c.pc \in {"map", "dealloc"} /\ b \in LayoutFrees(c.lay))
  BY <1>7 DEF SetCall, InCall
<1>. QED
  BY <1>3, <1>4, <1>5, <1>6, <1>7

(* Every block keeps a single holder. *)
LEMMA OwnStep ==
  ASSUME StateTypes, CapTypes, OwnInv, NoReuse, NEW t \in Thread, Effect(t)
  PROVE  OwnInv'
<1>0. /\ DOMAIN made \subseteq live /\ live \subseteq Block
      /\ \A z, b : InZone(z, b) => b \in live \ DOMAIN made
      /\ \A u, b : InCall(u, b) => b \in live \ DOMAIN made
      /\ \A y, z, b : InZone(y, b) /\ InZone(z, b) => y = z
      /\ \A u, v, b : InCall(u, b) /\ InCall(v, b) => u = v
      /\ \A z, u, b : ~ (InZone(z, b) /\ InCall(u, b))
  BY DEF OwnInv, StateTypes
<1>. DEFINE Own(b) ==
       /\ b \in DOMAIN made' => b \in live'
       /\ \A z : InZone(z, b)' => b \in live' /\ b \notin DOMAIN made'
       /\ \A u : InCall(u, b)' => b \in live' /\ b \notin DOMAIN made'
       /\ \A y, z : InZone(y, b)' /\ InZone(z, b)' => y = z
       /\ \A u, v : InCall(u, b)' /\ InCall(v, b)' => u = v
       /\ \A z, u : ~ (InZone(z, b)' /\ InCall(u, b)')
<1>1. SUFFICES ASSUME NEW b PROVE Own(b)
  BY DEF OwnInv
<1>2. Idle.pc = "idle"
  BY LayoutTypes
<1>3. \A u : InCall(u, b) => call[u].pc \in {"map", "dealloc"}
  BY DEF InCall
<1>4. ASSUME call' = call PROVE \A u : InCall(u, b)' <=> InCall(u, b)
  BY <1>4 DEF InCall
<1>5. CASE AsEffect(t) /\ UNCHANGED capVars
  <2>0. made' = made
    BY <1>5 DEF capVars
  <2>1. CASE Take(t)
    <3>1. PICK c \in Calls, a \in Block \cup {NoBlock} :
            /\ call[t].pc = "idle" /\ SetCall(t, c) /\ a \notin live /\ Still
            /\ live' = live \cup ({a} \ {NoBlock}) /\ LayoutFrees(c.lay) = {a} \ {NoBlock}
      BY <2>1 DEF Take
    <3>2. \A y : InZone(y, b)' <=> InZone(y, b)
      BY <3>1, HoldersAfter
    <3>3. /\ \A u : u # t => InCall(u, b)' <=> InCall(u, b)
          /\ InCall(t, b)' => b \in LayoutFrees(c.lay)
      BY <3>1, HoldersAfter
    <3>. QED BY <1>0, <2>0, <3>1, <3>2, <3>3
  <2>2. CASE Put(t)
    <3>1. PICK z \in Ranges, L \in Layouts :
            /\ call[t].pc = "map" /\ Added(z, L) /\ LayoutFrees(L) = LayoutFrees(call[t].lay)
            /\ SetCall(t, Idle) /\ live' = live
      BY <2>2 DEF Put
    <3>2. \A y : InZone(y, b)' <=> (InZone(y, b) \/ (y = z /\ b \in LayoutFrees(call[t].lay)))
      BY <3>1, HoldersAfter
    <3>3. (\A u : u # t => InCall(u, b)' <=> InCall(u, b)) /\ ~ InCall(t, b)'
      BY <1>2, <3>1, HoldersAfter
    <3>4. b \in LayoutFrees(call[t].lay) => InCall(t, b)
      BY <3>1 DEF InCall
    <3>. QED BY <1>0, <2>0, <3>1, <3>2, <3>3, <3>4
  <2>3. CASE GiveBack(t)
    <3>1. PICK c \in Calls :
            /\ call[t].pc \in {"map", "dealloc", "drop"} /\ SetCall(t, c) /\ c.pc \in {"idle", "drop"}
            /\ live' = live \ LayoutFrees(call[t].lay) /\ Still
      BY <2>3 DEF GiveBack
    <3>2. \A y : InZone(y, b)' <=> InZone(y, b)
      BY <3>1, HoldersAfter
    <3>3. (\A u : u # t => InCall(u, b)' <=> InCall(u, b)) /\ ~ InCall(t, b)'
      BY <3>1, HoldersAfter
    <3>4. b \in LayoutFrees(call[t].lay) /\ b \in live => InCall(t, b)
      BY <3>1 DEF NoReuse, InCall
    <3>5. b \in live' <=> b \in live /\ b \notin LayoutFrees(call[t].lay)
      BY <3>1
    <3>. QED BY <1>0, <2>0, <3>2, <3>3, <3>4, <3>5
  <2>4. CASE Look(t)
    <3>1. PICK c \in Calls :
            /\ call[t].pc \in {"idle", "unmap", "remap"} /\ c.pc \in {"idle", "unmap", "remap"}
            /\ SetCall(t, c) /\ Still /\ live' = live
      BY <2>4 DEF Look
    <3>2. \A y : InZone(y, b)' <=> InZone(y, b)
      BY <3>1, HoldersAfter
    <3>3. (\A u : u # t => InCall(u, b)' <=> InCall(u, b)) /\ ~ InCall(t, b)'
      BY <3>1, HoldersAfter
    <3>. QED BY <1>0, <2>0, <3>1, <3>2, <3>3
  <2>5. CASE TakeOut(t)
    <3>1. PICK z \in Zones, c \in Calls :
            /\ call[t].pc \in {"idle", "unmap"} /\ Removed(z) /\ SetCall(t, c)
            /\ LayoutFrees(c.lay) = LayoutFrees(vmap[z]) /\ live' = live
      BY <2>5 DEF TakeOut
    <3>2. \A y : InZone(y, b)' <=> (InZone(y, b) /\ y # z)
      BY <3>1, HoldersAfter
    <3>3. /\ \A u : u # t => InCall(u, b)' <=> InCall(u, b)
          /\ InCall(t, b)' => b \in LayoutFrees(vmap[z])
      BY <3>1, HoldersAfter
    <3>4. b \in LayoutFrees(vmap[z]) => InZone(z, b)
      BY DEF InZone
    <3>. QED BY <1>0, <2>0, <3>1, <3>2, <3>3, <3>4
  <2>6. CASE Grow(t)
    <3>1. PICK z \in Zones, nz \in Ranges, L \in Layouts, a \in Block \cup {NoBlock} :
            /\ Moved(z, nz, L) /\ a \notin live /\ live' = live \cup ({a} \ {NoBlock})
            /\ LayoutFrees(L) = LayoutFrees(vmap[z]) \cup ({a} \ {NoBlock}) /\ SetCall(t, Idle)
      BY <2>6 DEF Grow
    <3>2. \A y : InZone(y, b)' <=> ((InZone(y, b) /\ y # z) \/ (y = nz /\ b \in LayoutFrees(L)))
      BY <3>1, HoldersAfter
    <3>3. (\A u : u # t => InCall(u, b)' <=> InCall(u, b)) /\ ~ InCall(t, b)'
      BY <1>2, <3>1, HoldersAfter
    <3>4. b \in LayoutFrees(L) => InZone(z, b) \/ (b = a /\ b \in live')
      BY <3>1 DEF InZone
    <3>5. b \in live => b \in live'
      BY <3>1
    <3>6. b = a => b \notin live
      BY <3>1
    <3>. QED BY <1>0, <2>0, <3>2, <3>3, <3>4, <3>5, <3>6
  <2>7. CASE Stick(t)
    <3>1. PICK c \in Calls : SetCall(t, c) /\ c.pc = "spin" /\ Kept /\ live' = live
      BY <2>7 DEF Stick
    <3>2. \A y : InZone(y, b)' <=> InZone(y, b)
      BY <3>1, HoldersAfter
    <3>3. (\A u : u # t => InCall(u, b)' <=> InCall(u, b)) /\ ~ InCall(t, b)'
      BY <3>1, HoldersAfter
    <3>. QED BY <1>0, <2>0, <3>1, <3>2, <3>3
  <2>. QED BY <1>5, <2>1, <2>2, <2>3, <2>4, <2>5, <2>6, <2>7 DEF AsEffect
<1>6. CASE NewObject
  <2>1. PICK a \in Block : /\ a \notin live /\ live' = live \cup {a} /\ call' = call /\ Still
                           /\ DOMAIN made' = DOMAIN made \cup {a}
    BY <1>6 DEF NewObject
  <2>2. \A y : InZone(y, b)' <=> InZone(y, b)
    BY <2>1, HoldersAfter
  <2>. QED BY <1>0, <1>4, <2>1, <2>2
<1>7. CASE Copied(t) \/ CopyInserted(t)
  <2>1. PICK c : SetCall(t, c) /\ c.pc \in {"idle", "clone"} /\ live' = live /\ made' = made /\ Still
    BY <1>2, <1>7 DEF Copied, CopyInserted, capVars
  <2>2. \A y : InZone(y, b)' <=> InZone(y, b)
    BY <2>1, HoldersAfter
  <2>3. (\A u : u # t => InCall(u, b)' <=> InCall(u, b)) /\ ~ InCall(t, b)'
    BY <2>1, HoldersAfter
  <2>. QED BY <1>0, <2>1, <2>2, <2>3
<1>8. CASE Destroyed
  <2>1. live' = live /\ made' = made /\ call' = call /\ Still
    BY <1>8 DEF Destroyed
  <2>2. \A y : InZone(y, b)' <=> InZone(y, b)
    BY <2>1, HoldersAfter
  <2>. QED BY <1>0, <1>4, <2>1, <2>2
<1>9. CASE Shared
  <2>1. PICK z \in Ranges, L \in Layouts :
          /\ live' = live /\ made' = made /\ call' = call /\ Added(z, L) /\ LayoutFrees(L) = {}
    BY <1>9 DEF Shared
  <2>2. \A y : InZone(y, b)' <=> InZone(y, b)
    BY <2>1, HoldersAfter
  <2>. QED BY <1>0, <1>4, <2>1, <2>2
<1>10. CASE Unshared
  <2>1. PICK z : live' = live /\ made' = made /\ call' = call /\ Removed(z)
    BY <1>10 DEF Unshared
  <2>2. \A y : InZone(y, b)' => InZone(y, b)
    BY <2>1, HoldersAfter
  <2>. QED BY <1>0, <1>4, <2>1, <2>2
<1>. QED
  BY <1>5, <1>6, <1>7, <1>8, <1>9, <1>10 DEF Effect, CapEffect

(* A layout that owns what it maps has the blocks for it. *)
LEMMA OwnsBacked ==
  ASSUME NEW s \in Seq(Elem)
  PROVE  /\ Owns(s) => Backed(s, Owned(s))
         /\ \A e \in Elem : \A F, G : Backed(s, F) /\ F \subseteq G /\ Keeps(e) /\ Owned(<<e>>) \subseteq G
              => Backed(Append(s, e), G)
<1>1. ASSUME Owns(s) PROVE Backed(s, Owned(s))
  <2>. SUFFICES ASSUME NEW i \in 1 .. Len(s), s[i].flags # {} PROVE s[i].blk \in Owned(s)
    BY DEF Backed
  <2>1. s[i].own
    BY <1>1 DEF Owns, Keeps
  <2>2. s[i] \in ToSet(s)
    BY DEF ToSet
  <2>. QED BY <2>1, <2>2 DEF Owned
<1>2. ASSUME NEW e \in Elem, NEW F, NEW G, Backed(s, F), F \subseteq G, Keeps(e), Owned(<<e>>) \subseteq G
      PROVE  Backed(Append(s, e), G)
  <2>. DEFINE u == Append(s, e)
  <2>. SUFFICES ASSUME NEW i \in 1 .. Len(u), u[i].flags # {} PROVE u[i].blk \in G
    BY DEF Backed
  <2>1. (i \in 1 .. Len(s) /\ u[i] = s[i]) \/ u[i] = e
    OBVIOUS
  <2>. HIDE DEF u
  <2>2. CASE i \in 1 .. Len(s) /\ u[i] = s[i]
    BY <1>2, <2>2 DEF Backed
  <2>3. CASE u[i] = e
    <3>1. e.own
      BY <1>2, <2>3 DEF Keeps
    <3>2. Owned(<<e>>) = IF e.own THEN {e.blk} ELSE {}
      BY FreesOf
    <3>. QED BY <1>2, <2>3, <3>1, <3>2
  <2>. QED BY <2>1, <2>2, <2>3
<1>. QED
  BY <1>1, <1>2

(* The Shared ranges are the ones that are recorded and those of the       *)
(* objects that were dropped, and what is mapped in the others belongs to  *)
(* them.                                                                   *)
LEMMA SharedStep ==
  ASSUME MapInv(vmap, pt), StateTypes, CapTypes, SyncInv, CallInv, RecordInv, OwnInv, SharedInv,
         RightsInv, NEW t \in Thread, Effect(t)
  PROVE  SharedInv'
<1>. DEFINE Ok(d, m, z, L) == /\ L.atype = "Shared" => Recorded(d, z) \/ Orphan(d, m, L)
                              /\ L.atype # "Shared" => Backed(Mapped(L), LayoutFrees(L))
            CallOk(c) == c.pc = "map" => Backed(c.lay.data, LayoutFrees(c.lay))
<1>1. \A z \in DOMAIN vmap : Ok(capData, made, z, vmap[z])
  BY DEF SharedInv, Zones
<1>2. \A u \in Thread : CallOk(call[u])
  BY DEF SharedInv
<1>3. SUFFICES /\ \A z \in DOMAIN vmap' : Ok(capData', made', z, vmap'[z])
               /\ \A u \in Thread : CallOk(call'[u])
  BY DEF SharedInv, Zones
<1>4. ASSUME NEW c, SetCall(t, c), CallOk(c) PROVE \A u \in Thread : CallOk(call'[u])
  BY <1>2, <1>4 DEF SetCall
<1>5. Idle.pc = "idle"
  BY LayoutTypes
<1>6. ASSUME Still \/ Kept, capData' = capData, made' = made
      PROVE  \A z \in DOMAIN vmap' : Ok(capData', made', z, vmap'[z])
  BY <1>1, <1>6 DEF Still, Kept
<1>7. CASE AsEffect(t) /\ UNCHANGED capVars
  <2>0. capData' = capData /\ made' = made
    BY <1>7 DEF capVars
  <2>1. CASE Take(t)
    <3>1. PICK c \in Calls : SetCall(t, c) /\ Fresh(c.lay) /\ Owns(c.lay.data) /\ Still
      BY <2>1 DEF Take
    <3>2. c.lay.data \in Seq(Elem) /\ LayoutFrees(c.lay) = Owned(c.lay.data)
      BY <3>1, FreesOf DEF Fresh, Layouts, Elems
    <3>3. CallOk(c)
      BY <3>1, <3>2, OwnsBacked
    <3>. HIDE DEF Ok, CallOk
    <3>. QED BY <1>4, <1>6, <2>0, <3>1, <3>3
  <2>2. CASE Put(t)
    <3>1. PICK z \in Ranges, L \in Layouts :
            /\ call[t].pc = "map" /\ Added(z, L) /\ Synced(L) /\ L.data = call[t].lay.data
            /\ L.atype = call[t].lay.atype /\ LayoutFrees(L) = LayoutFrees(call[t].lay)
            /\ SetCall(t, Idle)
      BY <2>2 DEF Put
    <3>2. Mapped(L) = L.data
      BY <3>1, SyncedUnmaps
    <3>3. L.atype # "Shared"
      BY <3>1 DEF CallInv, Carries
    <3>4. Ok(capData, made, z, L)
      BY <1>2, <3>1, <3>2, <3>3
    <3>5. CallOk(Idle)
      BY <1>5
    <3>. HIDE DEF Ok, CallOk
    <3>6. \A y \in DOMAIN vmap' : Ok(capData, made, y, vmap'[y])
      BY <1>1, <3>1, <3>4 DEF Added
    <3>. QED BY <1>4, <2>0, <3>1, <3>5, <3>6
  <2>3. CASE GiveBack(t) \/ Look(t) \/ Stick(t)
    <3>1. \E c : SetCall(t, c) /\ c.pc # "map"
      BY <2>3 DEF GiveBack, Look, Stick
    <3>2. Still \/ Kept
      BY <2>3 DEF GiveBack, Look, Stick
    <3>3. PICK c : SetCall(t, c) /\ CallOk(c)
      BY <3>1
    <3>. HIDE DEF Ok, CallOk
    <3>. QED BY <1>4, <1>6, <2>0, <3>2, <3>3
  <2>4. CASE TakeOut(t)
    <3>1. PICK z \in Zones, c \in Calls : Removed(z) /\ SetCall(t, c) /\ c.pc = "dealloc"
      BY <2>4 DEF TakeOut
    <3>2. CallOk(c)
      BY <3>1
    <3>. HIDE DEF Ok, CallOk
    <3>3. \A y \in DOMAIN vmap' : Ok(capData, made, y, vmap'[y])
      BY <1>1, <3>1 DEF Removed
    <3>. QED BY <1>4, <2>0, <3>1, <3>2, <3>3
  <2>5. CASE Grow(t)
    <3>1. PICK z \in Zones, nz \in Ranges, L \in Layouts, a \in Block \cup {NoBlock} :
            /\ lock = NoThread /\ vmap[z].atype = "VirtMem" /\ Moved(z, nz, L) /\ Synced(L)
            /\ L.atype = "VirtMem"
            /\ \/ L.data = vmap[z].data
               \/ \E e \in Elem : Keeps(e) /\ L.data = Append(vmap[z].data, e)
            /\ LayoutFrees(L) = LayoutFrees(vmap[z]) \cup ({a} \ {NoBlock})
            /\ SetCall(t, Idle)
      BY <2>5 DEF Grow
    <3>2. Synced(vmap[z]) /\ z \in DOMAIN vmap
      BY <3>1 DEF SyncInv, Zones
    <3>3. Mapped(L) = L.data /\ Mapped(vmap[z]) = vmap[z].data
      BY <3>1, <3>2, SyncedUnmaps
    <3>4. Backed(vmap[z].data, LayoutFrees(vmap[z])) /\ vmap[z].data \in Seq(Elem)
      BY <1>1, <3>1, <3>2, <3>3 DEF Synced, Layouts, Elems
    <3>5. LayoutFrees(vmap[z]) \subseteq LayoutFrees(L) /\ LayoutFrees(L) = Owned(L.data)
      BY <3>1, FreesOf DEF Synced
    <3>6. Backed(L.data, LayoutFrees(L))
      <4>1. CASE L.data = vmap[z].data
        BY <3>4, <3>5, <4>1 DEF Backed
      <4>2. ASSUME NEW e \in Elem, Keeps(e), L.data = Append(vmap[z].data, e)
            PROVE  Backed(L.data, LayoutFrees(L))
        <5>1. Owned(L.data) = Owned(vmap[z].data) \cup Owned(<<e>>)
          BY <3>4, <4>2, FreesOf
        <5>2. Owned(<<e>>) \subseteq LayoutFrees(L)
          BY <3>5, <5>1
        <5>3. Backed(Append(vmap[z].data, e), LayoutFrees(L))
          BY <3>4, <3>5, <4>2, <5>2, OwnsBacked
        <5>. QED BY <4>2, <5>3
      <4>. QED BY <3>1, <4>1, <4>2
    <3>7. Ok(capData, made, nz, L)
      BY <3>1, <3>3, <3>6
    <3>8. CallOk(Idle)
      BY <1>5
    <3>. HIDE DEF Ok, CallOk
    <3>9. \A y \in DOMAIN vmap' : Ok(capData, made, y, vmap'[y])
      BY <1>1, <3>1, <3>7 DEF Moved
    <3>. QED BY <1>4, <2>0, <3>1, <3>8, <3>9
  <2>. QED BY <1>7, <2>1, <2>2, <2>3, <2>4, <2>5 DEF AsEffect
<1>8. CASE NewObject
  <2>1. PICK a \in Block :
          /\ a \notin live /\ call' = call /\ Still
          /\ DOMAIN capData' = DOMAIN capData \cup {a} /\ DOMAIN made' = DOMAIN made \cup {a}
          /\ \A o \in DOMAIN capData \ {a} : capData'[o] = capData[o]
          /\ \A o \in DOMAIN made \ {a} : made'[o] = made[o]
    BY <1>8 DEF NewObject
  <2>2. a \notin DOMAIN made /\ a \notin DOMAIN capData
    BY <2>1 DEF OwnInv, CapTypes
  <2>3. \A z : Recorded(capData, z) => Recorded(capData', z)
    BY <2>1, <2>2 DEF Recorded
  <2>4. \A L : Orphan(capData, made, L) => Orphan(capData', made', L)
    BY <2>1, <2>2 DEF Orphan
  <2>5. \A z \in DOMAIN vmap' : Ok(capData', made', z, vmap'[z])
    BY <1>1, <2>1, <2>3, <2>4 DEF Still
  <2>. HIDE DEF Ok, CallOk
  <2>. QED BY <1>2, <2>1, <2>5
<1>9. CASE Copied(t) \/ CopyInserted(t)
  <2>1. PICK c : SetCall(t, c) /\ c.pc # "map"
    BY <1>5, <1>9 DEF Copied, CopyInserted
  <2>2. Still /\ capData' = capData /\ made' = made
    BY <1>9 DEF Copied, CopyInserted, capVars
  <2>3. CallOk(c)
    BY <2>1
  <2>. HIDE DEF Ok, CallOk
  <2>. QED BY <1>4, <1>6, <2>1, <2>2, <2>3
<1>10. CASE Destroyed
  <2>1. /\ call' = call /\ Still /\ made' = made /\ DOMAIN capData' \subseteq DOMAIN capData
        /\ \A o \in DOMAIN capData' : capData'[o] = capData[o]
    BY <1>10 DEF Destroyed
  <2>2. \A L : Orphan(capData, made, L) => Orphan(capData', made, L)
    BY <2>1 DEF Orphan
  <2>3. ASSUME NEW z \in DOMAIN vmap, Recorded(capData, z)
        PROVE  Recorded(capData', z) \/ Orphan(capData', made, vmap[z])
    <3>1. PICK o \in DOMAIN capData : \E id \in DOMAIN capData[o] : capData[o][id] = z
      BY <2>3 DEF Recorded
    <3>2. PICK id \in DOMAIN capData[o] : capData[o][id] = z
      BY <3>1
    <3>3. CASE o \in DOMAIN capData'
      BY <2>1, <3>2, <3>3 DEF Recorded
    <3>4. CASE o \notin DOMAIN capData'
      <4>1. o \in DOMAIN made /\ id.flags \in FlagSets /\ id.flags \subseteq made[o]
        BY <3>2 DEF CapTypes, RightsInv
      <4>2. vmap[z].data = SmemLayout(o, id).data
        BY <3>2 DEF RecordInv
      <4>3. SmemLayout(o, id) = SmemLayout(o, [flags |-> id.flags])
        BY DEF SmemLayout
      <4>. QED BY <3>4, <4>1, <4>2, <4>3 DEF Orphan
    <3>. QED BY <3>3, <3>4
  <2>4. \A z \in DOMAIN vmap' : Ok(capData', made', z, vmap'[z])
    BY <1>1, <2>1, <2>2, <2>3 DEF Still
  <2>. HIDE DEF Ok, CallOk
  <2>. QED BY <1>2, <2>1, <2>4
<1>11. CASE Shared
  <2>1. PICK id \in DOMAIN caps, z \in Ranges, L \in Layouts :
          /\ Added(z, L) /\ L.atype = "Shared" /\ DOMAIN capData' = DOMAIN capData
          /\ \A p \in DOMAIN capData \ {caps[id]} : capData'[p] = capData[p]
          /\ DOMAIN capData'[caps[id]] = DOMAIN capData[caps[id]] \cup {id}
          /\ capData'[caps[id]][id] = z
          /\ \A i \in DOMAIN capData[caps[id]] : capData'[caps[id]][i] = capData[caps[id]][i]
          /\ made' = made /\ call' = call
    BY <1>11 DEF Shared
  <2>2. caps[id] \in DOMAIN capData
    BY DEF CapTypes
  <2>3. Recorded(capData', z)
    BY <2>1, <2>2 DEF Recorded
  <2>4. ASSUME NEW y, Recorded(capData, y) PROVE Recorded(capData', y)
    <3>1. PICK o \in DOMAIN capData : \E i \in DOMAIN capData[o] : capData[o][i] = y
      BY <2>4 DEF Recorded
    <3>2. PICK i \in DOMAIN capData[o] : capData[o][i] = y
      BY <3>1
    <3>3. i \in DOMAIN capData'[o] /\ capData'[o][i] = y
      BY <2>1, <2>2, <3>2
    <3>. QED BY <2>1, <3>3 DEF Recorded
  <2>8. \A M : Orphan(capData, made, M) => Orphan(capData', made', M)
    BY <2>1 DEF Orphan
  <2>5. Ok(capData', made', z, L)
    BY <2>1, <2>3
  <2>6. \A y \in DOMAIN vmap : Ok(capData', made', y, vmap[y])
    BY <1>1, <2>4, <2>8
  <2>. HIDE DEF Ok, CallOk
  <2>7. \A y \in DOMAIN vmap' : Ok(capData', made', y, vmap'[y])
    BY <2>1, <2>5, <2>6 DEF Added
  <2>. QED BY <1>2, <2>1, <2>7
<1>12. CASE Unshared
  <2>1. PICK id \in DOMAIN caps :
          /\ id \in DOMAIN capData[caps[id]] /\ Removed(capData[caps[id]][id])
          /\ DOMAIN capData' = DOMAIN capData
          /\ \A p \in DOMAIN capData \ {caps[id]} : capData'[p] = capData[p]
          /\ DOMAIN capData'[caps[id]] = DOMAIN capData[caps[id]] \ {id}
          /\ \A i \in DOMAIN capData[caps[id]] \ {id} : capData'[caps[id]][i] = capData[caps[id]][i]
          /\ made' = made /\ call' = call
    BY <1>12 DEF Unshared
  <2>. DEFINE z == capData[caps[id]][id]
  <2>2. \A M : Orphan(capData, made, M) => Orphan(capData', made', M)
    BY <2>1 DEF Orphan
  <2>3. ASSUME NEW y, y # z, Recorded(capData, y) PROVE Recorded(capData', y)
    <3>1. PICK o \in DOMAIN capData : \E i \in DOMAIN capData[o] : capData[o][i] = y
      BY <2>3 DEF Recorded
    <3>2. PICK i \in DOMAIN capData[o] : capData[o][i] = y
      BY <3>1
    <3>3. ~ (o = caps[id] /\ i = id)
      BY <2>3, <3>2
    <3>4. i \in DOMAIN capData'[o] /\ capData'[o][i] = y
      BY <2>1, <3>2, <3>3
    <3>. QED BY <2>1, <3>4 DEF Recorded
  <2>4. \A y \in DOMAIN vmap' : y \in DOMAIN vmap /\ y # z /\ vmap'[y] = vmap[y]
    BY <2>1 DEF Removed
  <2>. HIDE DEF z
  <2>5. \A y \in DOMAIN vmap' : Ok(capData', made', y, vmap'[y])
    BY <1>1, <2>2, <2>3, <2>4
  <2>. HIDE DEF Ok, CallOk
  <2>. QED BY <1>2, <2>1, <2>5
<1>. QED
  BY <1>7, <1>8, <1>9, <1>10, <1>11, <1>12 DEF Effect, CapEffect

(* No right appears. *)
LEMMA RightsStep ==
  ASSUME StateTypes, CapTypes, CallInv, OwnInv, RightsInv, NEW t \in Thread, Effect(t)
  PROVE  RightsInv'
<1>. DEFINE CallOk(c, m) == c.pc = "clone" => c.lay.data[1].flags \subseteq m[c.lay.data[1].blk]
<1>1. /\ \A id \in DOMAIN caps : id.flags \subseteq made[caps[id]] /\ caps[id] \in DOMAIN capData
      /\ \A o \in DOMAIN capData : \A id \in DOMAIN capData[o] : id.flags \subseteq made[o]
      /\ DOMAIN capData \subseteq DOMAIN made
  BY DEF RightsInv, CapTypes
<1>2. \A u \in Thread : CallOk(call[u], made)
  BY DEF RightsInv
<1>3. SUFFICES /\ \A id \in DOMAIN caps' : id.flags \subseteq made'[caps'[id]]
               /\ \A o \in DOMAIN capData' : \A id \in DOMAIN capData'[o] : id.flags \subseteq made'[o]
               /\ \A u \in Thread : CallOk(call'[u], made')
  BY DEF RightsInv
<1>4. ASSUME NEW c, SetCall(t, c), CallOk(c, made), made' = made
      PROVE  \A u \in Thread : CallOk(call'[u], made')
  BY <1>2, <1>4 DEF SetCall
<1>5. Idle.pc = "idle"
  BY LayoutTypes
<1>6. CASE AsEffect(t) /\ UNCHANGED capVars
  <2>1. caps' = caps /\ capData' = capData /\ made' = made
    BY <1>6 DEF capVars
  <2>2. \E c : SetCall(t, c) /\ c.pc # "clone"
    BY <1>5, <1>6 DEF AsEffect, Take, Put, GiveBack, Look, TakeOut, Grow, Stick
  <2>3. PICK c : SetCall(t, c) /\ CallOk(c, made)
    BY <2>2
  <2>. HIDE DEF CallOk
  <2>. QED BY <1>1, <1>4, <2>1, <2>3
<1>7. CASE NewObject
  <2>1. PICK a \in Block, f \in FlagSets :
          /\ a \notin live /\ Inserted(a, f) /\ call' = call
          /\ DOMAIN capData' = DOMAIN capData \cup {a} /\ DOMAIN made' = DOMAIN made \cup {a}
          /\ DOMAIN capData'[a] = {} /\ made'[a] = f
          /\ \A o \in DOMAIN capData \ {a} : capData'[o] = capData[o]
          /\ \A o \in DOMAIN made \ {a} : made'[o] = made[o]
    BY <1>7 DEF NewObject
  <2>2. a \notin DOMAIN made
    BY <2>1 DEF OwnInv
  <2>3. \A o \in DOMAIN made : made'[o] = made[o]
    BY <2>1, <2>2
  <2>4. PICK id : /\ id.flags = f /\ DOMAIN caps' = DOMAIN caps \cup {id}
                  /\ \A i \in DOMAIN caps' : caps'[i] = IF i \in DOMAIN caps THEN caps[i] ELSE a
    BY <2>1 DEF Inserted
  <2>5. \A i \in DOMAIN caps' : i.flags \subseteq made'[caps'[i]]
    BY <1>1, <2>1, <2>3, <2>4
  <2>6. \A o \in DOMAIN capData' : \A i \in DOMAIN capData'[o] : i.flags \subseteq made'[o]
    BY <1>1, <2>1, <2>2, <2>3
  <2>7. ASSUME NEW u \in Thread PROVE CallOk(call'[u], made')
    <3>1. call[u].pc = "clone" => call[u].lay.data[1].blk \in DOMAIN made
      BY CopyKnown DEF CapTypes
    <3>. QED BY <1>2, <2>1, <2>3, <3>1
  <2>. HIDE DEF CallOk
  <2>. QED BY <2>5, <2>6, <2>7
<1>8. CASE Copied(t)
  <2>1. PICK c \in Calls, id \in DOMAIN caps, f \in Rights :
          /\ SetCall(t, c) /\ c.lay.data[1].blk = caps[id] /\ c.lay.data[1].flags = id.flags \cap f
          /\ caps' = caps /\ capData' = capData /\ made' = made
    BY <1>8 DEF Copied, capVars
  <2>2. CallOk(c, made)
    BY <1>1, <2>1
  <2>. HIDE DEF CallOk
  <2>. QED BY <1>1, <1>4, <2>1, <2>2
<1>9. CASE CopyInserted(t)
  <2>. DEFINE e == call[t].lay.data[1]
  <2>1. /\ call[t].pc = "clone" /\ SetCall(t, Idle) /\ Inserted(e.blk, e.flags)
        /\ capData' = capData /\ made' = made
    BY <1>9 DEF CopyInserted
  <2>2. e.flags \subseteq made[e.blk]
    BY <1>2, <2>1
  <2>. HIDE DEF e
  <2>3. PICK id : /\ id.flags = e.flags /\ DOMAIN caps' = DOMAIN caps \cup {id}
                  /\ \A i \in DOMAIN caps' : caps'[i] = IF i \in DOMAIN caps THEN caps[i] ELSE e.blk
    BY <2>1 DEF Inserted
  <2>4. \A i \in DOMAIN caps' : i.flags \subseteq made[caps'[i]]
    BY <1>1, <2>2, <2>3
  <2>5. CallOk(Idle, made)
    BY <1>5
  <2>. HIDE DEF CallOk
  <2>. QED BY <1>1, <1>4, <2>1, <2>4, <2>5
<1>10. CASE Destroyed
  <2>1. /\ DOMAIN caps' \subseteq DOMAIN caps /\ \A i \in DOMAIN caps' : caps'[i] = caps[i]
        /\ DOMAIN capData' \subseteq DOMAIN capData
        /\ \A o \in DOMAIN capData' : capData'[o] = capData[o]
        /\ call' = call /\ made' = made
    BY <1>10 DEF Destroyed
  <2>. HIDE DEF CallOk
  <2>. QED BY <1>1, <1>2, <2>1
<1>11. CASE Shared
  <2>1. PICK id \in DOMAIN caps :
          /\ DOMAIN capData' = DOMAIN capData
          /\ \A p \in DOMAIN capData \ {caps[id]} : capData'[p] = capData[p]
          /\ DOMAIN capData'[caps[id]] = DOMAIN capData[caps[id]] \cup {id}
          /\ made' = made /\ call' = call /\ caps' = caps
    BY <1>11 DEF Shared
  <2>2. \A o \in DOMAIN capData : \A i \in DOMAIN capData'[o] : i.flags \subseteq made[o]
    BY <1>1, <2>1
  <2>. HIDE DEF CallOk
  <2>. QED BY <1>1, <1>2, <2>1, <2>2
<1>12. CASE Unshared
  <2>1. PICK id \in DOMAIN caps :
          /\ DOMAIN capData' = DOMAIN capData
          /\ \A p \in DOMAIN capData \ {caps[id]} : capData'[p] = capData[p]
          /\ DOMAIN capData'[caps[id]] = DOMAIN capData[caps[id]] \ {id}
          /\ made' = made /\ call' = call /\ caps' = caps
    BY <1>12 DEF Unshared
  <2>2. \A o \in DOMAIN capData : \A i \in DOMAIN capData'[o] : i.flags \subseteq made[o]
    BY <1>1, <2>1
  <2>. HIDE DEF CallOk
  <2>. QED BY <1>1, <1>2, <2>1, <2>2
<1>. QED
  BY <1>6, <1>7, <1>8, <1>9, <1>10, <1>11, <1>12 DEF Effect, CapEffect

(* At the start the only range owns the only block that is in use. *)
LEMMA OnceInit == Init => OnceInv
<1>. SUFFICES ASSUME Init PROVE OnceInv
  OBVIOUS
<1>. DEFINE f == {"r", "w"}
<1>1. PICK b \in Block :
        LET L == SyncMem(Layout(<<NewElement(b, Image.size, f, TRUE)>>, "Protected"))
        IN vmap = [z \in {Image} |-> L] /\ live = {b}
  BY DEF Init, AsInit
<1>2. /\ call = [t \in Thread |-> Idle]
      /\ caps = <<>> /\ capData = <<>> /\ made = <<>>
  BY DEF Init, AsInit
<1>3. DOMAIN caps = {} /\ DOMAIN capData = {} /\ DOMAIN made = {}
  BY <1>2
<1>4. Image \in [addr : Nat, size : Nat] /\ Image.addr >= 1 /\ Image.size >= 1
  BY AddressSpaceConstants
<1>5. f \in FlagSets /\ f # {}
  BY DEF FlagSets
<1>. DEFINE e == NewElement(b, Image.size, f, TRUE)
            L == Layout(<<e>>, "Protected")
            M == SyncMem(L)
<1>. HIDE DEF f
<1>6. e = Element(b, TRUE, Image.size, f)
  BY <1>5 DEF NewElement
<1>7. vmap = [z \in {Image} |-> M] /\ live = {b}
  BY <1>1
<1>. HIDE DEF e
<1>8. e \in Elem /\ e.own = TRUE /\ e.blk = b
  <2>1. Image.size \in Nat \ {0}
    BY <1>4
  <2>. QED BY <1>5, <1>6, <2>1 DEF Element, Elem, FlagSets
<1>9. <<e>> \in Seq(Elem) /\ <<e>> # <<>> /\ Len(<<e>>) = 1 /\ <<e>>[1] = e
  BY <1>8
<1>10. Fresh(L) /\ L.data = <<e>> /\ L.atype = "Protected"
  BY <1>9, LayoutTypes
<1>. HIDE DEF L
<1>11. Synced(M) /\ M.data = <<e>> /\ Mapped(M) = <<e>> /\ M.atype = "Protected"
  BY <1>4, <1>10, FreshMaps
<1>. HIDE DEF M
<1>12. M \in Layouts /\ M.que = <<>>
  BY <1>11 DEF Synced
<1>13. DOMAIN vmap = {Image} /\ vmap[Image] = M
  BY <1>7
<1>14. LayoutFrees(M) = {b}
  <2>1. LayoutFrees(M) = Owned(<<e>>) /\ Owned(<<e>>) = IF e.own THEN {e.blk} ELSE {}
    BY <1>11, <1>12, FreesOf
  <2>. QED BY <1>8, <2>1
<1>15. \A t \in Thread : call[t].pc = "idle"
  BY <1>2, LayoutTypes
<1>16. OwnInv
  <2>1. \A z, c : InZone(z, c) <=> (z = Image /\ c = b)
    BY <1>13, <1>14 DEF InZone, Zones
  <2>2. \A t, c : ~ InCall(t, c)
    BY <1>15 DEF InCall
  <2>. QED BY <1>3, <1>7, <2>1, <2>2 DEF OwnInv
<1>17. SharedInv
  <2>1. Backed(<<e>>, {b})
    <3>. DEFINE s == <<e>>
    <3>1. \A i \in 1 .. Len(s) : s[i] = e
      BY <1>9
    <3>. HIDE DEF s
    <3>2. Backed(s, {b})
      BY <1>8, <3>1 DEF Backed
    <3>. QED BY <3>2 DEF s
  <2>. QED BY <1>11, <1>13, <1>14, <1>15, <2>1 DEF SharedInv, Zones
<1>18. RightsInv
  BY <1>3, <1>15 DEF RightsInv
<1>. QED
  BY <1>16, <1>17, <1>18 DEF OnceInv

(* Every step keeps it. *)
LEMMA OnceStep ==
  ASSUME Inv, OnceInv, NoReuse, [Next]_vars
  PROVE  OnceInv'
<1>1. CASE UNCHANGED vars
  <2>1. /\ vmap' = vmap /\ live' = live /\ call' = call
        /\ caps' = caps /\ capData' = capData /\ made' = made
    BY <1>1 DEF vars, asVars, capVars
  <2>2. OwnInv'
    <3>1. \A z, b : InZone(z, b)' <=> InZone(z, b)
      BY <2>1 DEF InZone, Zones
    <3>2. \A t, b : InCall(t, b)' <=> InCall(t, b)
      BY <2>1 DEF InCall
    <3>. QED BY <2>1, <3>1, <3>2 DEF OnceInv, OwnInv
  <2>3. SharedInv'
    BY <2>1 DEF OnceInv, SharedInv, Zones
  <2>4. RightsInv'
    BY <2>1 DEF OnceInv, RightsInv
  <2>. QED BY <2>2, <2>3, <2>4 DEF OnceInv
<1>2. CASE Next
  <2>1. PICK t \in Thread :
          \/ AsNext(t) /\ UNCHANGED capVars
          \/ SmemNew(t) \/ CapClone(t) \/ CloneInsert(t) \/ CapDestroy(t) \/ CapMapCall(t) \/ CapUnmap(t)
    BY <1>2 DEF Next
  <2>2. Effect(t)
    BY <2>1, NextStep
  <2>3. /\ MapInv(vmap, pt) /\ StateTypes /\ CapTypes /\ SyncInv /\ CallInv /\ RecordInv
        /\ OwnInv /\ SharedInv /\ RightsInv
    BY DEF Inv, OnceInv
  <2>. QED BY <2>2, <2>3, OwnStep, SharedStep, RightsStep DEF OnceInv
<1>. QED
  BY <1>1, <1>2

(* While no block is reused between the two deallocs of a layout, every    *)
(* block has one holder, every Shared range is recorded or of a dropped    *)
(* object, and no right appears.                                           *)
THEOREM OnceCorrect == Spec /\ []NoReuse => []OnceInv
<1>1. Init => OnceInv
  BY OnceInit
<1>2. Inv /\ OnceInv /\ NoReuse /\ [Next]_vars => OnceInv'
  BY OnceStep
<1>. QED
  BY <1>1, <1>2, InvCorrect, PTL DEF Spec

(* What cap_data records and what is mapped agree: each recorded id has a  *)
(* Shared range of its object with the rights of the id, no two records    *)
(* name the same range and every Shared range of an object that still has  *)
(* a capability is recorded, whatever the other threads of the process run *)
(* between cap_map and cap_unmap.                                          *)
THEOREM RecordsExact == Spec /\ []NoReuse => []SharedExact
<1>1. Inv /\ OnceInv => SharedExact
  <2>. SUFFICES ASSUME Inv, OnceInv PROVE SharedExact
    OBVIOUS
  <2>. DEFINE records == UNION {{<<o, id>> : id \in DOMAIN capData[o]} : o \in DOMAIN capData}
              zone(r) == capData[r[1]][r[2]]
              Shares == {z \in Zones : vmap[z].atype = "Shared" /\ vmap[z].data[1].blk \notin Dropped}
  <2>2. \A r \in records : r[1] \in DOMAIN capData /\ r[2] \in DOMAIN capData[r[1]] /\ r = <<r[1], r[2]>>
    OBVIOUS
  <2>3. \A o \in DOMAIN capData : \A id \in DOMAIN capData[o] :
           /\ <<o, id>> \in records /\ <<o, id>>[1] = o /\ <<o, id>>[2] = id
    OBVIOUS
  <2>. HIDE DEF records
  <2>4. ASSUME NEW r \in records
        PROVE  zone(r) \in Zones /\ vmap[zone(r)].atype = "Shared"
               /\ vmap[zone(r)].data = SmemLayout(r[1], r[2]).data
    BY <2>2 DEF Inv, RecordInv
  <2>5. ASSUME NEW r \in records, NEW s \in records, zone(r) = zone(s) PROVE r = s
    <3>1. r[1] = s[1] /\ r[2] = s[2]
      BY <2>2, <2>5 DEF Inv, RecordInv
    <3>. QED BY <2>2, <3>1
  <2>6. ASSUME NEW z \in Shares PROVE \E r \in records : zone(r) = z
    <3>0. ~ Orphan(capData, made, vmap[z])
      <4>. SUFFICES ASSUME Orphan(capData, made, vmap[z]) PROVE FALSE
        OBVIOUS
      <4>1. PICK o \in DOMAIN made \ DOMAIN capData, f \in FlagSets :
              vmap[z].data = SmemLayout(o, [flags |-> f]).data
        BY DEF Orphan
      <4>2. o \in Block /\ o \in Dropped
        BY DEF Inv, CapTypes, Dropped
      <4>3. [flags |-> f].flags \in FlagSets
        OBVIOUS
      <4>4. vmap[z].data[1].blk = o
        BY <4>1, <4>2, <4>3, SmemLayoutFresh
      <4>. QED BY <4>2, <4>4
    <3>1. PICK o \in DOMAIN capData : \E id \in DOMAIN capData[o] : capData[o][id] = z
      BY <3>0 DEF OnceInv, SharedInv, Recorded
    <3>2. PICK id \in DOMAIN capData[o] : capData[o][id] = z
      BY <3>1
    <3>3. <<o, id>> \in records /\ zone(<<o, id>>) = z
      BY <2>3, <3>2
    <3>. QED BY <3>3
  <2>7. \A r \in records : Known(zone(r), "Shared")
    BY <2>4 DEF Known
  <2>8. Shares \subseteq {zone(r) : r \in records}
    BY <2>6
  <2>9. \A r \in records : vmap[zone(r)].data = SmemLayout(r[1], r[2]).data
    BY <2>4
  <2>10. \A r, s \in records : zone(r) = zone(s) => r = s
    BY <2>5
  <2>. QED BY <2>7, <2>8, <2>9, <2>10 DEF SharedExact, records
<1>. QED
  BY <1>1, InvCorrect, OnceCorrect, PTL

(* However it was cloned, a capability never has a right that its object   *)
(* was not made with, and no page of the object is mapped writable without *)
(* that right, in any range of the process.                                *)
THEOREM RightsNeverGrow == Spec /\ []NoReuse => []RightsShrink
<1>1. Inv /\ OnceInv => RightsShrink
  <2>. SUFFICES ASSUME Inv, OnceInv PROVE RightsShrink
    OBVIOUS
  <2>1. \A id \in DOMAIN caps : id.flags \subseteq made[caps[id]]
    BY DEF OnceInv, RightsInv
  <2>2. ASSUME NEW c \in pt, c.blk \in DOMAIN made, c.w PROVE "w" \in made[c.blk]
    <3>1. MapInv(vmap, pt)
      BY DEF Inv
    <3>2. PICK z \in DOMAIN vmap : c \in ZoneCells(vmap, z)
      BY <3>1, TableCell
    <3>. DEFINE s == Mapped(vmap[z])
    <3>3. s \in Seq(Elem)
      BY <3>1 DEF MapInv, Laid
    <3>4. c \in Cells(s, z.addr)
      BY <3>2 DEF ZoneCells
    <3>. HIDE DEF s
    <3>5. PICK i \in 1 .. Len(s) : \E k \in 0 .. s[i].size - 1 : s[i].flags # {} /\ c = CellAt(s, z.addr, i, k)
      BY <3>3, <3>4, CellsDef
    <3>6. s[i].flags # {} /\ c.blk = s[i].blk /\ "w" \in s[i].flags
      <4>1. PICK k \in 0 .. s[i].size - 1 : s[i].flags # {} /\ c = CellAt(s, z.addr, i, k)
        BY <3>5
      <4>2. CellAt(s, z.addr, i, k).w = ("w" \in s[i].flags)
        BY Zenon DEF CellAt
      <4>3. CellAt(s, z.addr, i, k).blk = s[i].blk
        BY Zenon DEF CellAt
      <4>4. CellAt(s, z.addr, i, k).w
        BY <2>2, <4>1, Zenon
      <4>5. "w" \in s[i].flags
        BY <4>2, <4>4, Zenon
      <4>. QED BY <4>1, <4>3, <4>5
    <3>7. z \in Zones
      BY <3>2 DEF Zones
    <3>8. CASE vmap[z].atype # "Shared"
      <4>1. Backed(s, LayoutFrees(vmap[z]))
        BY <3>7, <3>8 DEF OnceInv, SharedInv, s
      <4>2. InZone(z, c.blk)
        BY <3>6, <3>7, <4>1 DEF Backed, InZone
      <4>. QED BY <2>2, <4>2 DEF OnceInv, OwnInv
    <3>9. CASE vmap[z].atype = "Shared"
      <4>1. Recorded(capData, z) \/ Orphan(capData, made, vmap[z])
        BY <3>7, <3>9 DEF OnceInv, SharedInv
      <4>2. ASSUME Recorded(capData, z)
            PROVE  \E o \in DOMAIN made : \E f \in FlagSets :
                     f \subseteq made[o] /\ vmap[z].data = SmemLayout(o, [flags |-> f]).data
        <5>1. PICK o \in DOMAIN capData : \E id \in DOMAIN capData[o] : capData[o][id] = z
          BY <4>2 DEF Recorded
        <5>2. PICK id \in DOMAIN capData[o] : capData[o][id] = z
          BY <5>1
        <5>3. vmap[z].data = SmemLayout(o, id).data
          BY <5>2 DEF Inv, RecordInv
        <5>4. o \in DOMAIN made /\ id.flags \in FlagSets /\ id.flags \subseteq made[o]
          BY DEF Inv, CapTypes, OnceInv, RightsInv
        <5>5. SmemLayout(o, id) = SmemLayout(o, [flags |-> id.flags])
          BY DEF SmemLayout
        <5>. QED BY <5>3, <5>4, <5>5
      <4>3. PICK o \in DOMAIN made, f \in FlagSets :
              f \subseteq made[o] /\ vmap[z].data = SmemLayout(o, [flags |-> f]).data
        BY <4>1, <4>2 DEF Orphan
      <4>4. o \in Block /\ [flags |-> f].flags = f
        BY DEF Inv, CapTypes
      <4>5. Synced(vmap[z])
        BY <3>7, <3>9 DEF Inv, SyncInv
      <4>6. s = vmap[z].data
        BY <4>5, SyncedUnmaps DEF s
      <4>7. Len(s) = 1 /\ s[1].blk = o /\ s[1].flags = f
        BY <4>3, <4>4, <4>6, SmemLayoutFresh
      <4>8. i = 1
        BY <4>7
      <4>. QED BY <2>2, <3>6, <4>3, <4>7, <4>8
    <3>. QED BY <3>8, <3>9
  <2>. QED BY <2>1, <2>2 DEF RightsShrink
<1>. QED
  BY <1>1, InvCorrect, OnceCorrect, PTL
=============================================================================
