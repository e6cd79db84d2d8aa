---------------------------- MODULE Capabilities ----------------------------
(***************************************************************************)
(* The capabilities of a process to shared memory: CapMap, Capability and  *)
(* the Map trait (kernel/src/cap/mod.rs), the system calls on them         *)
(* (cap/sys.rs) and SharedMem (mem/shared_mem.rs), composed with the       *)
(* address space that they map into.                                       *)
(*                                                                         *)
(* A SharedMem object is known by its block of memory.  An id holds the    *)
(* rights of its capability in its low bits.  Only one process is          *)
(* modelled: spawn, the only call that would hand a capability to another  *)
(* process, is todo!().                                                    *)
(***************************************************************************)
EXTENDS AddressSpace

CONSTANTS SmemPages,   \* size of a shared memory
          Rights,      \* rights that smem_new and cap_clone are called with
          MaxIds       \* bound on next_id

ASSUME CapabilityConstants ==
  SmemPages \in Nat \ {0} /\ MaxIds \in Nat /\ Rights \subseteq SUBSET {"r", "w"}

VARIABLES caps,      \* CapMap.data: ids to objects
          nextId,    \* CapMap.next_id
          capData,   \* SharedMem.cap_data of the objects that exist: ids to ranges
          made       \* history: the rights that each object was made with

capVars == <<caps, nextId, capData, made>>
vars == <<asVars, capVars>>

(* set_base_id: number and rights; the type is always SMem here.           *)
CapId(n, f) == [n |-> n, flags |-> f]

(* CapMap::insert.                                                         *)
InsertCap(obj, f) ==
  /\ nextId < MaxIds
  /\ caps' = [i \in DOMAIN caps \cup {CapId(nextId, f)} |->
                IF i \in DOMAIN caps THEN caps[i] ELSE obj]
  /\ nextId' = nextId + 1

(* smem_new                                                                *)
SmemNew(t) ==
  /\ Ready(t, "idle")
  /\ \E b \in Block, f \in Rights :
       /\ AllocBlock({"r"}, b)
       /\ InsertCap(b, f)
       /\ capData' = [o \in DOMAIN capData \cup {b} |-> IF o = b THEN <<>> ELSE capData[o]]
       /\ made' = [o \in DOMAIN made \cup {b} |-> IF o = b THEN f ELSE made[o]]
  /\ UNCHANGED <<vmap, pt, lock, stacks, call, halt>>

(* Mutant: a clone gets the rights that were asked for.                    *)
AndFlagsAll(id, f) == f

(* Capability::and_from_flags                                              *)
AndFlags(id, f) == id.flags \cap f

(* cap_clone: the copy is made under the lock of the map and inserted      *)
(* after it was given back; meanwhile it is in the hands of the thread.    *)
CapClone(t) ==
  /\ Ready(t, "idle")
  /\ \E id \in DOMAIN caps, f \in Rights :
       call' = [call EXCEPT ![t] = [Idle EXCEPT !.pc = "clone",
                  !.lay = Layout(<<Element(caps[id], FALSE, 0, AndFlags(id, f))>>, "Shared")]]
  /\ UNCHANGED <<vmap, pt, live, lock, stacks, halt, capVars>>

CloneInsert(t) ==
  LET copy == call[t].lay.data[1]
  IN /\ Ready(t, "clone")
     /\ InsertCap(copy.blk, copy.flags)
     /\ Done(t)
     /\ UNCHANGED <<vmap, pt, live, lock, stacks, halt, capData, made>>

(* An Arc<SharedMem> is in a capability of the map or in the copy that a   *)
(* cap_clone has not inserted yet.                                         *)
Referenced(obj, ids) ==
  \/ \E id \in ids : caps[id] = obj
  \/ \E u \in Thread : call[u].pc = "clone" /\ call[u].lay.data[1].blk = obj

(* cap_destroy drops the Capability.  If it held the last Arc of its       *)
(* object, the SharedMem goes with its cap_data.  It has no Drop of its    *)
(* own: what is mapped stays mapped, and zm does not get the memory back.  *)
CapDestroy(t) ==
  /\ Ready(t, "idle")
  /\ \E id \in DOMAIN caps :
       LET ids == DOMAIN caps \ {id}
       IN /\ caps' = [i \in ids |-> caps[i]]
          /\ capData' = [o \in {p \in DOMAIN capData : p # caps[id] \/ Referenced(p, ids)}
                          |-> capData[o]]
  /\ UNCHANGED <<asVars, nextId, made>>

(* SharedMem::virt_layout                                                  *)
SmemLayout(obj, id) == Layout(<<Element(obj, FALSE, AllocLen(SmemPages), id.flags)>>, "Shared")

(* Map::map after the test that the id is not mapped yet: a failure leaves *)
(* everything as it is.                                                    *)
MapAndRecord(id, obj, at) ==
  \E z \in MapTarget(SmemLayout(obj, id), at) :
    /\ MapInto(SmemLayout(obj, id), z)
    /\ capData' = [capData EXCEPT ![obj] = [i \in DOMAIN @ \cup {id} |-> IF i = id THEN z ELSE @[i]]]

(* cap_map                                                                 *)
CapMapCall(t) ==
  /\ Locked(t, "idle")
  /\ \E id \in DOMAIN caps, at \in At \cup {0} :
       /\ id \notin DOMAIN capData[caps[id]]
       /\ MapAndRecord(id, caps[id], at)
  /\ UNCHANGED <<live, lock, stacks, call, halt, caps, nextId, made>>

(* Mutant: the range is unmapped and stays recorded.                       *)
ForgetNothing(d, id) == d

(* set_cap_map_data(id, None)                                              *)
Forget(d, id) == [i \in DOMAIN d \ {id} |-> d[i]]

(* cap_unmap, which unwraps the result of unmap.                           *)
CapUnmap(t) ==
  /\ Locked(t, "idle")
  /\ \E id \in DOMAIN caps :
       /\ id \in DOMAIN capData[caps[id]]
       /\ LET z == capData[caps[id]][id]
          IN IF Known(z, "Shared")
             THEN /\ UnmapZone(z)
                  /\ capData' = [capData EXCEPT ![caps[id]] = Forget(@, id)]
                  /\ UNCHANGED halt
             ELSE halt' = "unwrap" /\ UNCHANGED <<vmap, pt, capData>>
  /\ UNCHANGED <<live, lock, stacks, call, caps, nextId, made>>

Init ==
  /\ AsInit
  /\ caps = <<>> /\ nextId = 0 /\ capData = <<>> /\ made = <<>>

Next ==
  \E t \in Thread :
    \/ AsNext(t) /\ UNCHANGED capVars
    \/ SmemNew(t) \/ CapClone(t) \/ CloneInsert(t) \/ CapDestroy(t) \/ CapMapCall(t) \/ CapUnmap(t)

Spec == Init /\ [][Next]_vars

(***************************************************************************)
(* Properties.                                                             *)
(***************************************************************************)
TypeOK ==
  /\ live \subseteq Block /\ lock \in Thread \cup {NoThread}
  /\ halt \in {"no", "double free", "unwrap"}
  /\ \A z \in Zones : z.addr \in 1 .. MaxMap /\ z.size \in 1 .. MaxMap
  /\ \A c \in pt : c.page \in 1 .. MaxMap /\ c.blk \in Block
  /\ \A t \in Thread :
       call[t].pc \in {"idle", "map", "unmap", "remap", "dealloc", "drop", "spin", "clone"}
  /\ DOMAIN capData \subseteq DOMAIN made /\ \A id \in DOMAIN caps : caps[id] \in DOMAIN capData
  /\ nextId \in 0 .. MaxIds

(* The objects whose last Arc was dropped.                                 *)
Dropped == DOMAIN made \ DOMAIN capData

(* What cap_data records and what is mapped agree: each recorded id has a  *)
(* Shared range of its object with the rights of the id, no two records    *)
(* name the same range, and every Shared range of an object that exists is *)
(* recorded.  So the unwrap of cap_unmap never panics, whatever realloc,   *)
(* clone and destroy other threads run in between.  (The ranges of a       *)
(* dropped object stay mapped, and no call can unmap them any more.)       *)
SharedExact ==
  LET records == UNION {{<<o, id>> : id \in DOMAIN capData[o]} : o \in DOMAIN capData}
      zone(r) == capData[r[1]][r[2]]
  IN /\ \A r \in records :
          /\ Known(zone(r), "Shared")
          /\ vmap[zone(r)].data = SmemLayout(r[1], r[2]).data
     /\ {z \in Zones : vmap[z].atype = "Shared" /\ vmap[z].data[1].blk \notin Dropped}
          \subseteq {zone(r) : r \in records}
     /\ \A r, s \in records : zone(r) = zone(s) => r = s

(* However it was cloned, a capability never has a right that its object   *)
(* was not made with, and no page of the object is mapped writable without *)
(* that right.                                                             *)
RightsShrink ==
  /\ \A id \in DOMAIN caps : id.flags \subseteq made[caps[id]]
  /\ \A c \in pt : c.blk \in DOMAIN made /\ c.w => "w" \in made[c.blk]

(* Every block that is in use belongs to a layout or to a SharedMem that   *)
(* exists, but for the memory of a SharedMem whose last capability is      *)
(* gone (SmemFreed): a call that fails half way (no range for the memory   *)
(* it took, no memory for the larger range) gives back what it took.       *)
NoLeak ==
  live \ Dropped \subseteq (UNION {LayoutFrees(L) : L \in Holders}) \cup DOMAIN capData

(* The syscall document, cap_destroy: when the object has 0 references     *)
(* left, it is freed.                                                      *)
SmemFreed == live \cap Dropped = {}
=============================================================================
