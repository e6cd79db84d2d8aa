------------------------------- MODULE NLVec --------------------------------
(***************************************************************************)
(* The vector without a lock and the map on top of it:                     *)
(* libutil/src/collections/nlvec.rs and nlvecmap.rs.  The kernel keeps the *)
(* local APIC ids of the processors in one (LAPIC_ID_MAP).                 *)
(*                                                                         *)
(* A map from keys to values stands for the sorted vector of nodes.  The   *)
(* allocator may give out the address of a vector that was freed again.    *)
(***************************************************************************)
EXTENDS Integers, FiniteSets

CONSTANTS Proc, Key, Val, Addr, None

VARIABLES ptr,    \* the address of the current vector
          heap,   \* the vectors that are not freed
          pc,     \* "idle", "load", "use", "cas"
          op,     \* the call of each processor: [fn, key, val]
          old,    \* the address the processor has loaded
          new     \* the address of its changed copy

nlVars == <<ptr, heap, pc, op, old, new>>

Ops == [fn : {"len", "get", "remove"}, key : Key, val : {None}] \cup [fn : {"insert"}, key : Key, val : Val]

Call(p, o) ==
  /\ pc[p] = "idle"
  /\ op' = [op EXCEPT ![p] = o]
  /\ pc' = [pc EXCEPT ![p] = "load"]
  /\ UNCHANGED <<ptr, heap, old, new>>

(* The load at the top of read and of each turn of the loop in write.      *)
Load(p) ==
  /\ pc[p] = "load"
  /\ old' = [old EXCEPT ![p] = ptr]
  /\ pc' = [pc EXCEPT ![p] = "use"]
  /\ UNCHANGED <<ptr, heap, op, new>>

(* read: the closure looks at the vector itself.                           *)
Read(p) ==
  /\ pc[p] = "use" /\ op[p].fn = "len"
  /\ pc' = [pc EXCEPT ![p] = "idle"]
  /\ old' = [old EXCEPT ![p] = None]
  /\ UNCHANGED <<ptr, heap, op, new>>

(* What the closures of NLVecMap do to the copy: get and remove leave it   *)
(* as it is (remove frees the node and leaves the pointer to it).          *)
Apply(o, v) ==
  IF o.fn = "insert" THEN [k \in DOMAIN v \cup {o.key} |-> IF k = o.key THEN o.val ELSE v[k]] ELSE v

(* write: the vector is copied, the closure runs, the copy goes to the     *)
(* heap.  What is read at an address that is free is any vector.           *)
Clone(p) ==
  /\ pc[p] = "use" /\ op[p].fn # "len"
  /\ \E a \in Addr \ DOMAIN heap, v \in UNION {[ks -> Val] : ks \in SUBSET Key} :
       /\ old[p] \in DOMAIN heap => v = heap[old[p]]
       /\ heap' = [b \in DOMAIN heap \cup {a} |-> IF b = a THEN Apply(op[p], v) ELSE heap[b]]
       /\ new' = [new EXCEPT ![p] = a]
  /\ pc' = [pc EXCEPT ![p] = "cas"]
  /\ UNCHANGED <<ptr, op, old>>

(* compare_exchange; the loser drops its copy and starts again.            *)
Cas(p) ==
  LET won == ptr = old[p]
      dropped == IF won THEN old[p] ELSE new[p]
  IN /\ pc[p] = "cas"
     /\ ptr' = IF won THEN new[p] ELSE ptr
     /\ heap' = [b \in DOMAIN heap \ {dropped} |-> heap[b]]
     /\ pc' = [pc EXCEPT ![p] = IF won THEN "idle" ELSE "load"]
     /\ old' = [old EXCEPT ![p] = None]
     /\ new' = [new EXCEPT ![p] = None]
     /\ UNCHANGED op

Init ==
  /\ ptr \in Addr
  /\ heap = [a \in {ptr} |-> <<>>]
  /\ pc = [p \in Proc |-> "idle"]
  /\ op = [p \in Proc |-> CHOOSE o \in Ops : TRUE]
  /\ old = [p \in Proc |-> None] /\ new = [p \in Proc |-> None]

Next ==
  \E p \in Proc : Load(p) \/ Read(p) \/ Clone(p) \/ Cas(p) \/ \E o \in Ops : Call(p, o)

Spec == Init /\ [][Next]_nlVars

(* The vector is meant to be shared without a lock: an address that a      *)
(* processor has loaded and will read through is not freed under it by the *)
(* compare_exchange and drop of another processor.                         *)
ReadsLive == \A p \in Proc : pc[p] = "use" => old[p] \in DOMAIN heap
=============================================================================
