------------------------------- MODULE Blocks -------------------------------
(***************************************************************************)
(* What an allocator promises its callers: a store of blocks of which one  *)
(* at a time is handed out, disjoint from all that are in use, or taken    *)
(* back.                                                                   *)
(***************************************************************************)
EXTENDS Integers

VARIABLE live     \* the blocks in use, [addr, len]

Init == live = {}

Disjoint(b, c) == b.addr + b.len <= c.addr \/ c.addr + c.len <= b.addr

Allocate(b) ==
  /\ b.len > 0 /\ b \notin live
  /\ \A c \in live : Disjoint(b, c)
  /\ live' = live \cup {b}

Free(b) ==
  /\ b \in live
  /\ live' = live \ {b}

(* The block of an Allocate step is the one that is in use after it.       *)
Next == (\E b \in live' \ live : Allocate(b)) \/ (\E b \in live : Free(b))

Spec == Init /\ [][Next]_live
=============================================================================
