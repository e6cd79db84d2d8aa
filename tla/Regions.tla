------------------------------ MODULE Regions -------------------------------
(***************************************************************************)
(* What an address space promises the code above it: a set of disjoint     *)
(* regions, each a run of pages that are backed or not, in which one       *)
(* region at a time appears, disappears, or is replaced by one that begins *)
(* with the same contents.                                                 *)
(***************************************************************************)
EXTENDS Sequences, Integers

CONSTANT Limit     \* the first page that may not be mapped

VARIABLE regions   \* a set of [addr, pages]

Span(r) == r.addr .. r.addr + Len(r.pages) - 1

Init == \A r \in regions : \A s \in regions \ {r} : Span(r) \cap Span(s) = {}

(* Page 0 is never part of a region.                                       *)
Fits(r, others) ==
  /\ Len(r.pages) > 0 /\ r.addr >= 1 /\ r.addr + Len(r.pages) <= Limit
  /\ \A s \in others : Span(r) \cap Span(s) = {}

Map(r) ==
  /\ Fits(r, regions)
  /\ regions' = regions \cup {r}

Unmap(r) == regions' = regions \ {r}

(* The old contents are a prefix of the new ones, or the other way round.  *)
Remap(r, s) ==
  LET kept == IF Len(r.pages) < Len(s.pages) THEN Len(r.pages) ELSE Len(s.pages)
  IN /\ Fits(s, regions \ {r})
     /\ \A i \in 1 .. kept : s.pages[i] = r.pages[i]
     /\ regions' = (regions \ {r}) \cup {s}

Next ==
  \/ \E r \in regions' : Map(r)
  \/ \E r \in regions : Unmap(r) \/ \E s \in regions' : Remap(r, s)

Spec == Init /\ [][Next]_regions
=============================================================================
