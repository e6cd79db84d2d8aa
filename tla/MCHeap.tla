------------------------------- MODULE MCHeap -------------------------------
(* Instances of Heap for TLC.                                              *)
EXTENDS Heap

CONSTANTS c1, c2

(* Pages 1 and 2, and 8 and 9; the page after them has the bits.           *)
MCRegion == (0 :> <<1, 4>>) @@ (1 :> <<8, 11>>)
MCLayouts == {[size |-> 5, align |-> 2]}
=============================================================================
