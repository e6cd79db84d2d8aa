--------------------------- MODULE MCCapabilities ---------------------------
(* Instances of Capabilities for TLC.                                      *)
EXTENDS Capabilities

CONSTANTS t1, t2, b1, b2, b3

MCImage == [addr |-> 1, size |-> 1]
MCFlags == {{"r", "w"}}
MCRights == {{"r"}, {"r", "w"}}
Symmetric == Permutations(Thread) \cup Permutations(Block)
=============================================================================
