---------------------------- MODULE MCPageTables ----------------------------
(* Instances of PageTables for TLC.                                        *)
EXTENDS PageTables, TLC

CONSTANTS t1, t2, t3, t4

Symmetric == Permutations(Table)
=============================================================================
