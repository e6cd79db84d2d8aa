--------------------------- MODULE MCCollections ----------------------------
(***************************************************************************)
(* The two collections, each in a behaviour of its own: nothing of one     *)
(* reads the state of the other.                                           *)
(***************************************************************************)
EXTENDS AvlTree, LinkedList, TLC

CONSTANT MaxKey

VARIABLE kind

MCKey == 1 .. MaxKey
MCNodes == Permutations(Node) \cup Permutations(List)

MCInit == kind \in {"tree", "list"} /\ TreeInit /\ ListInit

MCNext ==
  \/ kind = "tree" /\ TreeNext /\ UNCHANGED <<kind, listVars>>
  \/ kind = "list" /\ ListNext /\ UNCHANGED <<kind, treeVars>>

MCSpec == MCInit /\ [][MCNext]_<<kind, treeVars, listVars>>
=============================================================================
