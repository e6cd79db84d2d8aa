------------------------------ MODULE AvlTree -------------------------------
(***************************************************************************)
(* The tree of the thread lists: AvlTree and TreeNode of                   *)
(* libutil/src/collections/tree.rs.                                        *)
(*                                                                         *)
(* A node is known by its key.  The owner of the tree works on it alone;   *)
(* each turn of the loop in rebalance is a step of its own.  pop, which    *)
(* nothing calls, is not modelled.                                         *)
(***************************************************************************)
EXTENDS Integers, FiniteSets

CONSTANTS Key,     \* a set of integers
          Null

ASSUME AvlConstants == Key \subseteq Int /\ Null \notin Key

VARIABLES root, len,
          node,    \* the nodes in the tree: [parent, left, right, bal]
          climb    \* rebalance: [at, change, mode], at = Null when it is done

treeVars == <<root, len, node, climb>>

Still == [at |-> Null, change |-> 0, mode |-> "Add"]

(* search: the node with the key, the node below which it would be, or     *)
(* Null in an empty tree.                                                  *)
Towards(k, n) == IF k < n THEN node[n].left ELSE IF k > n THEN node[n].right ELSE n
Search(k) ==
  LET walk[d \in 0 .. Cardinality(Key)] ==
        IF d = 0 THEN root
        ELSE LET n == walk[d - 1]
             IN IF n = Null \/ Towards(k, n) = Null THEN n ELSE Towards(k, n)
  IN walk[Cardinality(Key)]

(* set_leftp and set_rightp on the nodes m.                                *)
SetLeftP(m, n, c) ==
  LET m1 == [m EXCEPT ![n].left = c]
  IN IF c = Null THEN m1 ELSE [m1 EXCEPT ![c].parent = n]
SetRightP(m, n, c) ==
  LET m1 == [m EXCEPT ![n].right = c]
  IN IF c = Null THEN m1 ELSE [m1 EXCEPT ![c].parent = n]

(* parent_type                                                             *)
ParentType(m, n) ==
  IF m[n].parent = Null THEN "root"
  ELSE IF m[m[n].parent].left = n THEN "left" ELSE "right"

(* Mutant: the balance of the child is not taken into account.             *)
RotateRightPlain(m, n) ==
  LET l == m[n].left
      m1 == SetRightP(SetLeftP(m, n, m[l].right), l, n)
      m2 == [m1 EXCEPT ![l].parent = m[n].parent, ![n].bal = @ + 1]
  IN [m2 EXCEPT ![l].bal = @ + IF m2[n].bal > 0 THEN 1 + m2[n].bal ELSE 1]

(* rotate_right and rotate_left: the child comes to the top.               *)
RotateRight(m, n) ==
  LET l == m[n].left
      m1 == SetRightP(SetLeftP(m, n, m[l].right), l, n)
      m2 == [m1 EXCEPT ![l].parent = m[n].parent,
                       ![n].bal = @ + IF m[l].bal < 0 THEN 1 - m[l].bal ELSE 1]
  IN [m2 EXCEPT ![l].bal = @ + IF m2[n].bal > 0 THEN 1 + m2[n].bal ELSE 1]

RotateLeft(m, n) ==
  LET r == m[n].right
      m1 == SetLeftP(SetRightP(m, n, m[r].left), r, n)
      m2 == [m1 EXCEPT ![r].parent = m[n].parent,
                       ![n].bal = @ - IF m[r].bal > 0 THEN 1 + m[r].bal ELSE 1]
  IN [m2 EXCEPT ![r].bal = @ + IF m2[n].bal < 0 THEN -1 + m2[n].bal ELSE -1]

(* TreeNode::rebalance: the nodes afterwards and the top of the subtree.   *)
Rebalance(m, n) ==
  LET l == m[n].left
      r == m[n].right
      ml == IF m[l].bal = 1 THEN [RotateLeft(m, l) EXCEPT ![n].left = m[l].right] ELSE m
      mr == IF m[r].bal = -1 THEN [RotateRight(m, r) EXCEPT ![n].right = m[r].left] ELSE m
  IN IF m[n].bal \in -1 .. 1 THEN [m |-> m, top |-> n]
     ELSE IF m[n].bal < -1 THEN [m |-> RotateRight(ml, n), top |-> ml[n].left]
     ELSE [m |-> RotateLeft(mr, n), top |-> mr[n].right]

HeightChange(mode, old, new) ==
  IF mode = "Add" /\ old = 0 /\ new \in {-1, 1} THEN 1
  ELSE IF mode = "Del" /\ old \in {-1, 1} /\ new = 0 THEN -1 ELSE 0

(* One turn of the loop of AvlTree::rebalance.                             *)
Climb ==
  LET n == climb.at
      p == node[n].parent
      side == ParentType(node, n)
      reb == Rebalance([node EXCEPT ![n].bal = @ + climb.change], n)
      h == HeightChange(climb.mode, node[n].bal, reb.m[reb.top].bal)
  IN /\ n # Null
     /\ node' = CASE side = "left" -> [reb.m EXCEPT ![p].left = reb.top]
                  [] side = "right" -> [reb.m EXCEPT ![p].right = reb.top]
                  [] side = "root" -> reb.m
     /\ root' = IF side = "root" THEN reb.top ELSE root
     /\ climb' = IF side = "root" \/ h = 0 THEN Still
                 ELSE [climb EXCEPT !.at = p, !.change = IF side = "left" THEN -h ELSE h]
     /\ UNCHANGED len

(* AvlTree::insert of a key that is not there.                             *)
InsertKey(k) ==
  LET p == Search(k)
      new == [parent |-> Null, left |-> Null, right |-> Null, bal |-> 0]
      m == [n \in DOMAIN node \cup {k} |-> IF n = k THEN new ELSE node[n]]
  IN /\ climb.at = Null /\ p # k
     /\ \/ p = Null /\ root' = k /\ node' = m /\ climb' = Still
        \/ /\ p # Null /\ k < p
           /\ node' = SetLeftP(m, p, k)
           /\ climb' = [at |-> p, change |-> -1, mode |-> "Add"]
           /\ UNCHANGED root
        \/ /\ p # Null /\ k > p
           /\ node' = SetRightP(m, p, k)
           /\ climb' = [at |-> p, change |-> 1, mode |-> "Add"]
           /\ UNCHANGED root
     /\ len' = len + 1

(* The largest node of the left subtree of n.                              *)
Predecessor(n) == CHOOSE c \in DOMAIN node : c < n /\ \A d \in DOMAIN node : d < n => d <= c

(* TreeNode::swap of a node with its predecessor, which may be its child:  *)
(* then it is its own left child and parent for a while.                   *)
Swap(m, n, c) ==
  LET m1 == SetLeftP(SetLeftP(m, n, m[c].left), c, m[n].left)
      m2 == SetRightP(SetRightP(m1, n, m1[c].right), c, m1[n].right)
      side == ParentType(m2, n)
      up == m2[n].parent
      m3 == [m2 EXCEPT ![n].parent = m2[c].parent]
      m4 == CASE side = "left" -> [m3 EXCEPT ![up].left = c]
              [] side = "right" -> [m3 EXCEPT ![up].right = c]
              [] side = "root" -> m3
      cp == m4[c].parent
      m5 == IF ParentType(m4, c) = "left" THEN [m4 EXCEPT ![cp].left = n]
            ELSE [m4 EXCEPT ![cp].right = n]
  IN [m5 EXCEPT ![c].parent = up, ![n].bal = m[c].bal, ![c].bal = m[n].bal]

(* Mutant: the child that takes the place of a node keeps its old parent.  *)
RemoveEdgeNoParent(m, rt, n) ==
  LET child == IF m[n].right = Null THEN m[n].left ELSE m[n].right
      p == m[n].parent
      side == ParentType(m, n)
      without(q) == [x \in DOMAIN q \ {n} |-> q[x]]
  IN /\ node' = without(CASE side = "left" -> [m EXCEPT ![p].left = child]
                          [] side = "right" -> [m EXCEPT ![p].right = child]
                          [] side = "root" -> m)
     /\ root' = IF side = "root" THEN child ELSE rt
     /\ climb' = IF side = "root" THEN Still
                 ELSE [at |-> p, change |-> IF side = "left" THEN 1 ELSE -1, mode |-> "Del"]

(* remove_edge_node: the only child of n, or Null, takes its place.        *)
RemoveEdge(m, rt, n) ==
  LET child == IF m[n].right = Null THEN m[n].left ELSE m[n].right
      p == m[n].parent
      side == ParentType(m, n)
      without(q) == [x \in DOMAIN q \ {n} |-> q[x]]
  IN /\ node' = without(CASE side = "left" -> SetLeftP(m, p, child)
                          [] side = "right" -> SetRightP(m, p, child)
                          [] side = "root" /\ child # Null -> [m EXCEPT ![child].parent = Null]
                          [] side = "root" /\ child = Null -> m)
     /\ root' = IF side = "root" THEN child ELSE rt
     /\ climb' = IF side = "root" THEN Still
                 ELSE [at |-> p, change |-> IF side = "left" THEN 1 ELSE -1, mode |-> "Del"]

(* AvlTree::remove of a key that is there.                                 *)
RemoveKey(k) ==
  /\ climb.at = Null /\ Search(k) = k
  /\ IF node[k].left = Null \/ node[k].right = Null THEN RemoveEdge(node, root, k)
     ELSE RemoveEdge(Swap(node, k, Predecessor(k)), IF root = k THEN Predecessor(k) ELSE root, k)
  /\ len' = len - 1

TreeInit == root = Null /\ len = 0 /\ node = <<>> /\ climb = Still

TreeNext == Climb \/ \E k \in Key : InsertKey(k) \/ RemoveKey(k)

(***************************************************************************)
(* Properties.                                                             *)
(***************************************************************************)

(* At every step, also in the middle of rebalance: search finds each node  *)
(* of the tree and nothing else, every child knows its parent, and len     *)
(* counts the nodes.                                                       *)
SearchExact ==
  /\ {k \in Key : Search(k) = k} = DOMAIN node
  /\ len = Cardinality(DOMAIN node)
  /\ root # Null => node[root].parent = Null
  /\ \A n \in DOMAIN node : \A c \in {node[n].left, node[n].right} \ {Null} : node[c].parent = n

Height ==
  LET h[n \in DOMAIN node \cup {Null}] ==
        IF n = Null THEN 0
        ELSE LET l == h[node[n].left]
                 r == h[node[n].right]
             IN 1 + IF l > r THEN l ELSE r
  IN h

(* After any sequence of insert and remove the balance factors are the     *)
(* differences of the heights, and none is beyond 1: what rotate_right,    *)
(* rotate_left and the height changes of rebalance compute from the old    *)
(* factors alone is right.                                                 *)
Balanced ==
  climb.at = Null =>
    \A n \in DOMAIN node :
      /\ node[n].bal = Height[node[n].right] - Height[node[n].left]
      /\ node[n].bal \in -1 .. 1
=============================================================================
