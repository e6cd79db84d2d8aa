SPECIFICATION MCSpec
CONSTANTS
  MaxKey = 10
  Key <- MCKey
  Null = Null
  List = {l1, l2}
  Node = {n1, n2, n3, n4, n5}
  Nil = Nil
  Gone = Gone
SYMMETRY MCNodes
INVARIANTS SearchExact Balanced ListExact IterExact
