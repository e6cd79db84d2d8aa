CONSTANTS
  t1 = t1
  t2 = t2
  t3 = t3
  t4 = t4
  Levels = 3
  Entries = 3
  Table = {t1, t2, t3, t4}
  Root = Root
  Kernel = Kernel
SYMMETRY Symmetric
SPECIFICATION Spec
INVARIANT TablesStay
CHECK_DEADLOCK FALSE
