CONSTANTS
  t1 = t1
  t2 = t2
  b1 = b1
  b2 = b2
  b3 = b3
  NoThread = NoThread
  NoBlock = NoBlock
  Thread = {t1, t2}
  Block = {b1, b2, b3}
  MaxMap = 6
  Sizes = {1, 3}
  Exact = {FALSE}
  Flags <- MCFlags
  At = {4}
  StackPages = 1
  Image <- MCImage
  SmemPages = 1
  Rights <- MCRights
  MaxIds = 2
SYMMETRY Symmetric
SPECIFICATION Spec
INVARIANT FreedOnce
CHECK_DEADLOCK FALSE
