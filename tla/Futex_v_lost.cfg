CONSTANTS
  kernel = kernel
  p1 = p1
  t1 = t1
  t2 = t2
  t3 = t3
  Thread = {t1, t2}
  Proc = {kernel}
  ProcOf <- OneProc
  Lock = {a}
  MaxId = 2
  NoId = NoId
  NoThread = NoThread
  NoLock = NoLock
SPECIFICATION FairSpec
CHECK_DEADLOCK FALSE
PROPERTY LockReturns
