CONSTANTS
  NumCpus = 2
  t1 = t1
  t2 = t2
  p1 = p1
  kernel = kernel
  Thread = {t1, t2}
  Cleaner = cleaner
  NoThread = NoThread
  Proc = {kernel}
  Kernel = kernel
  NoProc = NoProc
  ProcOf <- KernelThreads
  Reasons = {"Destroy", "Join"}
  Killable = {}
SPECIFICATION Spec
INVARIANT FreedNotInUse
