CONSTANTS
  NumCpus = 1
  t1 = t1
  t2 = t2
  p1 = p1
  kernel = kernel
  Thread = {t1, t2}
  Cleaner = cleaner
  NoThread = NoThread
  Proc = {kernel, p1}
  Kernel = kernel
  NoProc = NoProc
  ProcOf <- OneProc
  Reasons = {"Destroy", "Join"}
  Killable = {}
SPECIFICATION FairSpec
INVARIANT MarksExact
PROPERTIES ReadyRuns DestroyedIsFreed JoinerWoken
