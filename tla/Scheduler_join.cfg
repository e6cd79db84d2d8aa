CONSTANTS
  NumCpus = 2
  t1 = t1
  t2 = t2
  p1 = p1
  kernel = kernel
  Thread = {t1, t2}
  Cleaner = cleaner
  NoThread = NoThread
  Proc = {kernel, p1}
  Kernel = kernel
  NoProc = NoProc
  ProcOf <- UserAndKernel
  Reasons = {"Destroy", "Join"}
  Killable = {p1}
SPECIFICATION Spec
INVARIANTS TypeOK ListInv BlockedUntilWoken MarksExact
PROPERTY SwitchToLiving
