SPECIFICATION Spec
CONSTANTS
  t1 = t1
  t2 = t2
  Threads = {t1, t2}
  NumFans = 3
  NumPwm = 2
  PwmOf <- MCPwmOf
  BootConfs <- MCBootConfs
  Speeds = {10, 30}
  NoThread = NoThread
INVARIANTS
  FansInv
  OriginalRestored
  DutyApplied
CONSTRAINT Focused
SYMMETRY ThreadSymmetry
