CONSTANTS
  p1 = p1
  p2 = p2
  u1 = u1
  port = port
  sharp = sharp
  ka = ka
  kb = kb
  h1 = h1
  h2 = h2
  PluginThreads = {p1, p2}
  UserThreads = {}
  PortThreads = {}
  Names = {sharp, ka, kb}
  SharpKey = sharp
  Handlers = {h1}
  Data = {0}
  Sizes = {1, 2}
  Preloaded <- MCPreloaded
  CountModulus = 1
  MaxLeaks = 1
  MaxHold = 1
  NoThread = NoThread
  NoHandler = NoHandler
  Undefined = Undefined
  Absent = Absent
SPECIFICATION FairSpec
INVARIANTS LockBalanced NoDuplicateKeys ValuesComplete LockedReadsDefined
PROPERTIES CallsReturn
