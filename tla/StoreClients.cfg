CONSTANTS
  p1 = p1
  p2 = p2
  u1 = u1
  port = port
  sharp = sharp
  ka = ka
  kb = kb
  h1 = h1
  h2 = h2
  PluginThreads = {p1}
  UserThreads = {u1}
  PortThreads = {port}
  Names = {sharp, ka, kb}
  SharpKey = sharp
  Handlers = {h1}
  Data = {0, 1}
  Sizes = {1}
  Preloaded <- MCPreloaded
  CountModulus = 2
  MaxLeaks = 0
  MaxHold = 0
  NoThread = NoThread
  NoHandler = NoHandler
  Undefined = Undefined
  Absent = Absent
SPECIFICATION Spec
INVARIANTS SharpKeyCounts
PROPERTIES ImplementsKeyTable
