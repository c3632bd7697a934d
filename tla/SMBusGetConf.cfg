SPECIFICATION Spec
CONSTANTS
  callback1 = callback1
  callback2 = callback2
  getconf = getconf
  speed = speed
  pwm = pwm
  Threads = {callback1, getconf}
  Unlocked = {getconf}
  Registers = {speed, pwm}
  NoThread = NoThread
  Undefined = Undefined
INVARIANTS
  OriginalConfStored
