SPECIFICATION Spec
CONSTANTS
  Cpus = {0, 1}
  MaxSleeps = 2
  Sensors = {fan0, temp0}
  Tachometers = {fan0}
  Ports = {p1}
  Raw = {0, 1200}
  Clients = {c1, c2}
  Free = Free
  fanLimit = 5
  MaxHasty = 2
  Periods <- Turns
  StartBits <- BiosRegisters
  NamedFans = {1}
  Names = {0, 1}
  Controllers = {0, 1, 2}
  NoController = NoController
  Gain <- GuardianGain
  Levels = {0, 60, 127}
  Sources = {1}
  MaxStops = 2
  Temperatures = {0, 30, 40, 50}
  StartDuties = {0, 127}
  Eighths = {0, 9, 64, 127}
  Plan <- SensorPlan
  TachometerKeys = {"F0Ac", "F1Ac"}
  PortReaders = {p1}
  Tables <- BiosTables
  Padding = {0, 5}
CONSTRAINT Unmixed
INVARIANTS
  TypesOK
  MonitoringFollowsActive FrequencyMeasured
  EncodedOnce
  OtherBitsKept SettledReading
  FansCalibrated ControlRestored SettingsInForce
  LawKept
  ReadingsFind
  BoardKnown
PROPERTIES
  OffsetsSettle SettersClamp
CHECK_DEADLOCK FALSE
