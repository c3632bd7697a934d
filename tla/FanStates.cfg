SPECIFICATION Spec
CONSTANTS
  superio = superio
  acpi = acpi
  nvclock = nvclock
  geforce = geforce
  andigilog = andigilog
  f1 = f1
  f2 = f2
  f3 = f3
  f4 = f4
  f5 = f5
  f6 = f6
  Plugins = {superio, acpi, nvclock, geforce, andigilog}
  Inputs = {f4, f5, f6}
  Kind <- MCKind
  PluginOf <- MCStatesPluginOf
  Preloaded <- MCPreloaded
  ByteValues = 7
  HexDigits = 4
  DecDigits = 3
  CountModulus = 4
  Nobody = Nobody
  NoInput = NoInput
INVARIANTS
  RealStatesReturned
CHECK_DEADLOCK FALSE
