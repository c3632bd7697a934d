SPECIFICATION Spec
CONSTANTS
  ByteRange = 4
  NameLength = 1
  MaxLength = 2
  BufferSize = 2
  TypeLength = 1
  NameBytes = {0, 1}
  DataBytes = {0, 1}
  Types <- MCOneType
  DefaultType <- MCSameType
  Preloaded <- MCPreloaded
  MaxKeys = 2
  MaxHeld = 2
CONSTRAINT OneStrangeByte
INVARIANTS PortInv
PROPERTIES ImplementsSMCService
