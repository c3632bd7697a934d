SPECIFICATION Spec
CONSTANTS
  ByteRange = 5
  NameLength = 2
  MaxLength = 1
  BufferSize = 2
  TypeLength = 1
  NameBytes = {0, 1}
  DataBytes = {0, 1}
  Types <- MCTypes
  DefaultType <- MCDefaultType
  Preloaded <- MCPreloaded
  MaxKeys = 2
  MaxHeld = 2
PROPERTIES ImplementsSMCService
