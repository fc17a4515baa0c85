\* Numbers of four bits, identifiers of two, a revision of one; the last two stages stop.
SPECIFICATION Spec
CONSTANTS
  Bits = 4
  IdBits = 2
  RevisionBits = 1
  NumberBits = 3
  DefaultVendor = 2
  Unset = Unset
  NoDigits = NoDigits
  Environment <- MCEnvironment
  LuaValues <- MCLuaValues
  Memories <- MCMemories
  NoMemory = NoMemory
CHECK_DEADLOCK FALSE
INVARIANTS TypeOK ClassAsConfigured SizeCorrected DirectInsideBelowTop PowersWarned
