\* Six registers: every sequence of BARs, resets and interrupt settings.
SPECIFICATION Spec
CONSTANTS
  NSlots = 6
  NullBar = NullBar
  Counts <- MCCounts
  MsiLimit = 32
  MsixLimit = 2048
  CountSpan = 256
INVARIANTS TypeOK SlotsTiled PointersBound VectorsKept
PROPERTIES LayoutRefined MsixBarLostOnlyByReset
