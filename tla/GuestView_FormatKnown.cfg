\* FormatKnown alone.
SPECIFICATION Spec
CONSTANTS
  Span = 5
  Memory <- MCMemory
  Windows <- MCWindows
  MaxBars = 2
  Values = {0, 1}
  Ones = 1
  FieldSpan = 16
  ByteSpan = 256
  Widths = {0, 3, 4}
  Heights = {2}
  Formats <- MCFormats
INVARIANT FormatKnown
