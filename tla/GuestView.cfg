\* Two BARs of three overlapping places, before and after the system is loaded, and a stride
\* that wraps from a width of four.
SPECIFICATION Spec
CONSTANTS
  Span = 5
  Memory <- MCMemory
  Windows <- MCWindows
  MaxBars = 2
  Values = {0, 1}
  Ones = 1
  FieldSpan = 16
  ByteSpan = 256
  Widths = {0, 3, 4}
  Heights = {2}
  Formats = {10}
INVARIANTS TypeOK CopyFits
PROPERTIES OneAddressSpace
