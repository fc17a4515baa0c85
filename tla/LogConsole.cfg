\* Two threads, one colour of its own beside those of the levels, three calls.
SPECIFICATION Spec
CONSTANTS
  Threads = {t1, t2}
  Marks = {4}
  NoMark = NoMark
  Plain = Plain
  MaxCalls = 3
INVARIANTS TypeOK CountsSound ColourRestored
