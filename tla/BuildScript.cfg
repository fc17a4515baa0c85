\* Two files, two changes of src/, two interruptions, two days, two commits.
SPECIFICATION Spec
CONSTANTS
  Files = {f1, f2}
  MaxEdits = 2
  MaxStops = 2
  LastDay = 2
  LastCommit = 2
  None = None
INVARIANTS TypeOK BuildComplete BuiltCurrent DateVouches
