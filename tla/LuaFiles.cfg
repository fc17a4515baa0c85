\* Two processes of two objects and two handles; a lock may miss, meet or exceed the file.
SPECIFICATION Spec
CONSTANTS
  Procs = {p1, p2}
  Slots = {s1, s2}
  Handles = {h1, h2}
  Zero = Zero
  Invalid = Invalid
  NoObject = NoObject
  Free = Free
  Ranges <- MCRanges
  MaxSize = 2
SYMMETRY Symmetry
INVARIANTS TypeOK HandlesOwned WholeFileExclusive
PROPERTIES LockRefined
