\* Scripts of up to three LoadSystemModule calls.
SPECIFICATION Spec
CONSTANT MaxLoads = 3
INVARIANTS TypeOK LibraryCovers HandlesExact InterruptsWired PointersFresh
PROPERTIES OneSystem DestructorCompletes
\* The object ends: deleted, or the process exited or crashed.
CHECK_DEADLOCK FALSE
