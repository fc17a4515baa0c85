\* Texts of up to four characters, four characters between two rewinds.
SPECIFICATION StringSpec
CONSTANTS
  MaxLen = 4
  MaxLetter = 5
INVARIANTS StringTypeOK NothingRepeated NothingSkipped
