CONSTANTS
  NoPath = NoPath
  empty = empty
  compound = compound
  entry = entry
  Lists = {l1, l2}
  Texts <- MCTexts
  Analysis <- MCAnalysis
  Modes = {"A", "B", "C"}
  Subsets <- MCSubsets
  Entries <- MCEntries
  Parts = {p1, p2}
  MaxNodes = 2

SYMMETRY MCSymmetry
SPECIFICATION CallerSpec
CHECK_DEADLOCK FALSE

INVARIANTS
  ResultsAreOfTheirTexts
PROPERTIES
  WordsAreSplit
  HeldSurfaceStays
  UnitsTileTheirWord
