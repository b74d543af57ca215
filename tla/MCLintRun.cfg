CONSTANTS
  Categories <- MCCategories
  CategoryOnly <- MCCategoryOnly
  Heads = {"p", "q", "m", "s"}
  Malformed = Malformed
  Files = {"a", "b"}
  Texts <- MCTexts
  Configs <- MCConfigs
  Commands <- MCCommands
  OddReports <- MCOddReports
  MaxRuns = 2

SPECIFICATION LintSpec
CHECK_DEADLOCK FALSE

INVARIANTS
  EarlierReportIsAnswered
  ComparedAlike
  OutcomeTellsReport
  DuplicateIsCovered
  BaselineIsAnswered
