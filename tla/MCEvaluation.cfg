SPECIFICATION SuikoEvalSpec
CONSTANTS
  Sources <- TwoSources
  Fetchers = {p, q}
  Payloads = {v1, v2}
  MaxRuns = 3
  MaxShared = 2
  MaxLoads = 1
  Corpora <- MCCorpora
  Commands <- MCCommands
  Accepted <- MCAccepted
  Terms = {1, 2, 3}
  Known = {2}
  MIN_SAMPLES = 2
  ShortEnd = 10
  MediumEnd = 20
  MinDocuments = 1
  MinRatio = 4
  MaxCandidates = 1
CHECK_DEADLOCK FALSE

INVARIANTS
  CorpusIsSound
  RecommendationIsSound
  CountsAddUp
PROPERTIES
  SavesSelection
  FetchEnds
