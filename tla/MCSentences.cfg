CONSTANTS
  BosId = 0
  Ids <- MCIds
  Conn <- MCConn
  Words <- MCWords
  MaxStep = 4
  MaxLen = 4
  MaxWords = 30
  CostWidth = 100
  CatsOf <- MCCatsOf
  CatOrder <- MCCatOrder
  NonStarting = {"ALPHA"}
  NoOovBow = "NOOOVBOW"
  NoOovEow = "NOOVEOW"
  MaxBit = 2
  Texts <- MCTexts
  Setups <- MCSetups
  Lanes = 2
  Inputs <- MCInputs
  Lexicons <- MCLexicons
  Lookback = 2

SPECIFICATION SentencesSpec

INVARIANTS
  RowsAreSound
  PredecessorsStayBest
  TopPathIsBest
  CostsWithin
  BatchReproducesLookup
  TextIsCutAtBreaks
  EveryPlainEndSplits

PROPERTIES
  OffersItsWords
  SplittingEnds
