SPECIFICATION DocumentsSpec
CONSTANTS
  BlankLine <- MCBlankLine
  Aliases <- MCAliases
  Kanji <- MCKanji
  Contract <- MCContract
  Drafts <- MCDrafts
  Sources <- MCSources
  Docxs <- MCDocxs
  Pdfs <- MCPdfs
  Template <- MCTemplate
  Media <- MCMedia
  Declarations <- MCDeclarations
  Invocations <- MCInvocations
  MaxEdits = 3
  MaxAudits = 1
  KatakanaChars = {"k", "l", "m", "dot"}
  Dot = "dot"
  Alnum = {"A", "B", "1", "c"}
  Upper = {"A", "B"}
  Digits = {"1"}
  CompoundChars = {"k", "l", "m", "h", "s", "g", "f", "x", "y", "w", "v", "p", "q"}
  Parens = {"("}
  NewLine = "nl"
  NormalOf <- MCNormalOf
  GlossMarks <- MCGlossMarks
  GLOSS_MARKERS <- MCGlossMarks
  FORBIDDEN_PHRASES <- MCForbidden
  CONTEXT_CHARS = 3
  TEMPLATE_HEADING_WORDS <- MCTemplates
  NumberMarks <- MCNumberMarks
  DefinitionMarks <- MCGlossMarks
  Requests <- MCRequests
CHECK_DEADLOCK FALSE

INVARIANTS
  CodeIsNobodysText
  ListsAreTakenWhole
  
  CitationsAreAnswered
  ReadyMeansDelivered
  ReportsAddUp
  FindingsHaveReasons
