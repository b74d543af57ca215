CONSTANTS
  Cont = Cont
  a = a
  b = b
  k = k
  sign = sign
  half = half
  voiced = voiced
  kana = kana
  mark = mark
  wave = wave
  left = left
  right = right
  Chars <- MCChars
  Texts <- MCTexts
  Replacements <- MCReplacements
  CodePoint <- MCCodePoint
  CharDef <- MCCharDef
  Definitions <- MCDefinitions
  MAX_LENGTH = 17
  REALLY_MAX_LENGTH = 17
  MaxRounds = 3
  MaxEdits = 17
  Encoding <- MCEncoding
  Configurations <- MCConfigurations
  RewriteRules <- MCRewriteRules
  IgnoreNormalize <- AllIgnored
  Upper <- AllUpper
  Lowercase <- MCLowercase
  NotNfkc <- AllNotNfkc
  Nfkc <- MCNfkc
  ProlongedSoundMarks <- AllMarks
  ReplacementSymbol = mark
  LeftBrackets <- AllLeft
  RightBrackets <- AllRight
  MaxYomiganaLength = 1
  ForeignReplacements <- MCForeignReplacements
  MaxForeignEdits = 2
  MaxForeignLength = 5

SPECIFICATION PluginSpec

INVARIANTS
  TypeOK
  MappingCorrect
  LengthCorrect
  TablesDescribeText

PROPERTIES
  EditsAreSorted
