SPECIFICATION Spec
CONSTANTS
  Space = " "
  Adjoining <- MCAdjoining
  Colon = ":"
  Ellipsis = "~"
  Ctx = 2
  Tokens <- MCTokens
  Lower <- MCLower
  Amount <- MCAmount
  Digits <- MCDigits
  Points = {"."}
  Currencies = {"$"}
  Day <- MCDay
  Skeleton <- MCSkeleton
  Cues = {"viewing"}
  KeyWords = {"stock"}
  Negations <- MCNegations
  Deprecations = {}
  Breakages <- MCNegations
  ShortBlock = 3
  BlockTrunc = 5
  Sites <- MCSites
  Vocabulary <- MCVocabulary
  Hrefs <- MCHrefs
  AlignRates = {8000, 10000}
  MaxWords = 5
  MaxEdits = 2
PROPERTIES
  FlipsAreCritical
  OnlyCountersAreDamped
  CountersStayQuiet
  StickiesDecide
  ComingsAndGoingsAreTrusted
CHECK_DEADLOCK FALSE
