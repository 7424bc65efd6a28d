SPECIFICATION MCSpec
CONSTANTS
  OwnTokens = {"us"}
  MinText = 3
  TextShare = 4
  Callers = {cf, c1, c2}
  Self = cf
  Hosts = {"h"}
  NoHost = "malformed"
  Urls <- MCUrls
  Requests <- MCRequests
  Texts = {"slow", "closed"}
  Lines <- MCLines
  Missing = "missing"
  Bodies <- MCBodies
  TooBig = TooBig
  Ttl = 3
  TicksPerSec = 2
  MaxClock = 4
  CheckClock = 0
  UrlOf <- MCUrlOf
  Unknown = Unknown
  Lists <- MCLists
  Users = {"check"}
  DraftLines <- MCDraftLines
  Paths <- MCPaths
  Chars <- MCChars
  MaxLines = 4
PROPERTY CrawlDelayHonored
CHECK_DEADLOCK FALSE
