SPECIFICATION Spec
CONSTANTS
  Words <- MCWords
  Chars <- MCChars
  Kind <- MCKind
  Classes = {"", "cookie-banner", "amount"}
  Boilerplate = {"cookie-banner"}
  Relative = {"ago", "soon"}
  Sentinel = "~TS~"
  Generated = {"radix-1", "radix-2"}
  Tracking = {2, 3}
  Sites <- MCSites
  Snippets <- MCSnippets
  Texts <- MCTexts
  Ids <- MCIds
  Urls <- MCUrls
  Retagged <- MCRetagged
  MaxEdits = 2
INVARIANTS
  TextIsToldOnce
  KeysDiffer
PROPERTIES
  VolatileIsUnseen
  ContentIsSeen
  EditsStayInTheirSection
CHECK_DEADLOCK FALSE
