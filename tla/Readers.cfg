SPECIFICATION Spec
CONSTANTS
  price = price
  blurb = blurb
  low = low
  high = high
  words = words
  other = other
  plain = plain
  Slots = {price, blurb}
  Norms = {low, high, words, other}
  Details = {plain}
  Pages <- MCPages
  EmptyNorm = EmptyNorm
  Absent = Absent
  NoDoc = NoDoc
  WholePage = WholePage
  Ignored = {}
  SlotMat <- MCSlotMat
  RingN = 2
  SeenN = 1
  Targets = {"t", "u"}
  FetchedAt <- MCFetchedAt
  Feeds <- MCFeeds
  MaxPuts = 3
INVARIANTS
  ReadersTellTheLog
  EvictionTakesPuts
  PagesCoverTheFeed
  FeedIsComplete
PROPERTIES
  PagingEnds
