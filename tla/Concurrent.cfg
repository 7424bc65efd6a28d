SPECIFICATION Spec
CONSTANTS
  price = price
  blurb = blurb
  ad = ad
  notice = notice
  low = low
  high = high
  words = words
  other = other
  promo = promo
  gone = gone
  plain = plain
  link = link
  Slots = {price, blurb, ad, notice}
  Norms = {low, high, words, other, promo, gone}
  Details = {plain, link}
  EmptyNorm = EmptyNorm
  Absent = Absent
  NoDoc = NoDoc
  WholePage = WholePage
  Ignored = {ad}
  SlotMat <- MCSlotMat
  Procs = {p1, p2}
  Targets = {t1}
  Pages <- TwoPages
  MinSaliences = {1}
  RingN = 2
  SeenN = 2
  MaxEdits = 3
  MaxSnapshots = 1
  MaxFaults = 1
SYMMETRY Symmetry
INVARIANTS
  TypeOK
  RingIsWindow
  PlansOK
  AbsorbedIsAccounted
  SeenIsAccounted
PROPERTIES
  ImplementsRingLog
CHECK_DEADLOCK FALSE
