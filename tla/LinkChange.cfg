SPECIFICATION Spec
CONSTANTS
  price = price
  blurb = blurb
  ad = ad
  notice = notice
  low = low
  high = high
  words = words
  other = other
  promo = promo
  gone = gone
  plain = plain
  link = link
  Slots = {price, blurb, ad, notice}
  Norms = {low, high, words, other, promo, gone}
  Details = {plain, link}
  EmptyNorm = EmptyNorm
  Absent = Absent
  NoDoc = NoDoc
  WholePage = WholePage
  Ignored = {ad}
  SlotMat <- MCSlotMat
  Procs = {p1}
  Targets = {t1}
  Pages <- LinkPages
  MinSaliences = {1}
  RingN = 2
  SeenN = 20
  MaxEdits = 4
  MaxSnapshots = 0
  MaxFaults = 0
INVARIANT EveryTransitionReported
CHECK_DEADLOCK FALSE
