CONSTANTS
  Kinds <- AllKinds
  N = 3
  MaxChanges = 1
  MaxShort = 1
  MaxForeign = 1
  MaxUnreadable = 1
  Days = 1
  c1 = c1
  s1 = s1
  s2 = s2
  NoSlot = NoSlot
  Child = {c1}
  Slot = {s1, s2}
  Threshold = 3
SPECIFICATION ListingSpec
INVARIANTS MissingCountObserved
PROPERTIES LossBounded TruthPublished ReappearedIsActive
