SPECIFICATION ListingSpec
CONSTANTS
  e1 = e1
  e2 = e2
  e3 = e3
  Absent = Absent
  Event = {e1, e2, e3}
  Rank <- TwoRanks
  RenditionsOf <- ThreeRenditions
  LastDay = 3
  Asked <- ThreeAddresses
  Saved = {0, 1, 2, 3}
  DefaultTableSize = 1
  DefaultPageSize = 2
  MaxPageSize = 2
INVARIANTS ListingTypeOK PageExists WalkSeesAll StillReachable
