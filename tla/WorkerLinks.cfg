SPECIFICATION FairSpec
CONSTANTS
  adele = adele
  bob = bob
  m1 = m1
  lost = lost
  w = w
  c = c
  None = None
  Artist = {adele, bob}
  Rank <- TwoRanks
  Mbid = {m1, lost}
  IdsOf <- SomeIds
  Unknown = {lost}
  Payload = {1, 2}
  Worker = {w}
  Timed = {w}
  LinkPass = {c}
  Refreshing = {c}
  Limit = 2
  MaxKills = 1
INVARIANTS RunsTold LinksAgree
PROPERTIES LinksArrive
