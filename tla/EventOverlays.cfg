SPECIFICATION FairSpec
CONSTANTS
  e1 = e1
  e2 = e2
  v1 = v1
  v2 = v2
  p1 = p1
  p2 = p2
  None = None
  Event = {e1, e2}
  Rank <- TwoRanks
  Version = {v1, v2}
  RenditionsOf <- Changing
  Process = {p1, p2}
  Scheduled = {p2}
  Commands <- WebAndPasses
  Limit = 1
  MaxVisits <- TwoVisits
INVARIANT OverlaysHaveEvents
PROPERTIES OneFetch FetchAnswered StaleWritesHeal
