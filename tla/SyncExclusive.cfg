SPECIFICATION FairSpec
CONSTANTS
  e1 = e1
  e2 = e2
  e3 = e3
  a = a
  b = b
  v1 = v1
  v2 = v2
  empty = empty
  broken = broken
  web = web
  worker = worker
  live = live
  dev = dev
  prod = prod
  None = None
  Event <- MCEvent
  Payload <- MCPayload
  Runner = {worker}
  Database = {prod}
  DbOf <- OneDb
  Development = {}
  Crashable = {}
  Version <- AllVersions
  Tagged = {v1, v2, empty, broken}
  Malformed = {broken}
  Body <- MCBody
  FirstRow <- MCFirstRow
INVARIANTS ValidatorDescribesCatalog
PROPERTIES MatchingEtagChangesNothing Convergence PublishedSpec
