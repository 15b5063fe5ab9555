SYMMETRY Alike
SPECIFICATION Spec
CONSTANTS
  e1 = e1
  e2 = e2
  e3 = e3
  a = a
  b = b
  v1 = v1
  v2 = v2
  empty = empty
  broken = broken
  web = web
  worker = worker
  live = live
  dev = dev
  prod = prod
  None = None
  Event <- MCEvent
  Payload <- MCPayload
  Runner = {web, worker, live}
  Database = {dev, prod}
  DbOf <- ThreeDb
  Development = {dev}
  Crashable = {live}
  Version <- TwoVersions
  Tagged = {v1}
  Malformed = {}
  Body <- TwoBodies
  FirstRow <- TwoFirstRows
INVARIANTS CatalogMatchesHash TornOnlyInFirstRow
PROPERTIES PublishedSpec
