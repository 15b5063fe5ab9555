SPECIFICATION Spec
CONSTANTS
  a1 = a1
  a2 = a2
  a3 = a3
  m1 = m1
  m2 = m2
  timer = timer
  cli = cli
  web = web
  ed = ed
  None = None
  Artist = {a1, a2}
  Placeholder = {a2}
  Rank <- MCRank
  Answers <- AnyAnswer
  Exact <- MCExact
  Unreachable = {}
  Limit = 2
  Worker = {timer}
  Timed = {timer}
  Refreshing = {}
  Editor = {ed}
  Ingesting = {timer, web}
  Mbid = {m1, m2}
INVARIANTS TypeOK IdentityOfVerified
PROPERTIES NeverAskedAgain
