SPECIFICATION FairSpec
CONSTANTS
  a1 = a1
  a2 = a2
  a3 = a3
  m1 = m1
  m2 = m2
  timer = timer
  cli = cli
  web = web
  ed = ed
  None = None
  Artist = {a1, a3}
  Placeholder = {}
  Rank <- MCRank
  Answers <- StableAnswer
  Exact <- StableExact
  Unreachable = {a3}
  Limit = 2
  Worker = {timer, cli}
  Timed = {timer}
  Refreshing = {cli}
  Editor = {}
  Ingesting = {timer, cli}
  Mbid = {m1, m2}
PROPERTIES ApprovalStands EveryArtistDecided
