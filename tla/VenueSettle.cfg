SPECIFICATION FairSpec
CONSTANTS
  e1 = e1
  e2 = e2
  l1 = l1
  l2 = l2
  tba = tba
  m1 = m1
  m2 = m2
  timer = timer
  cli = cli
  ed = ed
  None = None
  Event = {e1, e2}
  Names <- OneNameEach
  Label = {l1, l2}
  Placeholder = {}
  Slug <- OneSlug
  Place = {}
  Answers <- NoAnswers
  Exact <- NoExact
  Typed = {}
  Pass = {timer, cli}
  Bootstrap = {cli}
  Editor = {}
PROPERTIES EventsSettle
