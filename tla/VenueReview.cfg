SPECIFICATION Spec
CONSTANTS
  e1 = e1
  e2 = e2
  l1 = l1
  l2 = l2
  tba = tba
  m1 = m1
  m2 = m2
  timer = timer
  cli = cli
  ed = ed
  None = None
  Event = {e1, e2}
  Names <- ChangingNames
  Label = {l1, l2, tba}
  Placeholder = {tba}
  Slug <- TwoSlugs
  Place = {m1}
  Answers <- MCAnswers
  Exact <- MCExact
  Typed = {}
  Pass = {timer}
  Bootstrap = {}
  Editor = {ed}
INVARIANTS TypeOK QueuedHasSuggestions
PROPERTIES EarlierVenuesKept
