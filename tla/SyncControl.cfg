SPECIFICATION FairSpec
CONSTANTS
  p1 = p1
  p2 = p2
  timer = timer
  None = None
  Page = {p1, p2}
  Scheduled = timer
  Interval = TRUE
  MaxQueue = 1
INVARIANTS PageKnows
PROPERTIES OneRunner StreamEnds ScheduleGoesOn
