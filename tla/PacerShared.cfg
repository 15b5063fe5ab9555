SPECIFICATION Spec
CONSTANTS
  worker = worker
  webapp = webapp
  cli = cli
  Client = {worker, webapp, cli}
  Interval <- MCInterval
  MinInterval = 2
  MaxInterval = 3
  Delay = {1, 3}
  Horizon = 5
  Budget = 3
SYMMETRY Alike
INVARIANTS TypeOK RateBound NoSlotSkipped
