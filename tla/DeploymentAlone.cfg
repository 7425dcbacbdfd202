SPECIFICATION FairSpec
CONSTANTS
  base = base
  x = x
  y = y
  z = z
  heat = heat
  motion = motion
  op = op
  Firmware = {base, x, y, z}
  Baseline = base
  Generated = {x}
  Situation = {heat}
  Operator = {}
  None = None
  Provisioned = TRUE
  STRIKE_LIMIT = 2
  MaxReports = 3
  MaxPresses = 0
  MaxFaults = 1
  MaxRestarts = 0
PROPERTIES HaltHolds MorphEnds
CHECK_DEADLOCK FALSE
