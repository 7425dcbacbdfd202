SPECIFICATION FairSpec
CONSTANTS
  base = base
  x = x
  y = y
  z = z
  heat = heat
  motion = motion
  op = op
  Firmware = {base, x, y, z}
  Baseline = base
  Generated = {x}
  Situation = {heat}
  Operator = {op}
  None = None
  Provisioned = TRUE
  STRIKE_LIMIT = 2
  MaxReports = 2
  MaxPresses = 1
  MaxFaults = 1
  MaxRestarts = 1
INVARIANTS TypeOK Retrievable ActiveHasRun NoRepeatedMorph
PROPERTIES Reconciled
CHECK_DEADLOCK FALSE
