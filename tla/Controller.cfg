CONSTANTS
  MIN_PERIOD = 1
  MAX_PERIOD = 30
  MAX_LEASE = 70
  CEILING = 12
  Float <- MCFloat
  EPSILON = 1
  ONE = 4
  EMERGENCY = 14
  Unknown = {"gpio_write_raw"}
  Board <- MCBoard
  Proposal <- MCProposal
  Threshold = {4, 12}
  RECOVERY = 8
  OVERLAP = 5
  USELESS = 16
  Reading <- MCReading
  MAX_RETRIES = 3
  TICK = 10
  NoManifest = NoManifest
SPECIFICATION Spec
INVARIANTS TypeOK ServesTheSupervisor ConsistencyIsExact ValidatedIsRunnable
PROPERTY RelayRests
CHECK_DEADLOCK FALSE
