SPECIFICATION FairSpec
CONSTANTS
  baseline = baseline
  cooler = cooler
  inverted = inverted
  idler = idler
  Program = {baseline, cooler, inverted, idler}
  Drives = {cooler, inverted}
  Beats = {baseline, cooler}
  Idles = {idler}
  Activation <- MCActivation
  Recovery <- MCRecovery
  MinHold <- MCMinHold
  Fallback <- MCFallback
  Reading = {1, 2, 3, 4}
  NoReading = NoReading
  EMERGENCY = 4
  ENGAGE = 3
  RELEASE = 1
  MISS_LIMIT = 1
  CEILING = 2
  WINDOW = 4
INVARIANTS TypeOK EmergencyMeansCooling FaultCostsNoCooling NoStuckRelay
PROPERTIES SafeStateHysteresis SilenceIsNoticed
