SPECIFICATION Spec
CONSTANTS
  off = off
  soft = soft
  calibration = calibration
  d1 = d1
  d2 = d2
  c1 = c1
  c2 = c2
  srv = srv
  Params <- MCParams
  Off = off
  CalibrationSpring = calibration
  Devices = {d1}
  Clicks = {c1}
  Server = srv
  Payloads <- EffectPayloads
  LedClients = TRUE
  Refusals <- AnyFailure
INVARIANTS TypeOK OneCycleAtATime OneControllerPerWheel ConnectedMeansWheels CacheCoherent GivenUpWheelsAreFree
