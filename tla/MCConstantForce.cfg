SPECIFICATION Spec
CONSTANTS
  Magnitudes <- MCMagnitudes
  PacketBound = 20
INVARIANTS TypeOK WheelMatchesMemory HeldForceReached
PROPERTIES LimitedStep NoOvershoot
