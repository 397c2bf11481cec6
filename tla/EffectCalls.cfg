SPECIFICATION Spec
CONSTANTS
  e1 = e1
  e2 = e2
  e3 = e3
  e4 = e4
  Effects <- FourEffects
  Kinds <- CallKinds
  Offers <- CallOffers
  Iterations = {0}
  Gains = {}
  Centers = {FALSE}
  Commands <- AllCommands
  References = 1
  Capacity = 3
  Interval = 2
  DefaultPeriod = 4
  MaxTime = 1
  Recreates = TRUE
SYMMETRY AnyOfFour
INVARIANTS TypeOK MemoryIsTrue SentIsMix FeltIsHeld FlagsTellTruth TableSound
PROPERTIES TrackedUntilReleased
