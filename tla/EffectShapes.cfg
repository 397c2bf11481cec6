SPECIFICATION Spec
CONSTANTS
  e1 = e1
  e2 = e2
  e3 = e3
  e4 = e4
  Effects = {e1}
  Kinds <- AllKinds
  Offers <- ShapeOffers
  Iterations = {0}
  Gains = {5000}
  Centers = {FALSE}
  Commands <- NoCommands
  References = 2
  Capacity = 1
  Interval = 2
  DefaultPeriod = 4
  MaxTime = 4
  Recreates = FALSE
INVARIANTS FitsTheWire GainsWeaken SentIsMix FeltIsHeld
