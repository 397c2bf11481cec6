SPECIFICATION Spec
CONSTANTS
  e1 = e1
  e2 = e2
  e3 = e3
  e4 = e4
  Effects <- TwoEffects
  Kinds <- TimeKinds
  Offers <- TimeOffers
  Iterations = {0}
  Gains = {}
  Centers = {FALSE}
  Commands <- TimeCommands
  References = 1
  Capacity = 2
  Interval = 2
  DefaultPeriod = 4
  MaxTime = 4
  Recreates = FALSE
SYMMETRY AnyOfTwo
INVARIANTS SentIsMix FreshWhenPolled
PROPERTIES PlaysToTheEnd
