SPECIFICATION Spec
CONSTANTS
  push = push
  nudge = nudge
  pull = pull
  spring = spring
  nothing = nothing
  Payloads <- MCPayloads
  Nothing = nothing
  Forces <- MCForces
  Backlog = 1
  InFlight = 2
  Faults <- AllFaults
  OtherDevices = TRUE
INVARIANTS TypeOK HelloFirst LiveLinkIsTrue
PROPERTIES LinkIsLeased StopIsFelt CallsReturn KeepsGettingThrough
