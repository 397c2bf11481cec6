SPECIFICATION Spec
CONSTANTS
  push = push
  nudge = nudge
  pull = pull
  spring = spring
  nothing = nothing
  Payloads <- MCPayloads
  Nothing = nothing
  Forces <- MCForces
  Backlog = 1
  InFlight = 2
  Faults <- NoFaults
  OtherDevices = FALSE
PROPERTIES HeldForceStays
