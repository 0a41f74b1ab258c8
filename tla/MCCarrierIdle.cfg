CONSTANTS
  Carriers = {k1, k2, k3}
  Dials = {d1, d2}
  None = None
  BaseCarriers = {k1}
  MaxCarriers = 2
  Callers = {a1}
  Threshold = 1
  Peak = 6
  MinIdle = 2
  Cooldown = 1
SPECIFICATION IdleSpec
PROPERTIES IdleLongEnough
CHECK_DEADLOCK FALSE
