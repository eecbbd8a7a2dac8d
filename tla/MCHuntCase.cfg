CONSTANTS
  p1 = p1
  Nothing = Nothing
  Providers = {p1}
  keys_per_batch = 2
  voids_per_day = 2
  MIN_CASE_PROBES = 2
  MAX_CASE_PROBES = 3
  MAX_CASE_DAYS = 2
  quality_window = 4
  capability_window = 3
  capability_minimum = 3
  max_failure_rate = 40
  capability_floor = 85
  Faults = {}
  Exchanges <- Some
  OtherVoids = 0
  MaxProbes = 3
  MaxDay = 4
  MaxCrashes = 1
SPECIFICATION Spec
CHECK_DEADLOCK FALSE
INVARIANT CaseAccepted
