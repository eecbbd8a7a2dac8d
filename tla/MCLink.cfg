CONSTANTS
  call1 = call1
  call2 = call2
  auth1 = auth1
  Nobody = Nobody
  MAX_ENVELOPE_TTL_SECONDS = 2
  MAX_TRANSPORT_KEY_LIFETIME_SECONDS = 9
  MAX_CLOCK_SKEW_SECONDS = 1
  SIGNATURE_MAX_AGE_SECONDS = 1
  Calls = {call1, call2}
  Authorizations = {auth1}
  AuthorizationOf <- AuthOf
  ExecutionTime = 1
  FrameTtl = 1
  ReplyKeyLifetime = 3
  ClockAhead = 0
  MaxTime = 1
  Capacity = 1
  TRANSPORT_KEY_LIFETIME = 3
  TRANSPORT_KEY_ROTATE_BEFORE = 3
  Unserved = {}
  MaxDeltas = 1
  MaxRestarts = 1
  Faults = {"link", "timeout"}
  MaxSessions = 2
SPECIFICATION Spec
SYMMETRY CallSymmetry
CHECK_DEADLOCK FALSE
INVARIANTS ExecutedOnce SlotsExact OneAnswer FramesOpen RegisteredOpen
