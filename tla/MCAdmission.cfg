CONSTANTS
  receipt1 = receipt1
  receipt2 = receipt2
  receipt3 = receipt3
  ownerA = ownerA
  providerA = providerA
  keyA = keyA
  loop = loop
  NoOne = NoOne
  Receipts = {request1, request2}
  Owners = {ownerA}
  Providers = {providerA}
  Keys = {keyA}
  KeyOf <- SameKey
  OwnerOf <- OneOwner
  ProviderOf <- SameProvider
  MaxFee <- FeeOfOne
  Deposit <- DepositOf1
  Limit <- LimitOf1
  Cap <- CapOf1
  Settlers = {loop}
  Releaser = loop
  MAX_BATCH_SIZE = 2
  MAX_SETTLE_ATTEMPTS = 1
  MaxCrashes = 1
  MaxMempool = 2
  Faults = {"rpc"}
  probes = probes
  request1 = request1
  request2 = request2
  request3 = request3
  keyB = keyB
  providerB = providerB
  Requests = {request1, request2}
  AuthorizationOf <- OwnAuthorization
  Capacity <- RoomForOne
  MaxSessions = 2
SPECIFICATION HSpec
CHECK_DEADLOCK FALSE
INVARIANTS LoadCounted OverAdmissionBounded InFlightExact
SYMMETRY RequestSymmetry
