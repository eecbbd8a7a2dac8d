CONSTANTS
  receipt1 = receipt1
  receipt2 = receipt2
  receipt3 = receipt3
  ownerA = ownerA
  providerA = providerA
  keyA = keyA
  loop = loop
  NoOne = NoOne
  Receipts = {receipt1, receipt2}
  Owners = {ownerA}
  Providers = {providerA}
  Keys = {keyA}
  KeyOf <- SameKey
  OwnerOf <- OneOwner
  ProviderOf <- SameProvider
  MaxFee <- FeeOfOne
  Deposit <- DepositOf3
  Limit <- LimitOf2
  Cap <- CapOf3
  Settlers = {loop, probes}
  Releaser = loop
  MAX_BATCH_SIZE = 2
  MAX_SETTLE_ATTEMPTS = 2
  MaxCrashes = 0
  MaxMempool = 2
  Faults = {"timeout"}
  probes = probes
SPECIFICATION QueueSpec
CHECK_DEADLOCK FALSE
INVARIANT RejectedUnsettled
