CONSTANTS
  receipt1 = receipt1
  receipt2 = receipt2
  receipt3 = receipt3
  ownerA = ownerA
  providerA = providerA
  keyA = keyA
  loop = loop
  NoOne = NoOne
  Receipts = {receipt1, receipt2}
  Owners = {ownerA}
  Providers = {providerA}
  Keys = {keyA}
  KeyOf <- SameKey
  OwnerOf <- OneOwner
  ProviderOf <- SameProvider
  MaxFee <- FeeOfOne
  Deposit <- DepositOf3
  Limit <- LimitOf2
  Cap <- CapOf3
  Settlers = {loop, probes}
  Releaser = loop
  MAX_BATCH_SIZE = 1
  MAX_SETTLE_ATTEMPTS = 2
  MaxCrashes = 1
  MaxMempool = 2
  Faults = {"rpc", "timeout", "gas", "refund", "lapse"}
  probes = probes
SPECIFICATION FairSpec
CHECK_DEADLOCK FALSE
INVARIANT TypeOK
INVARIANT SettledOnChain
INVARIANT ReleasedEnded
PROPERTY RowsAdvance
PROPERTY QueueDrains
