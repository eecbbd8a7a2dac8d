CONSTANTS
  consumerA = consumerA
  providerA = providerA
  providerB = providerB
  relayA = relayA
  treasury = treasury
  hunterA = hunterA
  hunterB = hunterB
  keyA = keyA
  oracleAddress = oracleAddress
  providerSigner = providerSigner
  relaySigner = relaySigner
  juror1 = juror1
  juror2 = juror2
  juror3 = juror3
  NoOne = NoOne
  Accounts <- Everyone
  Consumers = {consumerA}
  Providers = {providerA}
  Relays = {relayA}
  Hunters = {}
  Signers <- AllSigners
  Jurors = {juror1}
  Keys = {}
  Oracles = {oracleAddress}
  RequestIds = {1, 2}
  ParamChoices <- HoldbackParams
  Wealth <- Purse
  HOLDBACK_BUCKETS = 2
  DAY = 1
  MAX_AUTHORIZATION_TTL = 1
  MAX_RELEASE_BATCH = 2
  THRESHOLD = 1
  SELECTION_DELAY = 1
  MaxTime = 4
  DepositAmounts = {20}
  WithdrawalAmounts = {20}
  Grants = {}
  BudgetLimits = {}
  KeyRevocations = {}
  ProviderBindings <- BindProvider
  RelayBindings <- BindRelay
  SignerRevocations = {providerSigner}
  Prices = {7}
  MaxFees = {10}
  IssueAges = {0}
  Claimants = {}
  Commitments = {}
  ProbeFeeCaps = {}
  OracleAmounts = {10}
  OracleDisputers = {NoOne, hunterA}
  Disputers = {consumerA, hunterA}
  MIN_CASE_PROBES = 1
  MAX_CASE_PROBES = 2
  MAX_CASE_DAYS = 2
SPECIFICATION FairSpec
CHECK_DEADLOCK FALSE
INVARIANTS AccountsMatchTotals ReusedSlotMatured
PROPERTY FeesEnd
