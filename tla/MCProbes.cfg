CONSTANTS
  consumerA = consumerA
  providerA = providerA
  providerB = providerB
  relayA = relayA
  treasury = treasury
  hunterA = hunterA
  hunterB = hunterB
  keyA = keyA
  oracleAddress = oracleAddress
  providerSigner = providerSigner
  relaySigner = relaySigner
  juror1 = juror1
  juror2 = juror2
  juror3 = juror3
  NoOne = NoOne
  Accounts <- Everyone
  Consumers = {consumerA}
  Providers = {providerA}
  Relays = {relayA}
  Hunters = {hunterA}
  Signers <- AllSigners
  Jurors = {juror1}
  Keys = {keyA}
  Oracles = {}
  RequestIds = {1, 2}
  ParamChoices <- ChangingParams
  Wealth <- Purse
  HOLDBACK_BUCKETS = 3
  DAY = 1
  MAX_AUTHORIZATION_TTL = 1
  MAX_RELEASE_BATCH = 2
  THRESHOLD = 1
  SELECTION_DELAY = 1
  MaxTime = 5
  DepositAmounts = {20}
  WithdrawalAmounts = {}
  Grants <- OneGrant
  BudgetLimits = {}
  KeyRevocations = {keyA}
  ProviderBindings <- BindProvider
  RelayBindings <- BindRelay
  SignerRevocations = {relaySigner}
  Prices = {12}
  MaxFees = {10}
  IssueAges = {0}
  Claimants = {providerA}
  Commitments <- OneCommitted
  ProbeFeeCaps = {10}
  OracleAmounts = {}
  OracleDisputers = {}
  Disputers = {}
  MIN_CASE_PROBES = 1
  MAX_CASE_PROBES = 2
  MAX_CASE_DAYS = 2
SPECIFICATION Spec
CHECK_DEADLOCK FALSE
INVARIANTS EscrowMatchesRecords CasesComplete FeesPayable

