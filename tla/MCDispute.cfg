CONSTANTS
  consumerA = consumerA
  providerA = providerA
  providerB = providerB
  relayA = relayA
  treasury = treasury
  hunterA = hunterA
  hunterB = hunterB
  keyA = keyA
  oracleAddress = oracleAddress
  providerSigner = providerSigner
  relaySigner = relaySigner
  juror1 = juror1
  juror2 = juror2
  juror3 = juror3
  NoOne = NoOne
  Accounts <- Everyone
  Consumers = {consumerA}
  Providers = {providerA}
  Relays = {relayA}
  Hunters = {}
  Signers <- AllSigners
  Jurors <- ThreeJurors
  Keys = {keyA}
  Oracles = {}
  RequestIds = {1, 2}
  ParamChoices <- UsualParams
  Wealth <- Purse
  HOLDBACK_BUCKETS = 2
  DAY = 2
  MAX_AUTHORIZATION_TTL = 1
  MAX_RELEASE_BATCH = 2
  THRESHOLD = 2
  SELECTION_DELAY = 1
  MaxTime = 5
  DepositAmounts = {20}
  WithdrawalAmounts = {13}
  Grants <- OneGrant
  BudgetLimits = {0, 14}
  KeyRevocations = {}
  ProviderBindings <- BindProvider
  RelayBindings <- BindRelay
  SignerRevocations = {}
  Prices = {12}
  MaxFees = {10}
  IssueAges = {0}
  Claimants = {}
  Commitments = {}
  ProbeFeeCaps = {}
  OracleAmounts = {}
  OracleDisputers = {}
  Disputers = {consumerA}
  MIN_CASE_PROBES = 1
  MAX_CASE_PROBES = 2
  MAX_CASE_DAYS = 2
SPECIFICATION HSpec
SYMMETRY JurorSymmetry
CHECK_DEADLOCK FALSE
INVARIANTS BudgetTracksFees TypeOK Solvent VerdictBacked BondsMatchCases
PROPERTIES SettledOnce EscrowImplemented
