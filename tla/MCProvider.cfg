CONSTANTS
  Ids = {"i1", "i2"}
  Names = {"f", "g"}
  UserContents <- Contents
  Attachments = FALSE
  MaxMessages = 5
  Protocols = {"chat", "responses", "anthropic", "gemini", "codex", "exec"}
  StreamFaults = {"cut", "error", "retry", "lost", "mixed"}
  MaxBlocks = 3
  MaxPieces = 3
  c1 = c1
  c2 = c2
  Callers = {c1, c2}
  max_concurrent = 2
  threads_per_server = 2
  recycle_after = 2
  PoolFaults = {"process", "wrapper", "garbage", "start", "timeout"}
  MaxServers = 3
  MaxFaults = 1
  r1 = r1
  relayA = relayA
  relayB = relayB
  providerA = providerA
  providerB = providerB
  Requests = {r1}
  Immediate = {}
  Relays = {relayA, relayB}
  Providers = {providerA, providerB}
  Sessions <- TwoProviders
  REQUEST_TTL = 0
  expire_grace = 1
  Faults = {"link", "backend", "timeout"}
  MaxTime = 2
  MaxSent = 1
  MaxCrashes = 1
SPECIFICATION ProviderSpec
SYMMETRY Symmetry
CHECK_DEADLOCK FALSE
INVARIANTS RequestWhole ResultsNext StreamedIsAnswer AnswerWhole NobodyWaits NoneLost ActiveExact RowsTrue
