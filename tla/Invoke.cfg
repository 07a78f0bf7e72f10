CONSTANTS
  k1 = k1
  k2 = k2
  h1 = h1
  m1 = m1
  short = short
  Calls = {c1}
  Keys = {k1, k2}
  HttpTools = {h1}
  McpTools = {m1}
  Shorts = {short}
  ShortOf <- MCShortOf
  Versions <- MCVersions
  Batches <- MCBatches
  NoKey = NoKey
  None = None
  RequestTimeout = TRUE
  MaxFlips = 2
SPECIFICATION Spec
CHECK_DEADLOCK FALSE
INVARIANTS ChangesBind QuarantineHolds AccountsAgree
PROPERTIES RequestsAnswered
