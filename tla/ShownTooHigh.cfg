SPECIFICATION ReadSpec
CONSTANTS
  Requests = {r1}
  Approvals = {a1}
  Refreshes = {f1}
  Balances = {2}
  PutBalances = {}
  ForceValues = {FALSE}
  Unparseable = {}
  Dtos <- OneDay
  Faults = {}
  Pairs = {p1}
  NotFiled = NotFiled
  p1 = p1
  Keys = {}
  NoKey = NoKey
  NoDto = NoDto
  NoRow = NoRow
  NoAttempt = NoAttempt
  NoRequest = NoRequest
  NoWriter = NoWriter
  NoUndo = NoUndo
  NothingShown = NothingShown
INVARIANTS
  ShownWasAvailable
CHECK_DEADLOCK FALSE
