SPECIFICATION Spec
CONSTANTS
  Requests = {r1, r2}
  Approvals = {}
  Refreshes = {}
  Balances = {2}
  PutBalances = {}
  ForceValues = {FALSE}
  Unparseable = {}
  Dtos <- KeyedDtos
  Faults = {}
  Pairs = {p1, p2}
  NotFiled = NotFiled
  p1 = p1
  p2 = p2
  k1 = k1
  Keys = {k1}
  NoKey = NoKey
  NoDto = NoDto
  NoRow = NoRow
  NoAttempt = NoAttempt
  NoRequest = NoRequest
  NoWriter = NoWriter
  NoUndo = NoUndo
PROPERTIES
  RetryReturnsOriginal
CHECK_DEADLOCK FALSE
