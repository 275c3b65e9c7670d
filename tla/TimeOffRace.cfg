SPECIFICATION HighSpec
CONSTANTS
  Requests = {r1, r2}
  Approvals = {a1, a2}
  Refreshes = {f1}
  Balances = {1, 2}
  PutBalances = {}
  ForceValues = {TRUE, FALSE}
  Unparseable = {}
  Dtos <- OneDay
  Faults = {"crash"}
  Pairs = {p1}
  NotFiled = NotFiled
  p1 = p1
  p2 = p2
  k1 = k1
  Keys = {k1}
  NoKey = NoKey
  NoDto = NoDto
  NoRow = NoRow
  NoAttempt = NoAttempt
  NoRequest = NoRequest
  NoWriter = NoWriter
  NoUndo = NoUndo
SYMMETRY Symmetry
INVARIANTS
  CacheNeverLow
PROPERTIES
  ReservationFits
CHECK_DEADLOCK FALSE
