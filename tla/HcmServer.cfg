SPECIFICATION FairSpec
CONSTANTS
  Works = {m1, m2}
  Puts = {c1}
  Switches = {s1}
  Requests = {r1, r2}
  Pairs = {p1}
  PutRows <- Five
  Unparseable = {1}
  Faults = {"crash", "tx"}
  Bodies <- ThreeBodies
  Asks <- TwoFirst
  Rows <- ThreeOrNone
  m1 = m1
  m2 = m2
  r1 = r1
  r2 = r2
  p1 = p1
  NoWork = NoWork
  NoRow = NoRow
  NotFiled = NotFiled
  NoUndo = NoUndo
  NoBody = NoBody
INVARIANTS
  TypeOK
  BalanceAddsUp
  OutcomesTrue
PROPERTIES
  LedgerSpec
  ExchangeEnds
CHECK_DEADLOCK FALSE
