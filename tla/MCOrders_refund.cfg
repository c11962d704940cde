SPECIFICATION MCSpec
CONSTANTS
  Parts = {"orders", "requests"}
  Requests = {q1, q2, q3}
  Bodies = {b1, b2}
  Nobody = Nobody
  MaxServed = 3
  Users = {u1}
  Episodes = {e1}
  OrderNos = {o1}
  RefundNos = {r1, r2}
  Free = {}
  Prices = {3}
  None = None
  TTL = 2
  PayExpire = 1
  RequestTime = 1
  DayLen = 1
  MaxTime = 4
  DevMode = TRUE
  MayFail = TRUE
  Days <- MCDays
  Date <- MCDate
  ShareBP = 5000
SYMMETRY Symmetry
CHECK_DEADLOCK FALSE
INVARIANTS RefundAccounted LedgerCovers KeyPromise
PROPERTY ImplementsBook
