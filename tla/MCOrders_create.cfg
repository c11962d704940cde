SPECIFICATION MCFairSpec
CONSTANTS
  Parts = {"orders"}
  Requests = {q1, q2}
  Bodies = {b1, b2}
  Nobody = Nobody
  MaxServed = 3
  Users = {u1}
  Episodes = {e1, e2}
  OrderNos = {o1, o2}
  RefundNos = {}
  Free = {}
  Prices = {1}
  None = None
  TTL = 2
  PayExpire = 1
  RequestTime = 1
  DayLen = 9
  MaxTime = 4
  DevMode = FALSE
  MayFail = TRUE
  Days <- MCDays
  Date <- MCDate
  ShareBP = 0
CHECK_DEADLOCK FALSE
INVARIANTS AccessMatchesPayment ChannelAgrees SinglePending
PROPERTY PendingSettles
