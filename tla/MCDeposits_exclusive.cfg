SPECIFICATION MCSpec
CONSTANTS
  Parts = {"deposits"}
  RechargeIds = {r1, r2}
  RowTTL = 1
  PaymentExpire = 2
  MaxClock = 3
  Distributors = {d1, d2}
  Dramas = {t1}
  Platforms = {p1, p2}
  ClaimIds = {c1, c2}
  GrantIds = {g1, g2}
  AbandonIds = {a1}
  Cycles = {k1}
  None = None
  Minutes = 20
  Base <- MCBase
  Amounts = {46000, 6000}
  MaxCredit = 52000
  Shares = {0, 30000}
  Legacy = {}
  Deletable = {}
  MaxInFlight = 2
  MaxSubmits = 0
  ch1 = ch1
  ch2 = ch2
  Channels = {ch1, ch2}
  Creators = {x1, x2}
  Publishers = {b1}
  Places = {pl}
  NoOne = NoOne
  PlaceOf <- MCPlaceOf
  Sheets = {1, 2}
  Lines <- MCLines
  Corrections <- MCCorrections
  Imports = {i1, i2}
  MaxUploads = 2
SYMMETRY Symmetry
CHECK_DEADLOCK FALSE
INVARIANT PlatformsExclusive
