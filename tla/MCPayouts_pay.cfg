SPECIFICATION Spec
CONSTANTS
  Days = {d1, d2}
  Cycles = {k1}
  CycleOf <- MCCycleOf
  Settlements = {s1, s2}
  Invoices = {i1}
  Withdrawals = {w1, w2}
  Runs = {r1}
  None = None
  Amounts = {2}
  Changes <- MCChanges
  MaxIncome = 4
  MaxContracts = 2
  MinWithdrawal = 1
  InvoiceRequired = FALSE
SYMMETRY Symmetry
CHECK_DEADLOCK FALSE
INVARIANTS MoneyAccounted InvoiceAgrees
PROPERTIES WithdrawnWithinIncome ImplementsPurse
