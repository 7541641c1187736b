CONSTANTS
  u1 = u1
  OrderTotal = 2
  Balance = 2
  Users = {u1, u2}
  Orders = {o1, o2, o3}
  NoOrder = NoOrder
  NoUser = NoUser
  Procs = {p1, p2}
  Owner <- MCOwner
  Total <- MCTotal
  InitialBalance <- MCInitialBalance
  PayAmounts = {1}
  RefundAmounts <- MCRefundAmounts
  PaymentModes = {"good"}
  MaxRetries = 1
  MaxTx = 3
  Aborts = TRUE
SPECIFICATION Spec
SYMMETRY Symmetry
ACTION_CONSTRAINT SmallInstance
INVARIANTS
  TypeOK
  RowsInProgressAreOwned
  PaidHasPayment
  RefundsAreBacked
  BalanceMatchesRows
  OverdraftIsBounded
PROPERTIES
  StaffAdvancesOnlyPaid
  ImplementsLedger
CHECK_DEADLOCK FALSE
