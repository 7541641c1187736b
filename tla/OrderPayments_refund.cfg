CONSTANTS
  u1 = u1
  OrderTotal = 1
  Balance = 1
  Users = {u1}
  Orders = {o1}
  NoOrder = NoOrder
  NoUser = NoUser
  Procs = {p1, p2}
  Owner <- MCOwner
  Total <- MCTotal
  InitialBalance <- MCInitialBalance
  PayAmounts = {}
  RefundAmounts = {}
  PaymentModes = {"good"}
  MaxRetries = 1
  MaxTx = 2
  Aborts = FALSE
SPECIFICATION FairSpec
PROPERTIES
  CancelledPaidOrderIsRefunded
CHECK_DEADLOCK FALSE
