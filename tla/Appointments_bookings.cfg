CONSTANTS
  Deposit = 2
  Debt = 0
  Stock = 2
  Guests = {g1}
  NoGuest = NoGuest
  Procs = {p1, p2}
  Amounts = {2}
  InitialDeposit <- MCInitialDeposit
  InitialDebt <- MCInitialDebt
  BonusPercent = 0
  MinTopUp = 2
  BatchSize = 1
  References = {1, 2}
  MaxRows = 7
  Rooms = {r1}
  Starts = {1}
  Durations = {1}
  Methods = {"BALANCE", "CARD"}
  Assets = {a1}
  Selections <- MCSelections
  TotalQuantity <- MCTotalQuantity
  MaxBookings = 2
  MaxFaults = 1
SPECIFICATION ASpec
SYMMETRY Symmetry
ACTION_CONSTRAINT SmallInstance
INVARIANTS
  ATypeOK
  BookingHasItsCharge
  CancelledByGuestIsRefunded
  
  ChargeBuysBooking
PROPERTIES
  ImplementsWallet
CHECK_DEADLOCK FALSE
