CONSTANTS
  Deposit = 2
  Debt = 1
  Guests = {g1}
  NoGuest = NoGuest
  Procs = {p1, p2}
  Amounts = {2}
  InitialDeposit <- MCInitialDeposit
  InitialDebt <- MCInitialDebt
  BonusPercent = 100
  MinTopUp = 2
  BatchSize = 1
  References = {1}
  MaxRows = 7
SPECIFICATION FairSpec
INVARIANTS
  TypeOK
  LedgerShowsDeposit
  BonusCreditedOnce
  BonusIsEarned
  RefundsAreBounded
PROPERTIES
  DueBonusesSettle
CHECK_DEADLOCK FALSE
