CONSTANTS
  p1 = p1
  p2 = p2
  w1 = w1
  w2 = w2
  t1 = t1
  t2 = t2
  Procs = {p1, p2}
  MaxFaults = 1
  Templates = {t1, t2}
  Employees = {w1, w2}
  EmployeeRole <- MCEmployeeRole
  Days = {1, 2}
  Forms <- MCForms
  Given <- MCGiven
  MaxCompletions = 3
  r1 = r1
  r2 = r2
  nothing = nothing
  u1 = u1
  u2 = u2
  o1 = o1
  RoomIds = {r1, r2}
  RoomForms <- MCRoomForms
  ElementIds = {1}
  AssetIds = {1}
  BookingIds = {1, 2}
  OccupancyDays = {0, 1}
  SlotsPerDay = 2
  MaxRange = 2
  New = nothing
  PlanElements <- MCPlanElements
  Field <- MCField
  Background <- MCBackground
  MaxPlan = 3
  Authors = {u1, u2}
  CompletedOrders = {o1}
  OrderOf <- MCOrderOf
  Stars = {1, 5}
  NoOrder = nothing
  MaxReviews = 2
  MaxCards = 3
  Fields = {"minOrderAmount", "commissionPercentage", "maxFileSizeMB"}
  SectionOf <- MCSectionOf
  SettingValues = {0, 1}
  Missing = nothing
  DayLength = 6
  Week = 2
  ServerOffset <- MCServerOffset
  ShiftWindow = 1
  ShiftTemplates <- MCShiftTemplates
  HoursTemplates <- MCHoursTemplates
  AbsenceRanges <- MCAbsences
  NoShifts = nothing
  Instants <- MCInstants
  ReportCafes = {r1, r2}
  Baskets <- MCBaskets
  MonthLength <- MCMonths
  DayParts = 2
  TrendDays = 3
  TrendMonths = 3
  Clock <- MCClock
  MaxReported = 2
SPECIFICATION BackofficeSpec
INVARIANTS
  BackofficeTypeOK
  ReportsAddUp
  BookingsKeepTheirRooms
  DerivedDataAgrees
PROPERTIES
  UncompleteUndoesWhatItRead
CHECK_DEADLOCK FALSE
