---------------------------- MODULE BrandReports ----------------------------
(* The reports of a brand over the orders of its cafes (getMyBrandStats,      *)
(* getBrandOrdersAnalytics and getBrandPopularItemsAnalytics of               *)
(* brands.service.ts).  The calendar has months of MonthLength days, year     *)
(* after year, and DayParts instants to a day.                               *)
EXTENDS Integers, SequencesExt

CONSTANTS
  ReportCafes,
  Baskets,                \* the items of an order, with their quantities
  MonthLength,            \* of each month of a year
  DayParts,
  TrendDays, TrendMonths, \* 30 and 12
  Clock,                  \* bound: the instants the clock reaches
  MaxReported             \* bound: orders

ASSUME BrandReportsAssumption ==
  /\ MonthLength \in Seq(Nat \ {0}) /\ MonthLength # << >>
  /\ DayParts \in Nat \ {0} /\ TrendDays \in Nat \ {0}
  /\ TrendMonths \in 1..Len(MonthLength)
  /\ Clock \subseteq Nat
  /\ IsFiniteSet(ReportCafes) /\ IsFiniteSet(Baskets)
  /\ \A basket \in Baskets : IsFiniteSet(DOMAIN basket) /\ basket \in [DOMAIN basket -> Nat]

VARIABLES
  ordered, \* the orders of all cafes
  gone,    \* cafes with deletedAt
  clock

rpvars == <<ordered, gone, clock>>

BrandReportsInit ==
  /\ ordered = << >> /\ gone = {}
  /\ clock \in Clock /\ \A t \in Clock : clock <= t

-----------------------------------------------------------------------------
(* The calendar; months are numbered from the first one.                     *)

YearMonths == Len(MonthLength)
DaysOf(months) == SumFunctionOnSet(MonthLength, 1..months)
YearDays == DaysOf(YearMonths)
FirstDay(month) == (month \div YearMonths) * YearDays + DaysOf(month % YearMonths)

Date(t) == t \div DayParts
Month(date) ==
  LET first == (date \div YearDays) * YearMonths IN
  CHOOSE month \in first..(first + YearMonths - 1) : FirstDay(month) <= date /\ date < FirstDay(month + 1)

\* setMonth keeps the day of the month, and runs into the next month where there is no such day.
setMonth(date, month) == FirstDay(month) + (date - FirstDay(Month(date)))

-----------------------------------------------------------------------------
(* The reports.                                                              *)

\* The orders of the cafes that are not deleted.
OfBrand == {i \in DOMAIN ordered : ordered[i].cafe \notin gone}
Revenue(orders) == SumFunction([i \in orders |-> ordered[i].totalAmount])

\* getMyBrandStats: since the first of January.
YearOrders == {i \in OfBrand : Date(ordered[i].at) >= FirstDay((Month(Date(clock)) \div YearMonths) * YearMonths)}

PeriodOrders == {i \in OfBrand : ordered[i].at >= clock - TrendDays * DayParts}

\* Of the day that was n days ago.
DayOrders(n) == {i \in OfBrand : Date(ordered[i].at) = Date(clock) - n}

\* Of the month of the date that setMonth puts n months back.
MonthOrders(n) ==
  {i \in OfBrand : Month(Date(ordered[i].at)) = Month(setMonth(Date(clock), Month(Date(clock)) - n))}

Items == UNION {DOMAIN basket : basket \in Baskets}
Count(item) ==
  SumFunction([i \in OfBrand |-> IF item \in DOMAIN ordered[i].items THEN ordered[i].items[item] ELSE 0])
TotalItems == SumFunction([item \in Items |-> Count(item)])

\* In hundredths of a percent, rounded.
AllHundredths == 10000
percentage(item) ==
  IF TotalItems = 0 THEN 0 ELSE (2 * AllHundredths * Count(item) + TotalItems) \div (2 * TotalItems)

cafePerformance == [cafe \in ReportCafes \ gone |-> Cardinality({i \in OfBrand : ordered[i].cafe = cafe})]

-----------------------------------------------------------------------------
OrderIsMade(cafe, basket) ==
  /\ cafe \notin gone /\ Len(ordered) < MaxReported
  /\ ordered' = Append(ordered, [cafe |-> cafe, at |-> clock, items |-> basket,
                                 totalAmount |-> SumFunction(basket)])
  /\ UNCHANGED <<gone, clock>>

CafeGoes(cafe) == cafe \notin gone /\ gone' = gone \cup {cafe} /\ UNCHANGED <<ordered, clock>>

ClockTicks == clock + 1 \in Clock /\ clock' = clock + 1 /\ UNCHANGED <<ordered, gone>>

BrandReportsNext ==
  \/ \E cafe \in ReportCafes, basket \in Baskets : OrderIsMade(cafe, basket)
  \/ \E cafe \in ReportCafes : CafeGoes(cafe)
  \/ ClockTicks

BrandReportsSpec == BrandReportsInit /\ [][BrandReportsNext]_rpvars

-----------------------------------------------------------------------------
\* getBrandOrdersAnalytics: an order of the last 30 days of the calendar is in the row
\* of one day and in the period; if the day of the month is one that every month has,
\* the rows of the months are the last 12 months, so each order since then, and each
\* order getMyBrandStats counts for this year, is in the row of one month.  On a later
\* day one month is left out and another is there twice.  The cafes' orders and the
\* items' percentages add up to all orders and to 100.
BrandReportsAddUp ==
  LET today == Date(clock)
      this == Month(today)
      months == 0..(TrendMonths - 1)
      days == 0..(TrendDays - 1)
      everyMonthHasIt == \A month \in (this - TrendMonths + 1)..this :
                           today - FirstDay(this) < MonthLength[(month % YearMonths) + 1]
  IN
  /\ \A m, n \in days : m # n => DayOrders(m) \cap DayOrders(n) = {}
  /\ UNION {DayOrders(n) : n \in days} \subseteq PeriodOrders
  /\ \A i \in PeriodOrders : Date(ordered[i].at) > today - TrendDays => \E n \in days : i \in DayOrders(n)
  /\ everyMonthHasIt =>
       /\ \A m, n \in months : m # n => MonthOrders(m) \cap MonthOrders(n) = {}
       /\ UNION {MonthOrders(n) : n \in months}
            = {i \in OfBrand : Date(ordered[i].at) >= FirstDay(this - TrendMonths + 1)}
       /\ TrendMonths = YearMonths => YearOrders \subseteq UNION {MonthOrders(n) : n \in months}
  /\ SumFunction([n \in days |-> Revenue(DayOrders(n))]) <= Revenue(PeriodOrders)
  /\ SumFunction(cafePerformance) = Cardinality(OfBrand)
  /\ TotalItems > 0 =>
       SumFunction([item \in Items |-> percentage(item)]) - AllHundredths \in -Cardinality(Items)..Cardinality(Items)
=============================================================================
