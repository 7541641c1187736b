---------------------------- MODULE MCBackoffice ----------------------------
(* Instances of the modules of the back office for TLC: they share no state   *)
(* but the slots of the handlers, so each is explored on its own; focus says   *)
(* which.                                                                    *)
EXTENDS TasksProperties, LayoutProperties, PlanPreview,
        Reviews, PaymentCards, Settings, WorkerSchedule, BrandReports

CONSTANTS p1, p2, w1, w2, t1, t2, r1, r2, u1, u2, o1, nothing

MCEmployeeRole == [w \in Employees |-> IF w = w1 THEN "CAFE_ADMIN" ELSE "WORKER"]
MCForms == {NoTemplate,
            [NoTemplate EXCEPT !.assignmentType = "SPECIFIC_WORKERS", !.assignedWorkerIds = {w1}],
            [NoTemplate EXCEPT !.assignmentType = "ROLE_BASED", !.assignedRoles = {"WORKER"},
                               !.daysOfWeek = {1}, !.requiresPhoto = TRUE]}

MCGiven == {{"assignmentType"}, {"assignmentType", "assignedWorkerIds", "assignedRoles", "daysOfWeek"}}

MCRoomForms == {[name |-> n, capacity |-> 2, status |-> "ACTIVE"] : n \in {"red", "blue"}}
                 \cup {[name |-> "red", capacity |-> 1, status |-> "HIDDEN"]}

\* Walls, one of them aslant, openings, one of them broken, a zone out of the field, a table on
\* its edge, and what is not shown.
At(x, y) == [x |-> x, y |-> y]
MCField == [widthM |-> 6, heightM |-> 4]
MCBackground == [given |-> TRUE, at |-> At(600, 900), widthM |-> 2, heightM |-> 2]
MCPlanElements ==
  {[type |-> "WALL", id |-> 1, broken |-> FALSE, from |-> At(-100, 0), to |-> At(500, 0)],
   [type |-> "WALL", id |-> 1, broken |-> FALSE, from |-> At(0, 1500), to |-> At(0, 100)],
   [type |-> "WALL", id |-> 2, broken |-> TRUE, from |-> At(-900, 0), to |-> At(0, 0)],
   [type |-> "WALL", id |-> 3, broken |-> FALSE, from |-> At(300, 400), to |-> At(0, 0)],
   [type |-> "DOOR", broken |-> FALSE, wall |-> 1, from |-> 50, to |-> 250],
   [type |-> "DOOR", broken |-> FALSE, wall |-> 2, from |-> 0, to |-> 100],
   [type |-> "DOOR", broken |-> FALSE, wall |-> 3, from |-> 100, to |-> 600],
   [type |-> "DOOR", broken |-> TRUE, wall |-> 1, from |-> 0, to |-> 100],
   [type |-> "ROOM_ZONE", points |-> <<At(0, -300), At(1400, 0), At(100, 100)>>],
   [type |-> "ROOM_ZONE", points |-> <<At(0, -900), At(0, 0)>>],
   [type |-> "TABLE", broken |-> FALSE, at |-> At(1200, 20), widthM |-> 1, heightM |-> 1],
   [type |-> "TABLE", broken |-> TRUE, at |-> At(9000, 0), widthM |-> 1, heightM |-> 1]}

VARIABLE focus

MCInit ==
  /\ RequestsInit
  /\ TasksInit /\ LayoutInit /\ PlanInit
  /\ ReviewsInit /\ PaymentCardsInit /\ SettingsInit /\ WorkerScheduleInit
  /\ BrandReportsInit
  /\ focus \in {"undo", "summary", "statistics", "editors", "occupancy", "plan", "reviews", "cards", "settings", "shifts", "analytics"}
  /\ focus # "shifts" => now = DayLength /\ openingHours = UnsetHours
  /\ \A i \in DOMAIN review : focus = "reviews" /\ review[i].user = u1 /\ review[i].isVerified /\ review[i].rating = 5

Running(pcs) == \A p \in Procs : handler'[p].pc \in {"idle"} \cup pcs

\* Templates of all workers and of one, now shown, now not.
Shown == UNION {{f, [f EXCEPT !.status = "active"], [f EXCEPT !.status = "inactive"]} :
                f \in {NoTemplate, [NoTemplate EXCEPT !.assignmentType = "SPECIFIC_WORKERS", !.assignedWorkerIds = {w1}]}}

TasksFocus ==
  /\ focus # "statistics" => UNCHANGED statistics
  /\ focus # "summary" => UNCHANGED summary
  /\ statistics.totalCompletions = 0 /\ summary.totalTasks = 0 \* to the first answer that counts something
  /\ faults' = faults
  /\ focus # "undo" => \A t \in Templates : template'[t].daysOfWeek = {}
  /\ \/ /\ focus = "undo"
        /\ Running({"complete", "uncomplete"})
        /\ template'[t2] = NoTemplate
        /\ \A p \in Procs : handler'[p].pc = "complete" => handler'[p].row.date = 1 /\ handler'[p].row.durationMinutes = 0
     \/ /\ focus = "summary"
        /\ Running({"complete", "uncomplete", "summary"})
        /\ handler'[p1].pc \in {"idle", "summary"} /\ handler'[p2].pc # "summary"
        /\ completed' <= 2
        /\ template'[t1] \in Shown /\ template'[t1].assignmentType = "ALL_WORKERS"
        /\ template'[t2] \in Shown
        /\ template'[t2].status # "none" => template'[t2].assignmentType = "SPECIFIC_WORKERS"
        /\ \A p \in Procs : handler'[p].pc \in {"complete", "uncomplete"} =>
             handler'[p].row.date = 1 /\ handler'[p].row.durationMinutes = 0
        /\ "date" \in DOMAIN handler'[p1] => handler'[p1].date = 1
     \/ /\ focus = "statistics"
        /\ completed' <= 2
        /\ \A t \in Templates : template'[t].assignmentType = "ALL_WORKERS"
        /\ \A p \in Procs : handler'[p].pc = "complete" =>
             handler'[p].row.durationMinutes = IF handler'[p].row.worker = w1 THEN 10 ELSE 0
        /\ handler'[p1].pc \in {"idle", "statistics"} /\ handler'[p2].pc \in {"idle", "complete"}

\* Two editors and a booking, or an editor, bookings and their occupancy.
LayoutFocus ==
  /\ faults' = faults
  /\ \/ /\ focus = "editors"
        /\ occupancy' = << >> /\ layout' # "published"
        /\ \A r \in RoomIds : room'[r].status # "HIDDEN" /\ (room'[r].name = "blue" => r = r2)
        /\ layout' = "draft" => \A r \in RoomIds : room'[r] = NoRoom
        /\ element'[1].room # r2 /\ element'[1].elementType # "LABEL" /\ asset'[1] # r2
        /\ handler'[p2].pc = "edit" => handler'[p2].elements = << >> /\ handler'[p2].assets = << >>
        /\ \A b \in BookingIds \ {1} : booking'[b] = NoBooking
        /\ booking'[1].at = 0 /\ booking'[1].status \in {"none", "pending", "completed"}
        /\ \A p \in Procs : handler'[p].pc \in {"idle", "load", "edit"}
     \/ /\ focus = "occupancy"
        /\ occupancy = << >>
        /\ layout' = "none" /\ dropped' = {}
        /\ \A x \in ElementIds : element'[x] = NoElement
        /\ \A x \in AssetIds : asset'[x] = New
        /\ \A b \in BookingIds : booking'[b].status \in {"none", "pending", "cancelled"}
        /\ booking'[1].made # r2 /\ booking'[1].at \in {0, 1} /\ booking'[2].at \in {0, 2, 3}
        /\ handler'[p1].pc \in {"idle", "load", "edit"} /\ handler'[p2].pc \in {"idle", "occupancy"}

dvars == <<rvwvars, cvars, svars, wvars, rpvars>>
MCOrderOf == [o \in CompletedOrders |-> u1]
MCSectionOf == [f \in Fields |-> IF f = "maxFileSizeMB" THEN "limits" ELSE "platform"]

\* A day shift, a night shift, two shifts that touch, and two that overlap after midnight.
MCSegment(open, close) == [open |-> open, close |-> close]
MCShiftTemplates ==
  {[d \in Weekdays |-> IF d = 0 THEN << >> ELSE shifts] :
     shifts \in {<< >>, <<MCSegment(1, 3), MCSegment(3, 4)>>, <<MCSegment(2, 5), MCSegment(4, 1)>>}}
  \cup {[d \in Weekdays |-> <<IF d = 0 THEN MCSegment(4, 1) ELSE MCSegment(3, 3)>>]}
MCHoursTemplates ==
  {[d \in Weekdays |-> [isSet |-> TRUE, segments |-> IF d = 1 THEN <<MCSegment(1, 5)>> ELSE << >>]],
   [d \in Weekdays |-> [isSet |-> TRUE, segments |-> <<IF d = 0 THEN MCSegment(3, 2) ELSE MCSegment(2, 5)>>]]}
MCAbsences == {<<1, 1>>, <<2, 3>>}
MCServerOffset == -1
MCInstants == DayLength..(3 * DayLength - 1)

\* The second of the three months of a year is the short one.
MCMonths == <<3, 2, 3>>
MCBaskets == {[i \in {"tea"} |-> 1], [i \in {"tea", "cake"} |-> IF i = "tea" THEN 1 ELSE 2]}
MCClock == 20..36

DerivedNext ==
  \/ /\ focus = "reviews" /\ ReviewsNext
     /\ faults' = faults
     /\ handler'[p2].pc \in {"idle", "review_insert", "recalculate", "rate"}
     /\ handler'[p2].pc = "review_insert" => handler'[p2].row.user = u1 /\ handler'[p2].row.rating = 1
     /\ UNCHANGED <<cvars, svars, wvars, rpvars>>
  \/ focus = "cards" /\ PaymentCardsNext /\ UNCHANGED <<rvwvars, svars, wvars, rpvars>>
  \/ /\ focus = "settings" /\ SettingsNext
     /\ faults' = faults
     /\ handler'[p2].pc = "settings_upsert" => DOMAIN handler'[p2].new = {"minOrderAmount"}
     /\ UNCHANGED <<rvwvars, cvars, wvars, rpvars>>
  \/ /\ focus = "shifts" /\ WorkerScheduleNext
     /\ faults' = faults /\ handler'[p1].pc # "toggle" /\ handler'[p2].pc # "shift_write"
     /\ UNCHANGED <<rvwvars, cvars, svars, rpvars>>
  \/ /\ focus = "analytics" /\ BrandReportsNext
     /\ r1 \notin gone'
     /\ \A i \in DOMAIN ordered' : "cake" \in DOMAIN ordered'[i].items <=> ordered'[i].cafe = r1
     /\ UNCHANGED <<rvwvars, cvars, svars, wvars, rvars>>

MCNext ==
  /\ UNCHANGED focus
  /\ \/ TasksNext /\ TasksFocus /\ UNCHANGED <<lvars, plan, dvars>>
     \/ LayoutNext /\ LayoutFocus /\ UNCHANGED <<tvars, plan, dvars>>
     \/ PlanNext /\ focus = "plan" /\ UNCHANGED <<tvars, lvars, dvars, rvars>>
     \/ DerivedNext /\ UNCHANGED <<tvars, lvars, plan>>

BackofficeSpec == MCInit /\ [][MCNext]_<<tvars, lvars, plan, dvars, rvars, focus>>

BackofficeTypeOK == TasksTypeOK /\ LayoutTypeOK /\ ReviewsTypeOK /\ PaymentCardsTypeOK /\ SettingsTypeOK
                    /\ WorkerScheduleTypeOK

\* What the reports of the back office say of a cafe adds up: summaries and
\* statistics of tasks, occupancy, the box of the plan, and the orders of a brand.
ReportsAddUp == SummaryIsPossible /\ StatisticsAddUp /\ OccupancyAddsUp /\ BoundsCoverThePlan /\ BrandReportsAddUp

\* What the code derives from rows and stores beside them follows the rows: ratings,
\* default cards, the merged settings and the shifts of a worker.
DerivedDataAgrees == RatingFollowsReviews /\ OneDefaultCard /\ SettingsKeepSections /\ ShiftsFollowTheSchedule
=============================================================================
