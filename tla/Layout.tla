------------------------------- MODULE Layout -------------------------------
(* The rooms of a cafe and its plan (cafe-layout.service.ts): editors that     *)
(* load everything and save everything, in one transaction, and the occupancy *)
(* that is counted from the bookings of the rooms.                            *)
EXTENDS Requests, Integers, FiniteSetsExt, SequencesExt

CONSTANTS
  RoomIds, RoomForms, \* what an editor may make of a room: name, capacity, status
  ElementIds, AssetIds,
  BookingIds, OccupancyDays, SlotsPerDay, \* an instant is a slot; day d starts at d * SlotsPerDay
  MaxRange,           \* 31 days
  New                 \* of a room without an id, no room

\* A room's status is any text but "none", which stands for no row.
RoomForm == [name : STRING, capacity : Int, status : STRING \ {"none"}]

ASSUME LayoutAssumption ==
  /\ SlotsPerDay \in Nat \ {0} /\ MaxRange \in Nat
  /\ IsFiniteSet(RoomIds) /\ New \notin RoomIds
  /\ IsFiniteSet(BookingIds) /\ OccupancyDays \subseteq Int
  /\ RoomForms \subseteq RoomForm

VARIABLES
  layout,    \* cafe_layouts
  room,      \* cafe_rooms
  element,   \* cafe_layout_elements
  asset,     \* cafe_room_assets
  booking,   \* appointments
  dropped,   \* rooms that a save has left out
  occupancy  \* the last answer of getOccupancy

lvars == <<layout, room, element, asset, booking, dropped, occupancy>>

ElementTypes == {"WALL", "LABEL"} \* one that the editor draws, and one that it never deletes
NoRoom == [name |-> "", capacity |-> 0, status |-> "none"]
Element == [elementType : ElementTypes \cup {"none"}, room : RoomIds \cup {New}]
NoElement == [elementType |-> "none", room |-> New]
BookingStatus == {"pending", "confirmed", "completed", "cancelled"}
Booking == [room : RoomIds \cup {New}, made : RoomIds \cup {New}, at : Int, status : BookingStatus \cup {"none"}]
NoBooking == [room |-> New, made |-> New, at |-> 0, status |-> "none"]

LayoutInit ==
  /\ layout = "none"
  /\ room = [r \in RoomIds |-> NoRoom]
  /\ element = [x \in ElementIds |-> NoElement]
  /\ asset = [x \in AssetIds |-> New]
  /\ booking = [b \in BookingIds |-> NoBooking]
  /\ dropped = {} /\ occupancy = << >>

IsRoom(rooms, r) == rooms[r].status # "none"
ActiveRooms == {r \in RoomIds : room[r].status = "ACTIVE"}

\* A save works on a copy of the tables, until a statement of it throws.
Tables == [layout |-> layout, room |-> room, element |-> element, asset |-> asset, booking |-> booking, thrown |-> FALSE]
Throw(db) == [db EXCEPT !.thrown = TRUE]

\* The foreign keys of a room: its bookings and elements lose it, its assets go with it.
DeleteRooms(db, gone) ==
  [db EXCEPT !.room = [r \in RoomIds |-> IF r \in gone THEN NoRoom ELSE db.room[r]],
             !.element = [x \in ElementIds |-> IF db.element[x].room \in gone
                            THEN [db.element[x] EXCEPT !.room = New] ELSE db.element[x]],
             !.asset = [x \in AssetIds |-> IF db.asset[x] \in gone THEN New ELSE db.asset[x]],
             !.booking = [b \in BookingIds |-> IF db.booking[b].room \in gone
                            THEN [db.booking[b] EXCEPT !.room = New] ELSE db.booking[b]]]

-----------------------------------------------------------------------------
(* Mutants.                                                                  *)

\* Every room is deleted, and those of the request are created again.
DeleteAllRooms(db, rooms) == DeleteRooms(db, RoomIds)

\* The day ends at the next midnight.
LiveToMidnight(rows, from, to) ==
  {b \in rows : b.status # "cancelled" /\ from * SlotsPerDay <= b.at /\ b.at <= (to + 1) * SlotsPerDay}

-----------------------------------------------------------------------------
(* saveEditorState, statement by statement.                                   *)

SaveLayout(db, form) ==
  IF form = "absent" THEN db
  ELSE [db EXCEPT !.layout = IF form # "keep" THEN form ELSE IF db.layout = "none" THEN "draft" ELSE db.layout]

DeleteOtherRooms(db, rooms) == DeleteRooms(db, RoomIds \ {rooms[i].id : i \in DOMAIN rooms})

\* A room's name is unique in the cafe at every statement; a room without an id gets a fresh one.
SaveRoom(db, form) ==
  LET id == IF form.id # New THEN form.id ELSE CHOOSE r \in RoomIds : ~IsRoom(db.room, r) IN
  IF \/ db.thrown
     \/ \E r \in RoomIds \ {form.id} : IsRoom(db.room, r) /\ db.room[r].name = form.name
  THEN Throw(db)
  ELSE [db EXCEPT !.room[id] = [name |-> form.name, capacity |-> form.capacity, status |-> form.status]]

SaveRooms(db, rooms) == FoldLeft(SaveRoom, DeleteOtherRooms(db, rooms), rooms)

\* Those that the editor draws and the request lacks are deleted.
SaveElements(db, elements) ==
  IF \E x \in DOMAIN elements : elements[x].room # New /\ ~IsRoom(db.room, elements[x].room)
  THEN Throw(db)
  ELSE [db EXCEPT !.element = [x \in ElementIds |->
         IF x \in DOMAIN elements THEN elements[x]
         ELSE IF db.element[x].elementType = "WALL" THEN NoElement ELSE db.element[x]]]

\* Assets are never deleted; one that went with its room cannot be updated.
SaveAssets(db, assets) ==
  IF \E x \in DOMAIN assets : ~IsRoom(db.room, assets[x].room) \/ (assets[x].known /\ db.asset[x] = New)
  THEN Throw(db)
  ELSE [db EXCEPT !.asset = [x \in AssetIds |-> IF x \in DOMAIN assets THEN assets[x].room ELSE db.asset[x]]]

Save(payload) ==
  LET db1 == SaveLayout(Tables, payload.layout)
      db2 == IF payload.rooms.given THEN SaveRooms(db1, payload.rooms.list) ELSE db1
      db3 == IF payload.elements.given THEN SaveElements(db2, payload.elements.list) ELSE db2
  IN SaveAssets(db3, payload.assets)

\* getEditorState: rooms, elements and assets in statements of their own.
EditorOpens(p) ==
  /\ Idle(p)
  /\ Become(p, [pc |-> "load", rooms |-> [r \in {q \in RoomIds : IsRoom(room, q)} |-> room[r]]])
  /\ UNCHANGED lvars

EditorLoads(p) ==
  /\ In(p, "load")
  /\ Become(p, [pc |-> "edit", rooms |-> handler[p].rooms,
                elements |-> [x \in {y \in ElementIds : element[y].elementType # "none"} |-> element[x]],
                assets |-> [x \in {y \in AssetIds : asset[y] # New} |-> asset[x]]])
  /\ UNCHANGED lvars

\* What an editor sends: the rooms it has loaded, one of them changed, left out or new.
RoomLists(rooms) ==
  LET Loaded == {[id |-> r, name |-> rooms[r].name, capacity |-> rooms[r].capacity, status |-> rooms[r].status] :
                   r \in DOMAIN rooms}
      Form(id, f) == [id |-> id, name |-> f.name, capacity |-> f.capacity, status |-> f.status]
      Lists == {Loaded}
        \cup {Loaded \ {form} : form \in Loaded}
        \cup {(Loaded \ {form}) \cup {Form(form.id, f)} : form \in Loaded, f \in RoomForms}
        \cup (IF DOMAIN rooms = RoomIds THEN {} ELSE {Loaded \cup {Form(New, f)} : f \in RoomForms})
  IN {SetToSeq(list) : list \in Lists}

saveEditorState(p, rooms, elements, assets, form) ==
  LET payload == [layout |-> form, rooms |-> rooms, elements |-> elements, assets |-> assets]
      db == Save(payload)
  IN /\ In(p, "edit")
     /\ IF db.thrown
        THEN UNCHANGED <<layout, room, element, asset, booking, dropped>>
        ELSE /\ layout' = db.layout /\ room' = db.room /\ element' = db.element
             /\ asset' = db.asset /\ booking' = db.booking
             /\ dropped' = IF ~rooms.given THEN dropped
                           ELSE dropped \cup {r \in RoomIds : /\ IsRoom(room, r)
                                                              /\ \A i \in DOMAIN rooms.list : rooms.list[i].id # r}
     /\ Finish(p)
     /\ UNCHANGED occupancy

-----------------------------------------------------------------------------
(* The bookings of the rooms, as AppointmentsService writes them.             *)

Book(b, r, at) ==
  /\ booking[b] = NoBooking
  /\ r \in ActiveRooms
  /\ booking' = [booking EXCEPT ![b] = [room |-> r, made |-> r, at |-> at, status |-> "pending"]]
  /\ UNCHANGED <<layout, room, element, asset, dropped, occupancy, rvars>>

BookingMoves(b, status) ==
  /\ booking[b].status \in {"pending", "confirmed"}
  /\ status \in {"confirmed", "completed", "cancelled"} \ {booking[b].status}
  /\ booking' = [booking EXCEPT ![b].status = status]
  /\ UNCHANGED <<layout, room, element, asset, dropped, occupancy, rvars>>

-----------------------------------------------------------------------------
(* getOccupancy: rooms and bookings are read at once, each in its statement.   *)

Rounded(n, d) == (2 * n + d) \div (2 * d)
Least(a, b) == IF a <= b THEN a ELSE b
Percent(n, capacity) == IF capacity > 0 THEN Least(100, Rounded(100 * n, capacity)) ELSE 0

\* The bookings of the days "from" to "to", whose last millisecond is included.
Live(rows, from, to) ==
  {b \in rows : b.status # "cancelled" /\ from * SlotsPerDay <= b.at /\ b.at < (to + 1) * SlotsPerDay}

buildOccupancyDayPayload(rooms, rows) ==
  LET totalCapacity == SumFunction([r \in DOMAIN rooms |-> IF rooms[r].capacity > 0 THEN rooms[r].capacity ELSE 0]) IN
  [totalCapacity |-> totalCapacity,
   totalAppointments |-> Cardinality(rows),
   occupancyPercent |-> Percent(Cardinality(rows), totalCapacity),
   rooms |-> [r \in DOMAIN rooms |->
     LET n == Cardinality({b \in rows : b.room = r}) IN
     [appointmentsCount |-> n, occupancyPercent |-> Percent(n, rooms[r].capacity)]]]

OccupancyRooms(p, from, to) ==
  /\ Idle(p)
  /\ from <= to /\ to - from < MaxRange
  /\ Become(p, [pc |-> "occupancy", from |-> from, to |-> to,
                rooms |-> [r \in ActiveRooms |-> room[r]]])
  /\ UNCHANGED lvars

OccupancyAnswer(p) ==
  LET h == handler[p]
      rows == Live({[id |-> b, room |-> booking[b].room, at |-> booking[b].at, status |-> booking[b].status] :
                      b \in {c \in BookingIds : booking[c].status # "none"}}, h.from, h.to)
      days == [d \in h.from..h.to |-> buildOccupancyDayPayload(h.rooms, Live(rows, d, d))]
      n == h.to - h.from + 1
  IN /\ In(p, "occupancy")
     /\ occupancy' =
          [found |-> Cardinality(rows), days |-> days,
           avgOccupancyPercent |-> Rounded(SumFunction([d \in h.from..h.to |-> days[d].occupancyPercent]), n),
           avgOccupied |-> Rounded(SumFunction([d \in h.from..h.to |-> days[d].totalAppointments]), n)]
     /\ Finish(p)
     /\ UNCHANGED <<layout, room, element, asset, booking, dropped>>

\* getRoomAvailability: the slots of each active room that are taken.
getRoomAvailability(day) ==
  [r \in ActiveRooms |->
     {booking[b].at : b \in {c \in BookingIds : /\ booking[c].room = r
                                                /\ booking[c].status \in {"pending", "confirmed"}
                                                /\ booking[c].at \div SlotsPerDay = day}}]

-----------------------------------------------------------------------------
Absent == [given |-> FALSE, list |-> << >>]

EditorRequest(p) ==
  \/ EditorOpens(p) \/ EditorLoads(p)
  \/ /\ In(p, "edit")
     /\ \E form \in {"draft", "published", "keep"} : saveEditorState(p, Absent, Absent, << >>, form)
  \/ /\ In(p, "edit")
     /\ \E list \in RoomLists(handler[p].rooms) :
          \E elements \in {Absent, [given |-> TRUE, list |-> handler[p].elements]} :
            saveEditorState(p, [given |-> TRUE, list |-> list], elements, << >>, "absent")
  \/ /\ In(p, "edit")
     /\ \E x \in ElementIds, t \in ElementTypes, r \in DOMAIN handler[p].rooms \cup {New} :
          \E with \in BOOLEAN :
            saveEditorState(p, Absent,
              [given |-> TRUE,
               list |-> IF with THEN [y \in DOMAIN handler[p].elements \cup {x} |->
                                        IF y = x THEN [elementType |-> t, room |-> r] ELSE handler[p].elements[y]]
                        ELSE [y \in DOMAIN handler[p].elements \ {x} |-> handler[p].elements[y]]], << >>, "absent")
  \/ /\ In(p, "edit")
     /\ \E x \in AssetIds, r \in DOMAIN handler[p].rooms :
          saveEditorState(p, Absent, Absent,
            [y \in {x} |-> [room |-> r, known |-> x \in DOMAIN handler[p].assets]], "absent")

OccupancyRequest(p) ==
  \/ \E from \in OccupancyDays, to \in OccupancyDays : OccupancyRooms(p, from, to)
  \/ OccupancyAnswer(p)

LayoutNext ==
  \/ \E p \in Procs : EditorRequest(p) \/ OccupancyRequest(p)
  \/ \E b \in BookingIds, r \in RoomIds, d \in OccupancyDays, i \in 0..(SlotsPerDay - 1) :
       Book(b, r, d * SlotsPerDay + i)
  \/ \E b \in BookingIds, status \in BookingStatus : BookingMoves(b, status)
  \/ \E p \in Procs : Dies(p) /\ UNCHANGED lvars

LayoutSpec == LayoutInit /\ RequestsInit /\ [][LayoutNext]_<<lvars, rvars>>
=============================================================================
