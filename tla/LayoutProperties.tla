-------------------------- MODULE LayoutProperties --------------------------
(* What Layout must guarantee.                                               *)
EXTENDS Layout

\* The layout module's types and foreign keys: what hangs on a room hangs on
\* one that is there, whatever editors save (saveEditorState).
LayoutTypeOK ==
  /\ layout \in {"none", "draft", "published"}
  /\ \A r \in RoomIds : room[r] = NoRoom \/ room[r] \in RoomForms
  /\ element \in [ElementIds -> Element]
  /\ asset \in [AssetIds -> RoomIds \cup {New}]
  /\ booking \in [BookingIds -> Booking]
  /\ dropped \subseteq RoomIds
  /\ \A x \in ElementIds : element[x].room # New => IsRoom(room, element[x].room)
  /\ \A x \in AssetIds : asset[x] # New => IsRoom(room, asset[x])

\* saveEditorState writes a whole editor back over the tables, perhaps one that
\* was loaded before rooms were booked, renamed or added: a booking loses its room
\* only if some save has left that room out, and then the guest's slot is still
\* shown as taken for as long as the room is there.
BookingsKeepTheirRooms ==
  \A b \in BookingIds :
    LET r == booking[b].made IN
    booking[b].status # "none" /\ r \notin dropped =>
      /\ booking[b].room = r
      /\ booking[b].status \in {"pending", "confirmed"} /\ r \in ActiveRooms =>
           booking[b].at \in getRoomAvailability(booking[b].at \div SlotsPerDay)[r]

\* getOccupancy splits the bookings of a range into days and a day into rooms: no
\* booking is counted twice or dropped at midnight, and no figure exceeds 100 %.
OccupancyAddsUp ==
  occupancy # << >> =>
    LET Sum(d) == SumFunction([r \in DOMAIN occupancy.days[d].rooms |-> occupancy.days[d].rooms[r].appointmentsCount])
    IN /\ SumFunction([d \in DOMAIN occupancy.days |-> occupancy.days[d].totalAppointments]) = occupancy.found
       /\ \A d \in DOMAIN occupancy.days :
            /\ Sum(d) <= occupancy.days[d].totalAppointments
            /\ occupancy.days[d].occupancyPercent \in 0..100
       /\ occupancy.avgOccupancyPercent \in 0..100
=============================================================================
