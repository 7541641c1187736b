----------------------- MODULE AppointmentsProperties -----------------------
(* What Appointments must guarantee of bookings, charges and reservations. *)
EXTENDS Appointments

\* Bookings, reservations and handlers have the values the code can write, and
\* a handler or a reservation speaks of an appointment that exists.
TablesOK ==
  /\ \A i \in DOMAIN appointment : appointment[i] \in Appointment
  /\ reservation \subseteq Reservation
  /\ booking \in [Procs -> Handler]
  /\ \A p \in Procs : ~Is(p, "idle") => booking[p].id \in {0} \cup DOMAIN appointment
  /\ \A r \in reservation : r.id \in DOMAIN appointment
  /\ faults \in 0..MaxFaults

ShelfOK == offered \subseteq Assets /\ Assets \ offered \subseteq wasOff

ATypeOK == TablesOK /\ ShelfOK

\* A booking that pays from the deposit has the row of its charge, of its guest
\* and its amount; a charge pays one booking only, and the booking it names is
\* the one it pays.  The row is written, the appointment inserted and the row
\* linked in three statements, between which other bookings are made.
Pays(i, charge) ==
  /\ charge \in DOMAIN ledger
  /\ ledger[charge].type = "VISIT_CHARGE"
  /\ ledger[charge].guest = appointment[i].guest
  /\ ledger[charge].amount = appointment[i].amount
  /\ ledger[charge].ref \in {0, i}

BookingHasItsCharge ==
  \A i \in DOMAIN appointment : appointment[i].method = "BALANCE" =>
    /\ Pays(i, appointment[i].charge)
    /\ \A j \in DOMAIN appointment \ {i} : appointment[j].charge # appointment[i].charge

\* A guest's cancellation refunds before it writes the status: when no handler
\* was cut short, the booking it is about to cancel is refunded if it was paid
\* from the deposit, and a refunded booking is cancelled or about to be.  Staff
\* alone can undo that, by a confirmation or a check-in that had read the booking
\* before it was cancelled and lands after its refund; no update, no other
\* cancellation and no booking made meanwhile does.
CancelledByGuestIsRefunded ==
  faults = 0 =>
    /\ \A p \in Procs : Is(p, "cancel") =>
         LET charge == appointment[booking[p].id].charge IN
         charge # 0 => RefundsOf(charge) # {}
    /\ \A i \in DOMAIN appointment \ overtaken :
         appointment[i].charge # 0 /\ RefundsOf(appointment[i].charge) # {} =>
           \/ appointment[i].status = "cancelled"
           \/ \E p \in Procs : booking[p].pc \in Cancelling /\ booking[p].id = i

\* Assets are reserved after the appointment exists and is paid for: when no
\* handler was cut short, a booking that ends up without what it selected asked
\* for an asset that the cafe did not always offer, or asked for one more often
\* than what other bookings hold leaves of it, be it by repeating its id.
Holds(i) == \A n \in DOMAIN appointment[i].assets : \E r \in reservation : r.id = i /\ r.nth = n

HeldByOthers(i, asset) == {r \in reservation : r.asset = asset /\ r.id # i}

AssetsLostForAReason ==
  faults = 0 =>
    \A i \in DOMAIN appointment :
      \/ \E p \in Procs : booking[p].pc \in {"link", "reserve", "reserving"} /\ booking[p].id = i
      \/ Holds(i)
      \/ \E n \in DOMAIN appointment[i].assets :
           LET a == appointment[i].assets[n] IN
           \/ a \in wasOff
           \/ Cardinality(HeldByOthers(i, a)) + Wanted(appointment[i], a) > TotalQuantity[a]

\* Money taken for a booking buys one: when no handler was cut short, every
\* charge has its appointment, or the handler about to insert it, whatever room,
\* asset or wallet requests of others do meanwhile.
ChargeBuysBooking ==
  faults = 0 =>
    \A i \in DOMAIN ledger : ledger[i].type = "VISIT_CHARGE" =>
      \/ \E j \in DOMAIN appointment : appointment[j].charge = i
      \/ \E p \in Procs : Is(p, "insert") /\ booking[p].row.charge = i

\* Whatever bookings do to a deposit, they do by the steps of the wallet (or
\* they leave it alone), so what holds of GuestWallet's Spec holds here.
ImplementsWallet == Init /\ [][UNCHANGED wvars \/ Next]_wvars

-----------------------------------------------------------------------------
(* What the repository says and the code does not do.                       *)

\* create refuses a slot with 'Room time slot is not available' when another
\* active booking of the room overlaps it.
NoDoubleBooking ==
  \A i, j \in DOMAIN appointment :
    /\ i # j
    /\ appointment[i].room = appointment[j].room
    /\ {appointment[i].status, appointment[j].status} \subseteq Active
    => ~rangesOverlap(appointment[i].start, appointment[i].duration,
                      appointment[j].start, appointment[j].duration)
=============================================================================
