---------------------------- MODULE Appointments ----------------------------
(***************************************************************************)
(* Bookings of rooms and of shared assets: appointments.service.ts, on top *)
(* of the guest's deposit of GuestWallet.                                   *)
(*                                                                         *)
(* A booking pays from the deposit by taking the steps of                  *)
(* chargeDepositForBooking in its own slot of Procs, and is refunded by    *)
(* those of refundDepositCharge, so every action is one of GuestWallet or  *)
(* leaves the wallet alone.  A card payment runs to its end inside         *)
(* createPayment (OrderPayments models it) and is one step here, with the  *)
(* status its transaction ends in.  Top-ups and the accrual job, which     *)
(* GuestWallet checks, write no appointment and are left to it.  Cafes are  *)
(* open to bookings and the times requested are in the future.             *)
(***************************************************************************)
EXTENDS GuestWallet

CONSTANTS
  Rooms,
  Starts,        \* dateTime, in units of time
  Durations,
  Methods,       \* paymentMethod: "BALANCE", "CARD" or "CASH"
  Assets,        \* ids of shared assets, the cafe's or not
  Selections,    \* selectedSharedAssetIds of a request, which may repeat an id
  TotalQuantity, \* of each of them
  MaxBookings,   \* bound: appointments
  MaxFaults      \* bound: handlers cut short by a throw or a restart

ASSUME AppointmentsAssumption ==
  /\ Starts \subseteq Nat
  /\ Durations \subseteq Nat \ {0}
  /\ Methods \subseteq {"BALANCE", "CARD", "CASH"}
  /\ Selections \subseteq Seq(Assets)
  /\ TotalQuantity \in [Assets -> Nat]
  /\ IsFiniteSet(Assets)
  /\ MaxBookings \in Nat
  /\ References = 1..MaxBookings
  /\ MaxFaults \in Nat

VARIABLES
  appointment, \* the appointments table, in order of creation
  reservation, \* cafe_shared_asset_reservations
  booking,     \* the appointment handler in each slot
  faults,      \* how many handlers were cut short
  offered,     \* assets of the cafe that are active
  wasOff,      \* history: assets that were not offered at some time
  overtaken    \* history: bookings that staff moved on after their refund

bvars == <<appointment, reservation, booking, faults>>
avars == <<wvars, bvars, offered, wasOff, overtaken>>

-----------------------------------------------------------------------------
(* Tables and locals. *)

Active == {"pending", "confirmed"}

Appointment == [guest    : Guests,
                room     : Rooms,
                start    : Starts,
                duration : Durations,
                amount   : Nat,
                method   : Methods,
                assets   : Seq(Assets),   \* selectedAssets
                charge   : Nat,           \* transactionId, a ledger row; 0 for none
                card     : {"", "COMPLETED", "FAILED"}, \* status of its card payment, "" for none
                status   : Active \cup {"completed", "cancelled"}]

\* Of the nth asset that the appointment selected.
Reservation == [id : Nat, nth : Nat, asset : Assets, start : Nat, end : Nat]

\* Where a handler is; "row" is the booking it makes, "id" the one it is about.
Creating == {"charge", "charging", "pay", "insert", "link", "reserve", "reserving"}
Cancelling == {"refund", "refund_wait", "card_refund", "cancel"}

NoHandler == [pc |-> "idle"]
Handler == {NoHandler}
  \cup [pc : Creating, row : Appointment, id : Nat]
  \cup [pc : Cancelling, id : Nat]
  \cup [pc : {"move"}, id : Nat, start : Starts, duration : Durations]
  \cup [pc : {"staff"}, id : Nat, to : {"confirmed", "completed", "cancelled"}]

AInit ==
  /\ Init
  /\ appointment = << >>
  /\ reservation = {}
  /\ booking = [p \in Procs |-> NoHandler]
  /\ faults = 0
  /\ offered = Assets
  /\ wasOff = {}
  /\ overtaken = {}

-----------------------------------------------------------------------------
(* Steps of a handler. *)

Is(p, label) == booking[p].pc = label
Free(p) == Is(p, "idle") /\ At(p, "idle")

Become(p, handler) == booking' = [booking EXCEPT ![p] = handler]
Goto(p, label) == booking' = [booking EXCEPT ![p].pc = label]
Done(p) == Become(p, NoHandler)

rangesOverlap(start1, duration1, start2, duration2) ==
  start1 < start2 + duration2 /\ start2 < start1 + duration1

\* The window of a day around the start holds every booking that can overlap.
RoomIsFree(row) ==
  \A i \in DOMAIN appointment :
    appointment[i].room = row.room /\ appointment[i].status \in Active =>
      ~rangesOverlap(row.start, row.duration, appointment[i].start, appointment[i].duration)

Overlapping(asset, start, end) ==
  {r \in reservation : r.asset = asset /\ r.start < end /\ r.end > start}

\* How many of the asset a booking asks for: an id may be repeated, and each
\* time counts the reservations made for the ones before.
Wanted(row, asset) == Cardinality({n \in DOMAIN row.assets : row.assets[n] = asset})

-----------------------------------------------------------------------------
(* Mutants: bugs this code could have had, each of which breaks a property.  *)

\* The appointment is inserted before its deposit is charged.
InsertUncharged(p) ==
  /\ booking[p].pc \in {"insert", "charge"}
  /\ appointment' = Append(appointment, booking[p].row)
  /\ Become(p, [booking[p] EXCEPT !.pc = "reserve", !.id = Len(appointment) + 1])
  /\ UNCHANGED <<wvars, reservation, faults>>

\* The refund is not awaited.
RefundNotAwaited(p) ==
  /\ Is(p, "refund")
  /\ Goto(p, "cancel")
  /\ UNCHANGED <<wvars, appointment, reservation, faults>>

\* The last one of an asset is never given away.
ReserveKeepsOne(p) ==
  LET row == booking[p].row IN
  /\ Is(p, "reserve")
  /\ IF \A a \in {row.assets[n] : n \in DOMAIN row.assets} :
          /\ a \in offered
          /\ Cardinality(Overlapping(a, row.start, row.start + row.duration)) + Wanted(row, a)
               < TotalQuantity[a]
     THEN Goto(p, "reserving") ELSE Done(p)
  /\ UNCHANGED <<wvars, appointment, reservation, faults>>

\* The deposit is given back at once, outside refundDepositCharge.
CancelCredits(p) ==
  /\ Is(p, "refund")
  /\ LET row == appointment[booking[p].id] IN
     wallet' = [wallet EXCEPT ![row.guest].deposit = @ + row.amount]
  /\ Goto(p, "cancel")
  /\ UNCHANGED <<ledger, bonus, request, job, appointment, reservation, faults>>

\* The room is checked again after the charge, and the booking refused.
InsertIfStillFree(p) ==
  /\ Is(p, "insert")
  /\ IF RoomIsFree(booking[p].row)
     THEN /\ appointment' = Append(appointment, booking[p].row)
          /\ Become(p, [booking[p] EXCEPT !.pc = IF @ = "insert" /\ booking[p].row.charge # 0
                                                 THEN "link" ELSE "reserve",
                                          !.id = Len(appointment) + 1])
     ELSE Done(p) /\ UNCHANGED appointment
  /\ UNCHANGED <<wvars, reservation, faults>>

\* The row appended has lost its time.
InsertWithoutStart(p) ==
  /\ Is(p, "insert")
  /\ appointment' = Append(appointment, [booking[p].row EXCEPT !.start = 0 - 1])
  /\ Done(p)
  /\ UNCHANGED <<wvars, reservation, faults>>

-----------------------------------------------------------------------------
(* AppointmentsService.create *)

\* Bound: bookings in flight count.
RoomForBooking ==
  Len(appointment) + Cardinality({p \in Procs : booking[p].pc \in Creating /\ booking[p].id = 0})
    < MaxBookings

\* The room is checked and the price computed: any amount the billing gives.
BookCheck(p, row) ==
  /\ Free(p)
  /\ RoomIsFree(row)
  /\ Become(p, [pc |-> CASE row.method = "BALANCE" -> "charge"
                         [] row.method = "CARD" -> "pay"
                         [] row.method = "CASH" -> "insert",
                row |-> row, id |-> 0])
  /\ UNCHANGED <<wvars, appointment, reservation, faults>>

\* chargeDepositForBooking, first its read and check ...
ChargeStarts(p) ==
  /\ Is(p, "charge")
  /\ ChargeRead(p, booking[p].row.guest, booking[p].row.amount)
  /\ Goto(p, "charging")
  /\ UNCHANGED <<appointment, reservation, faults>>

ChargeRefused(p) ==
  /\ Is(p, "charge")
  /\ wallet[booking[p].row.guest].deposit < booking[p].row.amount
  /\ Done(p)
  /\ UNCHANGED <<wvars, appointment, reservation, faults>>

\* ... then its transaction; the id of the row is the appointment's transactionId.
ChargeLands(p) ==
  /\ Is(p, "charging")
  /\ ChargeCommit(p)
  /\ Become(p, [booking[p] EXCEPT !.pc = "insert", !.row.charge = Len(ledger) + 1])
  /\ UNCHANGED <<appointment, reservation, faults>>

\* createPayment returns the transaction whatever its status has become.
PayByCard(p) ==
  /\ Is(p, "pay")
  /\ \E status \in {"COMPLETED", "FAILED"} :
       Become(p, [booking[p] EXCEPT !.pc = "insert", !.row.card = status])
  /\ UNCHANGED <<wvars, appointment, reservation, faults>>

CardMissing(p) ==
  /\ Is(p, "pay")
  /\ Done(p)
  /\ UNCHANGED <<wvars, appointment, reservation, faults>>

Insert(p) ==
  /\ Is(p, "insert")
  /\ appointment' = Append(appointment, booking[p].row)
  /\ Become(p, [booking[p] EXCEPT !.pc = IF booking[p].row.charge # 0 THEN "link" ELSE "reserve",
                                  !.id = Len(appointment) + 1])
  /\ UNCHANGED <<wvars, reservation, faults>>

Link(p) ==
  /\ Is(p, "link")
  /\ LinkDepositChargeReference(booking[p].row.charge, booking[p].id)
  /\ Goto(p, "reserve")
  /\ UNCHANGED <<appointment, reservation, faults>>

\* reserveSharedAssetsForAppointment reads the reservations in its transaction,
\* which locks nothing; an asset that the cafe does not offer, or not as often
\* as it is asked for, throws: no reservation is made and the appointment stays.
ReserveRead(p) ==
  LET row == booking[p].row IN
  /\ Is(p, "reserve")
  /\ IF \A a \in {row.assets[n] : n \in DOMAIN row.assets} :
          /\ a \in offered
          /\ Cardinality(Overlapping(a, row.start, row.start + row.duration)) + Wanted(row, a)
               <= TotalQuantity[a]
     THEN Goto(p, "reserving") ELSE Done(p)
  /\ UNCHANGED <<wvars, appointment, reservation, faults>>

ReserveCommit(p) ==
  LET row == booking[p].row IN
  /\ Is(p, "reserving")
  /\ reservation' = reservation \cup
       {[id |-> booking[p].id, nth |-> n, asset |-> row.assets[n],
         start |-> row.start, end |-> row.start + row.duration] : n \in DOMAIN row.assets}
  /\ Done(p)
  /\ UNCHANGED <<wvars, appointment, faults>>

-----------------------------------------------------------------------------
(* AppointmentsService.update: the availability check is commented out.     *)
(* Notes, here and in a cancellation, are any text the guest types and      *)
(* decide nothing: they are left out.                                       *)

UpdateRead(p, i, start, duration) ==
  /\ Free(p)
  /\ appointment[i].status = "pending"
  /\ Become(p, [pc |-> "move", id |-> i, start |-> start, duration |-> duration])
  /\ UNCHANGED <<wvars, appointment, reservation, faults>>

UpdateWrite(p) ==
  LET h == booking[p] IN
  /\ Is(p, "move")
  /\ appointment' = [appointment EXCEPT ![h.id].start = h.start, ![h.id].duration = h.duration]
  /\ Done(p)
  /\ UNCHANGED <<wvars, reservation, faults>>

-----------------------------------------------------------------------------
(* AppointmentsService.cancel: the refund first, then the status.           *)

CancelRead(p, i) ==
  LET row == appointment[i] IN
  /\ Free(p)
  /\ row.status \in Active
  /\ Become(p, [pc |-> IF row.charge # 0 THEN "refund"
                       ELSE IF row.card # "" THEN "card_refund" ELSE "cancel",
                id |-> i])
  /\ UNCHANGED <<wvars, appointment, reservation, faults>>

RefundStarts(p) ==
  /\ Is(p, "refund")
  /\ RefundChargeCheck(p, appointment[booking[p].id].charge)
  /\ Goto(p, "refund_wait")
  /\ UNCHANGED <<appointment, reservation, faults>>

\* refundDepositCharge returns: the charge was refunded before.
RefundFound(p) ==
  /\ Is(p, "refund")
  /\ RefundsOf(appointment[booking[p].id].charge) # {}
  /\ Goto(p, "cancel")
  /\ UNCHANGED <<wvars, appointment, reservation, faults>>

RefundReads(p) ==
  /\ Is(p, "refund_wait")
  /\ RefundChargeRead(p)
  /\ UNCHANGED bvars

RefundLands(p) ==
  /\ Is(p, "refund_wait")
  /\ RefundChargeCommit(p)
  /\ Goto(p, "cancel")
  /\ UNCHANGED <<appointment, reservation, faults>>

\* createRefund, whose rows OrderPayments has; of a payment that is not COMPLETED
\* it throws, and that is logged.
CardRefund(p) ==
  /\ Is(p, "card_refund")
  /\ Goto(p, "cancel")
  /\ UNCHANGED <<wvars, appointment, reservation, faults>>

CancelWrite(p) ==
  /\ Is(p, "cancel")
  /\ appointment' = [appointment EXCEPT ![booking[p].id].status = "cancelled"]
  /\ Done(p)
  /\ UNCHANGED <<wvars, reservation, faults>>

-----------------------------------------------------------------------------
(* confirmAppointment, checkInAppointment and cancelCafeAppointment.        *)

StaffRead(p, i, to) ==
  /\ Free(p)
  /\ appointment[i].status \in CASE to = "confirmed" -> {"pending"}
                                 [] to = "completed" -> {"confirmed"}
                                 [] to = "cancelled" -> Active
  /\ Become(p, [pc |-> "staff", id |-> i, to |-> to])
  /\ UNCHANGED <<wvars, appointment, reservation, faults>>

StaffWrite(p) ==
  LET h == booking[p] IN
  /\ Is(p, "staff")
  /\ appointment' = [appointment EXCEPT ![h.id].status = h.to]
  /\ Done(p)
  /\ UNCHANGED <<wvars, reservation, faults>>

-----------------------------------------------------------------------------
(* Faults.  A refund that throws is caught and the cancellation goes on;    *)
(* any other throw, and a restart, ends the handler where it is.            *)

StopRequest(p) == IF At(p, "idle") THEN UNCHANGED wvars ELSE Abort(p)

RefundThrows(p) ==
  /\ booking[p].pc \in {"refund", "refund_wait", "card_refund"}
  /\ faults < MaxFaults
  /\ StopRequest(p)
  /\ Goto(p, "cancel")
  /\ faults' = faults + 1
  /\ UNCHANGED <<appointment, reservation>>

HandlerStops(p) ==
  /\ ~Is(p, "idle")
  /\ faults < MaxFaults
  /\ StopRequest(p)
  /\ Done(p)
  /\ faults' = faults + 1
  /\ UNCHANGED <<appointment, reservation>>

-----------------------------------------------------------------------------
NewBooking(g, room, start, duration, amount, method, assets) ==
  [guest |-> g, room |-> room, start |-> start, duration |-> duration,
   amount |-> amount, method |-> method, assets |-> assets,
   charge |-> 0, card |-> "", status |-> "pending"]

ARequest(p) ==
  \/ \E g \in Guests, room \in Rooms, start \in Starts, duration \in Durations,
        amount \in Amounts, method \in Methods, assets \in Selections :
       /\ RoomForBooking
       /\ BookCheck(p, NewBooking(g, room, start, duration, amount, method, assets))
  \/ \E i \in DOMAIN appointment, start \in Starts, duration \in Durations :
       UpdateRead(p, i, start, duration)
  \/ \E i \in DOMAIN appointment : CancelRead(p, i)
  \/ \E i \in DOMAIN appointment, to \in {"confirmed", "completed", "cancelled"} :
       StaffRead(p, i, to)

AContinue(p) ==
  \/ ChargeStarts(p) \/ ChargeRefused(p) \/ ChargeLands(p)
  \/ PayByCard(p) \/ CardMissing(p)
  \/ Insert(p) \/ Link(p) \/ ReserveRead(p) \/ ReserveCommit(p)
  \/ UpdateWrite(p)
  \/ RefundStarts(p) \/ RefundFound(p) \/ RefundReads(p) \/ RefundLands(p)
  \/ CardRefund(p) \/ CancelWrite(p)
  \/ StaffWrite(p)

\* The history of what staff did: a confirmation or a check-in of a booking that
\* is refunded by then.
Overtakes(p) ==
  /\ StaffWrite(p)
  /\ booking[p].to # "cancelled"
  /\ RefundsOf(appointment[booking[p].id].charge) # {}

BookingActivity ==
  /\ \/ \E p \in Procs : ARequest(p)
     \/ \E p \in Procs : AContinue(p)
     \/ \E p \in Procs : RefundThrows(p)
     \/ \E p \in Procs : HandlerStops(p)
  /\ overtaken' = overtaken \cup {booking[p].id : p \in {q \in Procs : Overtakes(q)}}
  /\ UNCHANGED <<offered, wasOff>>

\* The layout editor saves the cafe's shared assets, active or not.
SaveSharedAssets ==
  /\ offered' \in SUBSET Assets
  /\ wasOff' = wasOff \cup (Assets \ offered')
  /\ UNCHANGED <<wvars, bvars, overtaken>>

ANext == BookingActivity \/ SaveSharedAssets

ASpec == AInit /\ [][ANext]_avars
=============================================================================
