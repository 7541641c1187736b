-------------------------- MODULE BookingClaimsProofs --------------------------
(* Proofs of what is claimed of bookings while no handler was cut short: money *)
(* taken buys a booking, a guest's cancellation is refunded, and a booking is  *)
(* without its assets for a reason.                                            *)
EXTENDS AppointmentsProofs

-----------------------------------------------------------------------------
(* The invariant.                                                            *)

Refunded(c) == \E j \in DOMAIN ledger : ledger[j].type = "REFUND" /\ ledger[j].ref = c

\* A handler that still owes its appointment the assets.
Holding == {"link", "reserve", "reserving"}
Owes(p) == booking[p].pc \in Holding

Lacking(i, a) ==
  \/ a \in wasOff
  \/ Cardinality(HeldByOthers(i, a)) + Wanted(appointment[i], a) > TotalQuantity[a]

Secured(i) == Holds(i) \/ \E n \in DOMAIN appointment[i].assets : Lacking(i, appointment[i].assets[n])

PlaceOK(p) ==
  LET h == booking[p] IN
  /\ Owes(p) => h.row.assets = appointment[h.id].assets /\ \A r \in reservation : r.id # h.id
  /\ h.pc = "refund_wait" =>
       appointment[h.id].charge # 0 /\ request[p].row = appointment[h.id].charge
  /\ h.pc = "card_refund" => appointment[h.id].charge = 0
  /\ h.pc = "cancel" => appointment[h.id].charge = 0 \/ Refunded(appointment[h.id].charge)

CInv ==
  /\ \A p \in Procs : PlaceOK(p)
  /\ \A p, q \in Procs : Owes(p) /\ Owes(q) /\ booking[p].id = booking[q].id => p = q
  /\ IsFiniteSet(reservation)
  /\ \A j \in DOMAIN ledger : ledger[j].type = "REFUND" =>
       \E i \in DOMAIN appointment : appointment[i].charge # 0 /\ appointment[i].charge = ledger[j].ref
  /\ ChargeBuysBooking
  /\ \A i \in DOMAIN appointment : appointment[i].charge # 0 /\ Refunded(appointment[i].charge) =>
       \/ appointment[i].status = "cancelled" \/ i \in overtaken
       \/ \E p \in Procs : booking[p].pc \in Cancelling /\ booking[p].id = i
  /\ \A i \in DOMAIN appointment : Secured(i) \/ \E p \in Procs : Owes(p) /\ booking[p].id = i

-----------------------------------------------------------------------------
(* What a step of a handler does, when it is not cut short.                  *)

\* A charge is followed by its insertion, a refund is of the handler's charge.
LedgerEffect(p) ==
  \A j \in DOMAIN ledger' \ DOMAIN ledger :
    \/ ledger'[j].type = "VISIT_CHARGE" /\ Is(p, "insert")' /\ booking'[p].row.charge = j
    \/ ledger'[j].type = "REFUND" /\ Is(p, "refund_wait") /\ ledger'[j].ref = request[p].row

RowEffect(p) ==
  /\ \A i \in DOMAIN appointment :
       /\ appointment'[i].assets = appointment[i].assets
       /\ appointment[i].status = "cancelled" =>
            \/ appointment'[i].status = "cancelled"
            \/ StaffWrite(p) /\ booking[p].id = i /\ booking[p].to # "cancelled"
  /\ Is(p, "insert") => Len(appointment) + 1 \in DOMAIN appointment'
                        /\ appointment'[Len(appointment) + 1] = booking[p].row

ReservationEffect(p) ==
  /\ reservation \subseteq reservation' /\ IsFiniteSet(reservation')
  /\ \A r \in reservation' \ reservation : Is(p, "reserving") /\ r.id = booking[p].id

PlaceEffect(p) ==
  /\ PlaceOK(p)'
  /\ Owes(p)' => \/ Owes(p) /\ booking'[p].id = booking[p].id
                 \/ Is(p, "insert") /\ booking'[p].id = Len(appointment) + 1
  /\ Owes(p) => \/ Owes(p)' /\ booking'[p].id = booking[p].id
                \/ \A i \in {booking[p].id} : Secured(i)'
  /\ Is(p, "insert") => Owes(p)' /\ booking'[p].id = Len(appointment) + 1
  /\ booking[p].pc \in Cancelling =>
       \/ booking'[p].pc \in Cancelling /\ booking'[p].id = booking[p].id
       \/ appointment'[booking[p].id].status = "cancelled"

\* What was seen of the assets, and of what staff did, is remembered.
Remembers(p) ==
  /\ wasOff \subseteq wasOff' /\ overtaken \subseteq overtaken'
  /\ Overtakes(p) => booking[p].id \in overtaken'

Effects(p) == LedgerEffect(p) /\ RowEffect(p) /\ ReservationEffect(p) /\ PlaceEffect(p)

-----------------------------------------------------------------------------
(* Such a step keeps the invariant.                                          *)

LEMMA RefundRowsStay ==
  ASSUME AInv, NEW p \in Procs, BookingStep(p), NEW j \in DOMAIN ledger
  PROVE  /\ j \in DOMAIN ledger' /\ ledger'[j].type = ledger[j].type
         /\ ledger[j].type = "REFUND" => ledger'[j].ref = ledger[j].ref
<1>1. ChargesKept(p)
  BY DEF BookingStep
<1>2. Is(p, "link") => /\ booking[p].id \in DOMAIN appointment /\ booking[p].row.charge # 0
                       /\ appointment[booking[p].id].charge = booking[p].row.charge
  BY DEF AInv, WhereOK, Is, Uncharged
<1>3. Is(p, "link") => ledger[booking[p].row.charge].type = "VISIT_CHARGE"
  BY <1>2 DEF AInv, PaidOK, IsChargeOf
<1> QED BY <1>1, <1>3 DEF ChargesKept

LEMMA RefundedStays ==
  ASSUME AInv, NEW p \in Procs, BookingStep(p), LedgerEffect(p), NEW c
  PROVE  /\ Refunded(c) => \E j \in DOMAIN ledger' : ledger'[j].type = "REFUND" /\ ledger'[j].ref = c
         /\ (\E j \in DOMAIN ledger' : ledger'[j].type = "REFUND" /\ ledger'[j].ref = c) =>
              Refunded(c) \/ (Is(p, "refund_wait") /\ c = request[p].row)
BY RefundRowsStay DEF Refunded, LedgerEffect

LEMMA AppointmentsStay ==
  ASSUME AInv, NEW p \in Procs, BookingStep(p), NEW i \in DOMAIN appointment
  PROVE  i \in DOMAIN appointment' /\ appointment'[i].charge = appointment[i].charge
BY DEF BookingStep, BookingsKept, SameBooking

LEMMA NewAppointment ==
  ASSUME AInv, NEW p \in Procs, BookingStep(p), NEW i \in DOMAIN appointment' \ DOMAIN appointment
  PROVE  /\ Is(p, "insert") /\ i = Len(appointment) + 1 /\ appointment'[i] = booking[p].row
         /\ Len(appointment) + 1 \notin DOMAIN appointment
BY BookingIndices

LEMMA PlacesKept ==
  ASSUME AInv, CInv, NEW p \in Procs, BookingStep(p), Effects(p)
  PROVE  \A q \in Procs : PlaceOK(q)'
<1> SUFFICES ASSUME NEW q \in Procs, q # p PROVE PlaceOK(q)'
  BY DEF Effects, PlaceEffect
<1>1. booking'[q] = booking[q] /\ request'[q] = request[q]
  BY OthersKept
<1>2. PlaceOK(q) /\ WhereOK(q)
  BY DEF CInv, AInv
<1>3. ASSUME booking[q].pc \in Holding \cup {"refund_wait", "card_refund", "cancel"}
      PROVE  /\ booking[q].id \in DOMAIN appointment
             /\ appointment'[booking[q].id].charge = appointment[booking[q].id].charge
             /\ appointment'[booking[q].id].assets = appointment[booking[q].id].assets
  <2>1. booking[q].id \in DOMAIN appointment
    BY <1>2, <1>3 DEF WhereOK, Uncharged, Holding
  <2> QED BY <2>1, AppointmentsStay DEF Effects, RowEffect
<1>4. Owes(q) => \A r \in reservation' : r.id # booking[q].id
  <2> SUFFICES ASSUME Owes(q), NEW r \in reservation', r.id = booking[q].id PROVE FALSE
    OBVIOUS
  <2>1. r \notin reservation
    BY <1>2 DEF PlaceOK
  <2>2. Is(p, "reserving") /\ r.id = booking[p].id
    BY <2>1 DEF Effects, ReservationEffect
  <2>3. Owes(p)
    BY <2>2 DEF Owes, Is, Holding
  <2> QED BY <2>2, <2>3 DEF CInv
<1>5. \A c : Refunded(c) => \E j \in DOMAIN ledger' : ledger'[j].type = "REFUND" /\ ledger'[j].ref = c
  BY RefundedStays DEF Effects
<1>7. Owes(q) => booking[q].row.assets = appointment'[booking[q].id].assets
  BY <1>2, <1>3 DEF PlaceOK, Owes
<1>8. /\ booking[q].pc = "refund_wait" => /\ appointment'[booking[q].id].charge # 0
                                          /\ request[q].row = appointment'[booking[q].id].charge
      /\ booking[q].pc = "card_refund" => appointment'[booking[q].id].charge = 0
  BY <1>2, <1>3 DEF PlaceOK
<1>9. booking[q].pc = "cancel" =>
        \/ appointment'[booking[q].id].charge = 0
        \/ \E j \in DOMAIN ledger' : ledger'[j].type = "REFUND" /\ ledger'[j].ref = appointment'[booking[q].id].charge
  BY <1>2, <1>3, <1>5 DEF PlaceOK
<1> QED BY <1>1, <1>4, <1>7, <1>8, <1>9 DEF PlaceOK, Owes, Refunded

LEMMA OwedOnce ==
  ASSUME AInv, CInv, NEW p \in Procs, BookingStep(p), Effects(p)
  PROVE  \A q, r \in Procs : Owes(q)' /\ Owes(r)' /\ booking'[q].id = booking'[r].id => q = r
<1>1. \A q \in Procs \ {p} : Owes(q)' => Owes(q) /\ booking'[q].id = booking[q].id
  BY OthersKept DEF Owes
<1>2. \A q, r \in Procs : Owes(q) /\ Owes(r) /\ booking[q].id = booking[r].id => q = r
  BY DEF CInv
<1>3. \A q \in Procs \ {p} : Owes(p)' /\ Owes(q)' => booking'[p].id # booking'[q].id
  <2>1. \A q \in Procs : Owes(q) => booking[q].id \in DOMAIN appointment
    BY DEF AInv, WhereOK, Owes, Uncharged, Holding
  <2>2. Len(appointment) + 1 \notin DOMAIN appointment
    BY BookingIndices
  <2>3. Owes(p)' => \/ Owes(p) /\ booking'[p].id = booking[p].id
                    \/ booking'[p].id = Len(appointment) + 1
    BY DEF Effects, PlaceEffect
  <2> QED BY <1>1, <1>2, <2>1, <2>2, <2>3 DEF Owes
<1> QED BY <1>1, <1>2, <1>3 DEF Owes

LEMMA RefundRowsHaveBookings ==
  ASSUME CInv
  PROVE  \A j \in DOMAIN ledger : ledger[j].type = "REFUND" =>
           \E i \in DOMAIN appointment : appointment[i].charge # 0 /\ appointment[i].charge = ledger[j].ref
BY DEF CInv

LEMMA RefundsHaveBookings ==
  ASSUME AInv, CInv, NEW p \in Procs, BookingStep(p), Effects(p), NEW j \in DOMAIN ledger', ledger'[j].type = "REFUND"
  PROVE  \E i \in DOMAIN appointment' : appointment'[i].charge # 0 /\ appointment'[i].charge = ledger'[j].ref
<1>1. \E i \in DOMAIN appointment : appointment[i].charge # 0 /\ appointment[i].charge = ledger'[j].ref
  <2>1. CASE j \in DOMAIN ledger
    <3>1. ledger[j].type = "REFUND" /\ ledger'[j].ref = ledger[j].ref
      BY <2>1, RefundRowsStay
    <3> QED BY <2>1, <3>1, RefundRowsHaveBookings
  <2>2. CASE j \notin DOMAIN ledger
    <3>1. Is(p, "refund_wait") /\ ledger'[j].ref = request[p].row
      BY <2>2 DEF Effects, LedgerEffect
    <3>2. booking[p].id \in DOMAIN appointment
      BY <3>1 DEF AInv, WhereOK, Is, Uncharged
    <3>3. appointment[booking[p].id].charge # 0 /\ request[p].row = appointment[booking[p].id].charge
      BY <3>1 DEF CInv, PlaceOK, Is
    <3> QED BY <3>1, <3>2, <3>3
  <2> QED BY <2>1, <2>2
<1> QED BY <1>1, AppointmentsStay

LEMMA ChargesBuy ==
  ASSUME AInv, CInv, NEW p \in Procs, BookingStep(p), Effects(p), faults = 0,
         NEW i \in DOMAIN ledger', ledger'[i].type = "VISIT_CHARGE"
  PROVE  \/ \E j \in DOMAIN appointment' : appointment'[j].charge = i
         \/ \E q \in Procs : Is(q, "insert")' /\ booking'[q].row.charge = i
<1>1. CASE i \notin DOMAIN ledger
  BY <1>1 DEF Effects, LedgerEffect
<1>2. CASE i \in DOMAIN ledger
  <2>1. \/ \E j \in DOMAIN appointment : appointment[j].charge = i
        \/ \E q \in Procs : Is(q, "insert") /\ booking[q].row.charge = i
    BY <1>2, RefundRowsStay DEF CInv, ChargeBuysBooking
  <2>2. ASSUME NEW q \in Procs, Is(q, "insert"), booking[q].row.charge = i, q # p
        PROVE  Is(q, "insert")' /\ booking'[q].row.charge = i
    BY <2>2, OthersKept DEF Is
  <2>3. ASSUME Is(p, "insert"), booking[p].row.charge = i
        PROVE  \E j \in DOMAIN appointment' : appointment'[j].charge = i
    BY <2>3 DEF Effects, RowEffect
  <2> QED BY <2>1, <2>2, <2>3, AppointmentsStay
<1> QED BY <1>1, <1>2

LEMMA RefundsOfAre == ASSUME NEW c PROVE RefundsOf(c) # {} <=> Refunded(c)
BY DEF RefundsOf, Refunded

LEMMA CancellationsKept ==
  ASSUME AInv, CInv, NEW p \in Procs, BookingStep(p), Effects(p), Remembers(p),
         NEW i \in DOMAIN appointment', appointment'[i].charge # 0,
         \E j \in DOMAIN ledger' : ledger'[j].type = "REFUND" /\ ledger'[j].ref = appointment'[i].charge
  PROVE  \/ appointment'[i].status = "cancelled" \/ i \in overtaken'
         \/ \E q \in Procs : booking'[q].pc \in Cancelling /\ booking'[q].id = i
<1> DEFINE c == appointment'[i].charge
<1>1. Refunded(c) \/ (Is(p, "refund_wait") /\ c = request[p].row)
  BY RefundedStays DEF Effects
<1>2. Is(p, "refund_wait") => /\ booking[p].id \in DOMAIN appointment /\ appointment[booking[p].id].charge # 0
                              /\ request[p].row = appointment[booking[p].id].charge
  <2>1. Is(p, "refund_wait") => booking[p].id \in DOMAIN appointment
    BY DEF AInv, WhereOK, Is, Uncharged
  <2> QED BY <2>1 DEF CInv, PlaceOK, Is
<1>3. CASE i \in DOMAIN appointment
  <2>1. appointment[i].charge = c /\ c # 0
    BY <1>3, AppointmentsStay
  <2>2. ASSUME booking[p].pc \in Cancelling, booking[p].id = i
        PROVE  \/ appointment'[i].status = "cancelled"
               \/ \E q \in Procs : booking'[q].pc \in Cancelling /\ booking'[q].id = i
    BY <2>2 DEF Effects, PlaceEffect
  <2>3. CASE Refunded(c)
    <3>1. CASE appointment[i].status = "cancelled"
      <4>1. ASSUME StaffWrite(p), booking[p].id = i, booking[p].to # "cancelled"
            PROVE  i \in overtaken'
        <5>1. RefundsOf(appointment[booking[p].id].charge) # {}
          BY <2>1, <2>3, <4>1, RefundsOfAre
        <5> QED BY <4>1, <5>1 DEF Remembers, Overtakes
      <4> QED BY <1>3, <3>1, <4>1 DEF Effects, RowEffect
    <3>2. CASE i \in overtaken
      BY <3>2 DEF Remembers
    <3>3. ASSUME NEW q \in Procs, booking[q].pc \in Cancelling, booking[q].id = i, q # p
          PROVE  booking'[q].pc \in Cancelling /\ booking'[q].id = i
      BY <3>3, OthersKept
    <3> QED BY <1>3, <2>1, <2>2, <2>3, <3>1, <3>2, <3>3 DEF CInv
  <2>4. CASE Is(p, "refund_wait") /\ c = request[p].row
    <3>1. booking[p].id = i
      BY <1>2, <1>3, <2>1, <2>4 DEF AInv, ChargesAreDistinct
    <3>2. booking[p].pc \in Cancelling
      BY <2>4 DEF Is, Cancelling
    <3> QED BY <2>2, <3>1, <3>2
  <2> QED BY <1>1, <2>3, <2>4
<1>4. CASE i \notin DOMAIN appointment
  <2>1. booking[p].pc = "insert" /\ Is(p, "insert") /\ appointment'[i] = booking[p].row
    BY <1>4, NewAppointment DEF Is
  <2>2. Unlinked(p) /\ c = booking[p].row.charge
    BY <2>1 DEF Unlinked
  <2>3. ~Refunded(c)
    <3>1. \A k \in DOMAIN appointment : appointment[k].charge # c
      BY <2>2 DEF AInv, ChargesAreDistinct
    <3> QED BY <3>1, RefundRowsHaveBookings DEF Refunded
  <2> QED BY <1>1, <2>1, <2>3 DEF Is
<1> QED BY <1>3, <1>4

\* An appointment selects each of its assets some number of times.
LEMMA WantedIsNatural ==
  ASSUME NEW row, row.assets \in Seq(Assets), NEW a
  PROVE  Wanted(row, a) \in Nat
<1>1. DOMAIN row.assets = 1..Len(row.assets) /\ Len(row.assets) \in Nat
  OBVIOUS
<1>2. IsFiniteSet(DOMAIN row.assets)
  BY <1>1, FS_Interval
<1> QED BY <1>2, FS_Subset, FS_CardinalityType DEF Wanted

LEMMA MoreReservations ==
  ASSUME AInv, CInv, NEW p \in Procs, BookingStep(p), Effects(p), Remembers(p),
         NEW i \in DOMAIN appointment, Secured(i)
  PROVE  Secured(i)'
<1>1. reservation \subseteq reservation' /\ IsFiniteSet(reservation')
  BY DEF Effects, ReservationEffect
<1>2. appointment'[i].assets = appointment[i].assets /\ appointment[i].assets \in Seq(Assets)
  BY DEF Effects, RowEffect, AInv, TablesOK, Appointment
<1>3. ASSUME NEW n \in DOMAIN appointment[i].assets, Lacking(i, appointment[i].assets[n])
      PROVE  Lacking(i, appointment[i].assets[n])'
  <2> DEFINE a == appointment[i].assets[n]
             old == {r \in reservation : r.asset = a /\ r.id # i}
             new == {r \in reservation' : r.asset = a /\ r.id # i}
             wanted == Wanted(appointment[i], a)
  <2>1. old \subseteq new /\ IsFiniteSet(new)
    BY <1>1, FS_Subset
  <2>2. wanted \in Nat
    BY <1>2, WantedIsNatural
  <2>3. TotalQuantity[a] \in Nat
    <3>1. a \in Assets
      BY <1>2
    <3> QED BY <3>1, AppointmentsAssumption
  <2>4. appointment'[i].assets[n] = a /\ Cardinality({m \in DOMAIN appointment'[i].assets : appointment'[i].assets[m] = a}) = wanted
    BY <1>2 DEF Wanted
  <2>5. a \in wasOff \/ Cardinality(old) + wanted > TotalQuantity[a]
    BY <1>3 DEF Lacking, HeldByOthers
  <2>6. a \in wasOff' \/ Cardinality(new) + wanted > TotalQuantity[a]
    <3>1. CASE a \in wasOff
      BY <3>1 DEF Remembers
    <3>2. CASE Cardinality(old) + wanted > TotalQuantity[a]
      <4> HIDE DEF old, new, wanted, a
      <4>1. Cardinality(old) <= Cardinality(new) /\ IsFiniteSet(old)
        BY <2>1, FS_Subset
      <4>2. Cardinality(old) \in Nat /\ Cardinality(new) \in Nat
        BY <2>1, <4>1, FS_CardinalityType
      <4>3. PICK k \in Nat : k = Cardinality(old)
        BY <4>2
      <4>4. PICK m \in Nat : m = Cardinality(new)
        BY <4>2
      <4>5. m + wanted > TotalQuantity[a]
        BY <2>2, <2>3, <3>2, <4>1, <4>3, <4>4
      <4> QED BY <4>4, <4>5
    <3> QED BY <2>5, <3>1, <3>2
  <2> QED BY <2>4, <2>6 DEF Lacking, HeldByOthers, Wanted
<1>4. Holds(i) => Holds(i)'
  BY <1>1, <1>2 DEF Holds
<1> QED BY <1>2, <1>3, <1>4 DEF Secured

LEMMA AssetsKept ==
  ASSUME AInv, CInv, NEW p \in Procs, BookingStep(p), Effects(p), Remembers(p), NEW i \in DOMAIN appointment'
  PROVE  Secured(i)' \/ \E q \in Procs : Owes(q)' /\ booking'[q].id = i
<1>1. CASE i \in DOMAIN appointment
  <2>1. ASSUME NEW q \in Procs, Owes(q), booking[q].id = i, q # p
        PROVE  Owes(q)' /\ booking'[q].id = i
    BY <2>1, OthersKept DEF Owes
  <2>2. ASSUME Owes(p), booking[p].id = i
        PROVE  Secured(i)' \/ (Owes(p)' /\ booking'[p].id = i)
    BY <2>2 DEF Effects, PlaceEffect
  <2> QED BY <1>1, <2>1, <2>2, MoreReservations DEF CInv
<1>2. CASE i \notin DOMAIN appointment
  BY <1>2, NewAppointment DEF Effects, PlaceEffect
<1> QED BY <1>1, <1>2

LEMMA EffectsKeepInvariant ==
  ASSUME AInv, CInv, NEW p \in Procs, BookingStep(p), Effects(p), Remembers(p), faults = 0
  PROVE  CInv'
<1>1. IsFiniteSet(reservation')
  BY DEF Effects, ReservationEffect
<1>2. ChargeBuysBooking'
  BY ChargesBuy DEF ChargeBuysBooking
<1> QED BY <1>1, <1>2, PlacesKept, OwedOnce, RefundsHaveBookings, CancellationsKept, AssetsKept
        DEF CInv, Refunded

-----------------------------------------------------------------------------
(* The steps.                                                                *)

\* A step that writes no table.
LEMMA NoTableWritten ==
  ASSUME CInv, NEW p \in Procs, UNCHANGED <<ledger, appointment, reservation>>, ~Is(p, "insert"), PlaceEffect(p)
  PROVE  Effects(p)
BY DEF Effects, LedgerEffect, RowEffect, ReservationEffect, CInv

LEMMA PlaceIdle ==
  ASSUME AInv, NEW p \in Procs, Done(p)
  PROVE  PlaceOK(p)' /\ ~Owes(p)'
<1>1. booking'[p] = NoHandler
  BY DEF Done, Become, AInv, TablesOK
<1> QED BY <1>1 DEF PlaceOK, Owes, NoHandler, Creating, Holding

\* A request that begins.
LEMMA Entered ==
  ASSUME AInv, CInv, NEW p \in Procs, Is(p, "idle"), NEW h, booking' = [booking EXCEPT ![p] = h],
         UNCHANGED <<ledger, appointment, reservation>>,
         h.pc \notin Holding \cup {"refund_wait"},
         h.pc \in {"card_refund", "cancel"} => appointment[h.id].charge = 0
  PROVE  Effects(p)
<1>1. booking'[p] = h
  BY DEF AInv, TablesOK
<1>2. ~Owes(p) /\ ~Is(p, "insert") /\ booking[p].pc \notin Cancelling
  BY DEF Owes, Is, Holding, Cancelling
<1>3. ~Owes(p)'
  BY <1>1 DEF Owes
<1>4. PlaceOK(p)'
  BY <1>1 DEF PlaceOK, Owes
<1> QED BY <1>2, <1>3, <1>4, NoTableWritten DEF PlaceEffect

LEMMA BookCheckEffects ==
  ASSUME AInv, CInv, NEW p \in Procs, NEW row, row.method \in Methods, BookCheck(p, row)
  PROVE  Effects(p)
<1> DEFINE pc == CASE row.method = "BALANCE" -> "charge" [] row.method = "CARD" -> "pay"
                   [] row.method = "CASH" -> "insert"
           h == [pc |-> pc, row |-> row, id |-> 0]
<1>1. booking' = [booking EXCEPT ![p] = h] /\ Is(p, "idle")
  BY DEF BookCheck, Become, Free
<1>2. UNCHANGED <<ledger, appointment, reservation>>
  BY DEF BookCheck, wvars
<1>3. pc \in {"charge", "pay", "insert"}
  BY AppointmentsAssumption
<1> HIDE DEF pc
<1>4. h.pc = pc
  OBVIOUS
<1>5. h.pc \notin Holding \cup {"refund_wait"} /\ h.pc \notin {"card_refund", "cancel"}
  BY <1>3, <1>4 DEF Holding
<1> HIDE DEF h
<1> QED BY <1>1, <1>2, <1>4, <1>5, Entered

LEMMA ReadEffects ==
  ASSUME AInv, CInv, NEW p \in Procs, NEW i \in DOMAIN appointment,
         \/ \E start \in Starts, duration \in Durations : UpdateRead(p, i, start, duration)
         \/ CancelRead(p, i)
         \/ \E to \in {"confirmed", "completed", "cancelled"} : StaffRead(p, i, to)
  PROVE  Effects(p)
<1>1. Is(p, "idle") /\ UNCHANGED <<ledger, appointment, reservation>>
  BY DEF UpdateRead, CancelRead, StaffRead, Free, wvars
<1> DEFINE Enters(h) == /\ booking' = [booking EXCEPT ![p] = h]
                        /\ h.pc \notin Holding \cup {"refund_wait"}
                        /\ h.pc \in {"card_refund", "cancel"} => appointment[h.id].charge = 0
<1>2. ASSUME NEW start \in Starts, NEW duration \in Durations, UpdateRead(p, i, start, duration)
      PROVE  \E h : Enters(h)
  <2> DEFINE h == [pc |-> "move", id |-> i, start |-> start, duration |-> duration]
  <2>1. booking' = [booking EXCEPT ![p] = h] /\ h.pc = "move"
    BY <1>2 DEF UpdateRead, Become
  <2> HIDE DEF h
  <2>2. Enters(h)
    BY <2>1 DEF Holding
  <2> QED BY <2>2
<1>3. ASSUME CancelRead(p, i) PROVE \E h : Enters(h)
  <2> DEFINE pc == IF appointment[i].charge # 0 THEN "refund"
                   ELSE IF appointment[i].card # "" THEN "card_refund" ELSE "cancel"
             h == [pc |-> pc, id |-> i]
  <2>1. pc \in {"refund", "card_refund", "cancel"} /\ (pc # "refund" => appointment[i].charge = 0)
    OBVIOUS
  <2>2. booking' = [booking EXCEPT ![p] = h]
    BY <1>3 DEF CancelRead, Become
  <2> HIDE DEF pc
  <2>3. h.id = i /\ h.pc = pc
    OBVIOUS
  <2> HIDE DEF h
  <2>4. Enters(h)
    BY <2>1, <2>2, <2>3 DEF Holding
  <2> QED BY <2>4
<1>4. ASSUME NEW to \in {"confirmed", "completed", "cancelled"}, StaffRead(p, i, to) PROVE \E h : Enters(h)
  <2> DEFINE h == [pc |-> "staff", id |-> i, to |-> to]
  <2>1. booking' = [booking EXCEPT ![p] = h] /\ h.pc = "staff"
    BY <1>4 DEF StaffRead, Become
  <2> HIDE DEF h
  <2>2. Enters(h)
    BY <2>1 DEF Holding
  <2> QED BY <2>2
<1>5. PICK h : Enters(h)
  BY <1>2, <1>3, <1>4
<1> QED BY <1>1, <1>5, Entered

LEMMA RequestEffects == ASSUME AInv, CInv, NEW p \in Procs, ARequest(p) PROVE Effects(p)
<1>1. ASSUME NEW g \in Guests, NEW room \in Rooms, NEW start \in Starts, NEW duration \in Durations,
             NEW amount \in Amounts, NEW method \in Methods, NEW assets \in Selections,
             RoomForBooking, BookCheck(p, NewBooking(g, room, start, duration, amount, method, assets))
      PROVE  Effects(p)
  <2> DEFINE row == NewBooking(g, room, start, duration, amount, method, assets)
  <2>1. row.method \in Methods
    BY DEF NewBooking
  <2> HIDE DEF row
  <2>2. BookCheck(p, row)
    BY <1>1 DEF row
  <2> QED BY <2>1, <2>2, BookCheckEffects
<1> QED BY <1>1, ReadEffects DEF ARequest

\* A creation goes on before its appointment exists.
LEMMA CreationMoves ==
  ASSUME AInv, CInv, NEW p \in Procs, booking[p].pc \in {"charge", "charging", "pay"},
         booking'[p].pc \in Uncharged \cup {"insert"}
  PROVE  PlaceEffect(p)
<1>2. ~Owes(p) /\ ~Owes(p)' /\ ~Is(p, "insert") /\ booking[p].pc \notin Cancelling
  BY DEF Owes, Is, Holding, Cancelling, Uncharged
<1>3. PlaceOK(p)'
  BY <1>2 DEF PlaceOK, Owes, Uncharged
<1> QED BY <1>2, <1>3 DEF PlaceEffect

LEMMA PaysEffects ==
  ASSUME IInv, AInv, CInv, NEW p \in Procs, ChargeStarts(p) \/ PayByCard(p) \/ ChargeRefused(p) \/ CardMissing(p)
  PROVE  Effects(p)
<1>1. booking[p].pc \in {"charge", "pay"} /\ booking[p].pc \in Creating
  BY DEF ChargeStarts, PayByCard, ChargeRefused, CardMissing, Is, Creating
<1>2. booking[p] \in [pc : Creating, row : Appointment, id : Nat]
  BY <1>1, CreatingHandler
<1>3. UNCHANGED <<ledger, appointment, reservation>> /\ ~Is(p, "insert")
  BY <1>1 DEF ChargeStarts, ChargeRead, PayByCard, ChargeRefused, CardMissing, wvars, Is
<1>4. CASE ChargeStarts(p)
  <2>1. booking'[p] = [booking[p] EXCEPT !.pc = "charging"]
    BY <1>4 DEF ChargeStarts, Goto, AInv, TablesOK
  <2>2. booking'[p].pc = "charging" /\ booking'[p].row = booking[p].row
    BY <1>2, <2>1
  <2> QED BY <1>1, <1>3, <2>2, CreationMoves, NoTableWritten DEF Uncharged
<1>5. CASE PayByCard(p)
  <2>1. PICK status \in {"COMPLETED", "FAILED"} :
          booking'[p] = [booking[p] EXCEPT !.pc = "insert", !.row.card = status]
    BY <1>5 DEF PayByCard, Become, AInv, TablesOK
  <2>2. booking'[p].pc = "insert"
    BY <1>2, <2>1
  <2> QED BY <1>1, <1>3, <2>2, CreationMoves, NoTableWritten
<1>6. CASE ChargeRefused(p) \/ CardMissing(p)
  <2>1. Done(p)
    BY <1>6 DEF ChargeRefused, CardMissing
  <2>2. ~Owes(p) /\ booking[p].pc \notin Cancelling
    BY <1>1 DEF Owes, Holding, Cancelling
  <2> QED BY <1>3, <2>1, <2>2, PlaceIdle, NoTableWritten DEF PlaceEffect
<1> QED BY <1>4, <1>5, <1>6

\* A row appended to the ledger is the only new one.
LEMMA OneRow ==
  ASSUME IInv, NEW row, ledger' = Append(ledger, row), NEW j \in DOMAIN ledger' \ DOMAIN ledger
  PROVE  j = Len(ledger) + 1 /\ ledger'[j] = row
<1>1. ledger \in Seq(Row)
  BY DEF IInv, TypeOK
<1>2. DOMAIN ledger = 1..Len(ledger) /\ DOMAIN ledger' = 1..(Len(ledger) + 1) /\ Len(ledger) \in Nat
  BY <1>1
<1>3. j = Len(ledger) + 1
  <2> DEFINE n == Len(ledger)
  <2>1. j \in (1..(n + 1)) \ (1..n) /\ n \in Nat
    BY <1>2
  <2> HIDE DEF n
  <2>2. j = n + 1
    BY <2>1
  <2> QED BY <2>2 DEF n
<1> QED BY <1>1, <1>3

LEMMA ChargeLandsEffects == ASSUME IInv, AInv, CInv, NEW p \in Procs, ChargeLands(p) PROVE Effects(p)
<1> DEFINE n == Len(ledger) + 1
<1>1. booking[p].pc = "charging" /\ booking[p].pc \in Creating /\ ~Is(p, "insert")
  BY DEF ChargeLands, Is, Creating
<1>2. booking[p] \in [pc : Creating, row : Appointment, id : Nat]
  BY <1>1, CreatingHandler
<1>3. PICK row : ledger' = Append(ledger, row) /\ row.type = "VISIT_CHARGE"
  BY DEF ChargeLands, ChargeCommit, RowOf
<1>4. booking'[p] = [booking[p] EXCEPT !.pc = "insert", !.row.charge = n]
  BY DEF ChargeLands, Become, AInv, TablesOK
<1>5. booking'[p].pc = "insert" /\ booking'[p].row = [booking[p].row EXCEPT !.charge = n]
  BY <1>2, <1>4
<1>6. booking'[p].row.charge = n
  BY <1>2, <1>5 DEF Appointment
<1>7. LedgerEffect(p)
  BY <1>3, <1>5, <1>6, OneRow DEF LedgerEffect, Is
<1>8. RowEffect(p) /\ ReservationEffect(p)
  BY <1>1 DEF ChargeLands, RowEffect, ReservationEffect, CInv
<1>9. PlaceEffect(p)
  BY <1>1, <1>5, CreationMoves
<1> QED BY <1>7, <1>8, <1>9 DEF Effects

LEMMA InsertEffects == ASSUME IInv, AInv, CInv, NEW p \in Procs, Insert(p) PROVE Effects(p)
<1> DEFINE n == Len(appointment) + 1
<1>1. booking[p].pc = "insert" /\ booking[p].pc \in Creating /\ ~Owes(p) /\ booking[p].pc \notin Cancelling
  BY DEF Insert, Is, Creating, Owes, Holding, Cancelling
<1>2. booking[p] \in [pc : Creating, row : Appointment, id : Nat]
  BY <1>1, CreatingHandler
<1>3. appointment \in Seq(Appointment) /\ appointment' = Append(appointment, booking[p].row)
  BY DEF AInv, Insert
<1>4. /\ DOMAIN appointment = 1..Len(appointment) /\ Len(appointment) \in Nat
      /\ n \in DOMAIN appointment' /\ appointment'[n] = booking[p].row
      /\ \A i \in DOMAIN appointment : appointment'[i] = appointment[i]
  BY <1>3
<1>5. UNCHANGED <<ledger, reservation>>
  BY DEF Insert, wvars
<1>6. booking'[p] = [booking[p] EXCEPT !.pc = IF booking[p].row.charge # 0 THEN "link" ELSE "reserve", !.id = n]
  BY DEF Insert, Become, AInv, TablesOK
<1>7. booking'[p].pc \in {"link", "reserve"} /\ booking'[p].row = booking[p].row /\ booking'[p].id = n
  BY <1>2, <1>6
<1>8. \A r \in reservation : r.id # n
  BY <1>4 DEF AInv, TablesOK
<1>9. Owes(p)' /\ PlaceOK(p)'
  BY <1>4, <1>5, <1>7, <1>8 DEF PlaceOK, Owes, Holding
<1>10. PlaceEffect(p)
  BY <1>1, <1>7, <1>9 DEF PlaceEffect, Is
<1>11. LedgerEffect(p) /\ RowEffect(p) /\ ReservationEffect(p)
  BY <1>1, <1>4, <1>5 DEF LedgerEffect, RowEffect, ReservationEffect, CInv
<1> QED BY <1>10, <1>11 DEF Effects

LEMMA OwingHandler ==
  ASSUME AInv, NEW p \in Procs, Owes(p)
  PROVE  /\ booking[p] \in [pc : Creating, row : Appointment, id : Nat]
         /\ booking[p].id \in DOMAIN appointment
         /\ ~Is(p, "insert") /\ booking[p].pc \notin Cancelling
<1>1. booking[p].pc \in Creating
  BY DEF Owes, Holding, Creating
<1> QED BY <1>1, CreatingHandler DEF AInv, WhereOK, Uncharged, Owes, Holding, Is, Cancelling

\* A handler goes on that still owes its appointment the assets.
LEMMA OwingMoves ==
  ASSUME AInv, CInv, NEW p \in Procs, Owes(p), NEW label \in Holding, Goto(p, label),
         UNCHANGED <<appointment, reservation>>
  PROVE  PlaceEffect(p)
<1>1. booking'[p] = [booking[p] EXCEPT !.pc = label]
  BY DEF Goto, AInv, TablesOK
<1>2. booking'[p].pc = label /\ booking'[p].row = booking[p].row /\ booking'[p].id = booking[p].id
  BY <1>1, OwingHandler
<1>3. Owes(p)'
  BY <1>2 DEF Owes
<1>4. /\ booking[p].row.assets = appointment[booking[p].id].assets
      /\ \A r \in reservation : r.id # booking[p].id
  BY DEF CInv, PlaceOK, Owes, Holding, Creating
<1>5. PlaceOK(p)'
  BY <1>2, <1>4 DEF PlaceOK, Holding
<1> QED BY <1>2, <1>3, <1>5, OwingHandler DEF PlaceEffect

LEMMA LinkEffects == ASSUME IInv, AInv, CInv, NEW p \in Procs, Link(p) PROVE Effects(p)
<1>1. Owes(p) /\ Goto(p, "reserve") /\ UNCHANGED <<appointment, reservation>>
  BY DEF Link, Is, Owes, Holding
<1>2. PlaceEffect(p)
  BY <1>1, OwingMoves DEF Holding
<1>3. DOMAIN ledger' = DOMAIN ledger
  BY DEF Link, LinkDepositChargeReference
<1>4. LedgerEffect(p) /\ RowEffect(p) /\ ReservationEffect(p)
  BY <1>1, <1>3, OwingHandler DEF LedgerEffect, RowEffect, ReservationEffect, CInv
<1> QED BY <1>2, <1>4 DEF Effects

\* A reservation that is refused asked for more than others leave, or for an
\* asset that was not offered.
LEMMA RefusedIsSecured ==
  ASSUME AInv, CInv, ShelfOK, NEW p \in Procs, Owes(p), NEW n \in DOMAIN booking[p].row.assets, NEW start, NEW end,
         booking[p].row.assets[n] \in offered =>
           ~(Cardinality(Overlapping(booking[p].row.assets[n], start, end)) + Wanted(booking[p].row, booking[p].row.assets[n])
               <= TotalQuantity[booking[p].row.assets[n]])
  PROVE  \A i \in {booking[p].id} : Secured(i)
<1> DEFINE i == booking[p].id
           a == booking[p].row.assets[n]
           held == {r \in reservation : r.asset = a /\ r.id # i}
           counted == Overlapping(a, start, end)
           wanted == Wanted(booking[p].row, a)
<1>1. booking[p].row.assets = appointment[i].assets /\ \A r \in reservation : r.id # i
  BY DEF CInv, PlaceOK
<1>2. booking[p].row.assets \in Seq(Assets)
  BY OwingHandler DEF Appointment
<1>3. a \in Assets
  BY <1>2
<1>4. wanted \in Nat /\ Wanted(appointment[i], a) = wanted
  BY <1>1, <1>2, WantedIsNatural DEF Wanted
<1>5. TotalQuantity[a] \in Nat
  BY <1>3, AppointmentsAssumption
<1>6. counted \subseteq held /\ IsFiniteSet(held)
  BY <1>1, FS_Subset DEF CInv, Overlapping
<1>7. a \in wasOff \/ Cardinality(held) + wanted > TotalQuantity[a]
  <2>1. CASE a \notin offered
    BY <1>3, <2>1 DEF ShelfOK
  <2>2. CASE ~(Cardinality(counted) + wanted <= TotalQuantity[a])
    <3> HIDE DEF held, counted, wanted, a
    <3>1. Cardinality(counted) <= Cardinality(held) /\ IsFiniteSet(counted)
      BY <1>6, FS_Subset
    <3>2. Cardinality(counted) \in Nat /\ Cardinality(held) \in Nat
      BY <1>6, <3>1, FS_CardinalityType
    <3>3. PICK k \in Nat : k = Cardinality(counted)
      BY <3>2
    <3>4. PICK m \in Nat : m = Cardinality(held)
      BY <3>2
    <3>5. m + wanted > TotalQuantity[a]
      BY <1>4, <1>5, <2>2, <3>1, <3>3, <3>4
    <3> QED BY <3>4, <3>5
  <2> QED BY <2>1, <2>2
<1>8. Lacking(i, appointment[i].assets[n]) /\ n \in DOMAIN appointment[i].assets
  BY <1>1, <1>4, <1>7 DEF Lacking, HeldByOthers
<1> QED BY <1>8 DEF Secured

LEMMA ReserveReadEffects ==
  ASSUME AInv, CInv, ShelfOK, NEW p \in Procs, ReserveRead(p), wasOff \subseteq wasOff'
  PROVE  Effects(p)
<1> DEFINE row == booking[p].row
           Room(a) == Cardinality(Overlapping(a, row.start, row.start + row.duration)) + Wanted(row, a) <= TotalQuantity[a]
<1>1. Owes(p) /\ UNCHANGED <<ledger, appointment, reservation>>
  BY DEF ReserveRead, Is, Owes, Holding, wvars
<1>2. CASE Goto(p, "reserving")
  BY <1>1, <1>2, OwingMoves, OwingHandler, NoTableWritten DEF Holding
<1>3. CASE Done(p) /\ \E n \in DOMAIN row.assets : ~(row.assets[n] \in offered /\ Room(row.assets[n]))
  <2>1. PICK n \in DOMAIN row.assets : ~(row.assets[n] \in offered /\ Room(row.assets[n]))
    BY <1>3
  <2>2. \A i \in {booking[p].id} : Secured(i)
    BY <1>1, <2>1, RefusedIsSecured
  <2>3. \A i : Secured(i) => Secured(i)'
    BY <1>1 DEF Secured, Lacking, Holds, HeldByOthers, Wanted
  <2>4. \A i \in {booking[p].id} : Secured(i)'
    BY <2>2, <2>3
  <2> QED BY <1>1, <1>3, <2>4, PlaceIdle, OwingHandler, NoTableWritten DEF PlaceEffect
<1> QED BY <1>2, <1>3 DEF ReserveRead

LEMMA ReserveCommitEffects == ASSUME AInv, CInv, NEW p \in Procs, ReserveCommit(p) PROVE Effects(p)
<1> DEFINE row == booking[p].row
           one(n) == [id |-> booking[p].id, nth |-> n, asset |-> row.assets[n],
                      start |-> row.start, end |-> row.start + row.duration]
           made == {one(n) : n \in DOMAIN row.assets}
<1>1. Owes(p) /\ Is(p, "reserving") /\ UNCHANGED <<ledger, appointment>> /\ Done(p)
  BY DEF ReserveCommit, Is, Owes, Holding, wvars
<1>2. reservation' = reservation \cup made
  BY DEF ReserveCommit
<1>3. row.assets = appointment[booking[p].id].assets
  BY <1>1 DEF CInv, PlaceOK
<1>4. IsFiniteSet(DOMAIN row.assets)
  <2>1. row.assets \in Seq(Assets)
    BY <1>1, OwingHandler DEF Appointment
  <2>2. DOMAIN row.assets = 1..Len(row.assets) /\ Len(row.assets) \in Nat
    BY <2>1
  <2> QED BY <2>2, FS_Interval
<1>5. IsFiniteSet(made)
  <2> DEFINE f == [n \in DOMAIN row.assets |-> one(n)]
  <2>1. f \in Surjection(DOMAIN row.assets, made)
    BY DEF Surjection
  <2> HIDE DEF f, made
  <2> QED BY <1>4, <2>1, FS_Surjection
<1>6. /\ \A r \in made : r.id = booking[p].id
      /\ \A n \in DOMAIN row.assets : \E r \in made : r.id = booking[p].id /\ r.nth = n
  <2>1. \A n \in DOMAIN row.assets : one(n) \in made /\ one(n).id = booking[p].id /\ one(n).nth = n
    OBVIOUS
  <2>2. \A r \in made : \E n \in DOMAIN row.assets : r = one(n)
    OBVIOUS
  <2> HIDE DEF one, made
  <2> QED BY <2>1, <2>2
<1> HIDE DEF made
<1>7. ReservationEffect(p)
  <2>1. IsFiniteSet(reservation)
    BY DEF CInv
  <2>2. IsFiniteSet(reservation')
    BY <1>2, <1>5, <2>1, FS_Union
  <2> QED BY <1>1, <1>2, <1>6, <2>2 DEF ReservationEffect
<1>8. \A i \in {booking[p].id} : Secured(i)'
  <2>1. \A n \in DOMAIN appointment'[booking[p].id].assets : \E r \in reservation' : r.id = booking[p].id /\ r.nth = n
    BY <1>1, <1>2, <1>3, <1>6
  <2> QED BY <2>1 DEF Secured, Holds
<1>9. PlaceEffect(p)
  BY <1>1, <1>8, PlaceIdle, OwingHandler DEF PlaceEffect
<1>10. LedgerEffect(p) /\ RowEffect(p)
  BY <1>1, OwingHandler DEF LedgerEffect, RowEffect
<1> QED BY <1>7, <1>9, <1>10 DEF Effects

\* A cancellation goes on.
LEMMA CancellationMoves ==
  ASSUME AInv, CInv, NEW p \in Procs, booking[p].pc \in Cancelling,
         booking'[p].pc \in Cancelling \ {"refund", "card_refund"}, booking'[p].id = booking[p].id,
         UNCHANGED appointment,
         booking'[p].pc = "refund_wait" =>
           /\ appointment[booking[p].id].charge # 0
           /\ request'[p].row = appointment[booking[p].id].charge,
         booking'[p].pc = "cancel" =>
           \/ appointment[booking[p].id].charge = 0
           \/ \E j \in DOMAIN ledger' :
                ledger'[j].type = "REFUND" /\ ledger'[j].ref = appointment[booking[p].id].charge
  PROVE  PlaceEffect(p)
<1>1. ~Owes(p) /\ ~Owes(p)' /\ ~Is(p, "insert") /\ booking'[p].pc \notin Creating
  BY DEF Owes, Holding, Is, Cancelling, Creating
<1>2. PlaceOK(p)'
  BY <1>1 DEF PlaceOK, Owes, Refunded, Cancelling
<1> QED BY <1>1, <1>2 DEF PlaceEffect

LEMMA GoesTo ==
  ASSUME AInv, NEW p \in Procs, booking[p].pc \in Cancelling, NEW label, Goto(p, label)
  PROVE  booking'[p].pc = label /\ booking'[p].id = booking[p].id
<1>1. booking'[p] = [booking[p] EXCEPT !.pc = label]
  BY DEF Goto, AInv, TablesOK
<1> QED BY <1>1, CancellingHandler

LEMMA RefundStartsEffects == ASSUME IInv, AInv, CInv, NEW p \in Procs, RefundStarts(p) PROVE Effects(p)
<1>1. booking[p].pc = "refund" /\ booking[p].pc \in Cancelling /\ ~Is(p, "insert")
  BY DEF RefundStarts, Is, Cancelling
<1>2. booking[p].id \in DOMAIN appointment /\ appointment[booking[p].id].charge # 0
  BY <1>1 DEF AInv, WhereOK, Uncharged
<1>3. UNCHANGED <<ledger, appointment, reservation>> /\ Goto(p, "refund_wait")
  BY DEF RefundStarts, RefundChargeCheck
<1>4. request'[p].row = appointment[booking[p].id].charge
  BY DEF RefundStarts, RefundChargeCheck, Start, Idle, IInv, TypeOK
<1>5. booking'[p].pc = "refund_wait" /\ booking'[p].id = booking[p].id
  BY <1>1, <1>3, GoesTo
<1>6. PlaceEffect(p)
  BY <1>1, <1>2, <1>3, <1>4, <1>5, CancellationMoves DEF Cancelling
<1> QED BY <1>1, <1>3, <1>6, NoTableWritten

LEMMA RefundPassesEffects ==
  ASSUME AInv, CInv, NEW p \in Procs, RefundFound(p) \/ CardRefund(p)
  PROVE  Effects(p)
<1> DEFINE c == appointment[booking[p].id].charge
<1>1. booking[p].pc \in Cancelling /\ ~Is(p, "insert")
  BY DEF RefundFound, CardRefund, Is, Cancelling
<1>2. UNCHANGED <<ledger, appointment, reservation>> /\ Goto(p, "cancel")
  BY DEF RefundFound, CardRefund, wvars
<1>3. c = 0 \/ Refunded(c)
  BY RefundsOfAre DEF RefundFound, CardRefund, Is, CInv, PlaceOK
<1>4. booking'[p].pc = "cancel" /\ booking'[p].id = booking[p].id
  BY <1>1, <1>2, GoesTo
<1>5. PlaceEffect(p)
  BY <1>1, <1>2, <1>3, <1>4, CancellationMoves DEF Cancelling, Refunded
<1> QED BY <1>1, <1>2, <1>5, NoTableWritten

LEMMA RefundReadsEffects == ASSUME IInv, AInv, CInv, NEW p \in Procs, RefundReads(p) PROVE Effects(p)
<1>1. /\ booking[p].pc = "refund_wait" /\ booking[p].pc \in Cancelling /\ ~Is(p, "insert")
      /\ UNCHANGED <<ledger, appointment, reservation, booking>> /\ RefundChargeRead(p)
  BY DEF RefundReads, RefundChargeRead, bvars, Is, Cancelling
<1>2. request'[p].row = request[p].row
  <2>1. request[p] \in Local
    BY DEF IInv, TypeOK
  <2>2. request'[p] = [request[p] EXCEPT !.pc = "refund_commit", !.read = wallet[request[p].guest]]
    BY <1>1 DEF RefundChargeRead, IInv, TypeOK
  <2> QED BY <2>1, <2>2 DEF Local
<1>3. appointment[booking[p].id].charge # 0 /\ request[p].row = appointment[booking[p].id].charge
  BY <1>1 DEF CInv, PlaceOK
<1>4. PlaceEffect(p)
  BY <1>1, <1>2, <1>3, CancellationMoves DEF Cancelling
<1> QED BY <1>1, <1>4, NoTableWritten

LEMMA RefundLandsEffects == ASSUME IInv, AInv, CInv, NEW p \in Procs, RefundLands(p) PROVE Effects(p)
<1> DEFINE c == appointment[booking[p].id].charge
<1>1. /\ booking[p].pc = "refund_wait" /\ booking[p].pc \in Cancelling /\ ~Is(p, "insert") /\ Is(p, "refund_wait")
      /\ UNCHANGED <<appointment, reservation>> /\ Goto(p, "cancel")
  BY DEF RefundLands, Is, Cancelling
<1>2. PICK row : ledger' = Append(ledger, row) /\ row.type = "REFUND" /\ row.ref = request[p].row
  BY DEF RefundLands, RefundChargeCommit, RowOf
<1>3. request[p].row = c
  BY <1>1 DEF CInv, PlaceOK
<1>4. Len(ledger) + 1 \in DOMAIN ledger' /\ ledger'[Len(ledger) + 1] = row
  <2>1. ledger \in Seq(Row)
    BY DEF IInv, TypeOK
  <2> QED BY <1>2, <2>1
<1>5. \E j \in DOMAIN ledger' : ledger'[j].type = "REFUND" /\ ledger'[j].ref = c
  BY <1>2, <1>3, <1>4
<1>6. booking'[p].pc = "cancel" /\ booking'[p].id = booking[p].id
  BY <1>1, GoesTo
<1>7. PlaceEffect(p)
  BY <1>1, <1>5, <1>6, CancellationMoves DEF Cancelling
<1>8. LedgerEffect(p)
  BY <1>1, <1>2, OneRow DEF LedgerEffect
<1>9. RowEffect(p) /\ ReservationEffect(p)
  BY <1>1 DEF RowEffect, ReservationEffect, CInv
<1> QED BY <1>7, <1>8, <1>9 DEF Effects

\* The row of the handler is written and the handler ends.
LEMMA RowWrittenEffects ==
  ASSUME AInv, CInv, NEW p \in Procs, booking[p].id \in DOMAIN appointment, NEW row \in Appointment,
         appointment' = [appointment EXCEPT ![booking[p].id] = row], Done(p), UNCHANGED <<ledger, reservation>>,
         ~Is(p, "insert"), ~Owes(p), row.assets = appointment[booking[p].id].assets,
         appointment[booking[p].id].status = "cancelled" =>
           row.status = "cancelled" \/ (StaffWrite(p) /\ booking[p].to # "cancelled"),
         booking[p].pc \in Cancelling => row.status = "cancelled"
  PROVE  Effects(p)
<1>1. appointment \in Seq(Appointment)
  BY DEF AInv
<1>2. /\ appointment'[booking[p].id] = row
      /\ \A i \in DOMAIN appointment : i # booking[p].id => appointment'[i] = appointment[i]
  BY <1>1
<1>3. RowEffect(p)
  BY <1>2 DEF RowEffect
<1>4. PlaceEffect(p)
  BY <1>2, PlaceIdle DEF PlaceEffect
<1> QED BY <1>3, <1>4 DEF Effects, LedgerEffect, ReservationEffect, CInv

LEMMA WriteEffects ==
  ASSUME AInv, CInv, NEW p \in Procs, UpdateWrite(p) \/ CancelWrite(p) \/ StaffWrite(p)
  PROVE  Effects(p)
<1> DEFINE h == booking[p]
           old == appointment[h.id]
<1>1. h \in Handler /\ h.pc \in {"move", "cancel", "staff"}
  BY DEF AInv, TablesOK, UpdateWrite, CancelWrite, StaffWrite, Is
<1>2. h.id \in DOMAIN appointment /\ old \in Appointment
  BY <1>1 DEF AInv, WhereOK, TablesOK, Uncharged
<1>3. Done(p) /\ UNCHANGED <<ledger, reservation>>
  BY DEF UpdateWrite, CancelWrite, StaffWrite, wvars
<1>4. ~Is(p, "insert") /\ ~Owes(p)
  BY <1>1 DEF Is, Owes, Holding
<1>5. CASE UpdateWrite(p)
  <2> DEFINE row == [old EXCEPT !.start = h.start, !.duration = h.duration]
  <2>1. h.start \in Starts /\ h.duration \in Durations
    BY <1>1, <1>5 DEF UpdateWrite, Is, Handler, NoHandler, Creating, Cancelling
  <2>2. /\ row \in Appointment /\ row.assets = old.assets /\ row.status = old.status
    BY <1>2, <2>1 DEF Appointment
  <2>3. appointment' = [appointment EXCEPT ![h.id] = row]
    BY <1>2, <1>5 DEF UpdateWrite
  <2>4. h.pc \notin Cancelling
    BY <1>5 DEF UpdateWrite, Is, Cancelling
  <2> HIDE DEF row
  <2> QED BY <1>2, <1>3, <1>4, <2>2, <2>3, <2>4, RowWrittenEffects
<1>6. CASE CancelWrite(p)
  <2> DEFINE row == [old EXCEPT !.status = "cancelled"]
  <2>1. row \in Appointment /\ row.assets = old.assets /\ row.status = "cancelled"
    BY <1>2 DEF Appointment
  <2>2. appointment' = [appointment EXCEPT ![h.id] = row] /\ Is(p, "cancel")
    BY <1>2, <1>6 DEF CancelWrite
  <2> HIDE DEF row
  <2> QED BY <1>2, <1>3, <1>4, <2>1, <2>2, RowWrittenEffects
<1>7. CASE StaffWrite(p)
  <2> DEFINE row == [old EXCEPT !.status = h.to]
  <2>1. h.to \in {"confirmed", "completed", "cancelled"} /\ h.pc \notin Cancelling
    <3>1. h.pc = "staff"
      BY <1>7 DEF StaffWrite, Is
    <3>2. h \in [pc : {"staff"}, id : Nat, to : {"confirmed", "completed", "cancelled"}]
      BY <1>1, <3>1 DEF Handler, NoHandler, Creating, Cancelling
    <3> HIDE DEF h
    <3> QED BY <3>1, <3>2 DEF Cancelling
  <2>2. row \in Appointment /\ row.assets = old.assets /\ row.status = h.to
    BY <1>2, <2>1 DEF Appointment, Active
  <2>3. appointment' = [appointment EXCEPT ![h.id] = row]
    BY <1>2, <1>7 DEF StaffWrite
  <2>4. row.status = "cancelled" \/ (StaffWrite(p) /\ booking[p].to # "cancelled")
    BY <1>7, <2>2
  <2> HIDE DEF row
  <2> QED BY <1>2, <1>3, <1>4, <2>1, <2>2, <2>3, <2>4, RowWrittenEffects
<1> QED BY <1>5, <1>6, <1>7

LEMMA ContinueEffects ==
  ASSUME IInv, AInv, CInv, ShelfOK, NEW p \in Procs, AContinue(p), wasOff \subseteq wasOff'
  PROVE  Effects(p)
BY PaysEffects, ChargeLandsEffects, InsertEffects, LinkEffects, ReserveReadEffects, ReserveCommitEffects,
   RefundStartsEffects, RefundPassesEffects, RefundReadsEffects, RefundLandsEffects, WriteEffects
   DEF AContinue

-----------------------------------------------------------------------------
(* The theorems.                                                             *)

Claims == faults = 0 => CInv

LEMMA ClaimsInitially == AInit => Claims
<1> SUFFICES ASSUME AInit PROVE CInv
  BY DEF Claims
<1>1. DOMAIN ledger = {} /\ DOMAIN appointment = {} /\ reservation = {} /\ IsFiniteSet(reservation)
  BY FS_EmptySet DEF AInit, Init
<1>2. \A p \in Procs : booking[p].pc = "idle"
  BY DEF AInit, NoHandler
<1>3. \A p \in Procs : ~Owes(p) /\ PlaceOK(p)
  BY <1>2 DEF PlaceOK, Owes, Holding, Creating
<1> QED BY <1>1, <1>3 DEF CInv, ChargeBuysBooking

LEMMA NoFault == ASSUME NEW p \in Procs, ARequest(p) \/ AContinue(p) PROVE faults' = faults
<1>1. CASE ARequest(p)
  <2>1. ASSUME NEW row, BookCheck(p, row) PROVE faults' = faults
    BY <2>1 DEF BookCheck
  <2>2. ASSUME NEW i, NEW start, NEW duration, UpdateRead(p, i, start, duration) PROVE faults' = faults
    BY <2>2 DEF UpdateRead
  <2>3. ASSUME NEW i, CancelRead(p, i) PROVE faults' = faults
    BY <2>3 DEF CancelRead
  <2>4. ASSUME NEW i, NEW to, StaffRead(p, i, to) PROVE faults' = faults
    BY <2>4 DEF StaffRead
  <2> QED BY <1>1, <2>1, <2>2, <2>3, <2>4 DEF ARequest
<1>2. ASSUME \/ ChargeStarts(p) \/ ChargeRefused(p) \/ ChargeLands(p)
             \/ PayByCard(p) \/ CardMissing(p) \/ Insert(p) \/ Link(p)
      PROVE  faults' = faults
  BY <1>2 DEF ChargeStarts, ChargeRefused, ChargeLands, PayByCard, CardMissing, Insert, Link
<1>3. ASSUME \/ ReserveRead(p) \/ ReserveCommit(p) \/ UpdateWrite(p) \/ CancelWrite(p) \/ StaffWrite(p)
      PROVE  faults' = faults
  BY <1>3 DEF ReserveRead, ReserveCommit, UpdateWrite, CancelWrite, StaffWrite
<1>4. ASSUME RefundStarts(p) \/ RefundFound(p) \/ RefundReads(p) \/ RefundLands(p) \/ CardRefund(p)
      PROVE  faults' = faults
  BY <1>4 DEF RefundStarts, RefundFound, RefundReads, RefundLands, CardRefund, bvars
<1> QED BY <1>1, <1>2, <1>3, <1>4 DEF AContinue

\* A step of nobody: the editor's, or none.
LEMMA ShelfStepKeepsClaims ==
  ASSUME CInv, UNCHANGED <<ledger, request, appointment, reservation, booking, faults, overtaken>>,
         wasOff \subseteq wasOff'
  PROVE  CInv'
<1>1. \A p \in Procs : PlaceOK(p)'
  <2> SUFFICES ASSUME NEW p \in Procs PROVE PlaceOK(p)'
    OBVIOUS
  <2>1. PlaceOK(p)
    BY DEF CInv
  <2> QED BY <2>1 DEF PlaceOK, Owes, Refunded
<1>2. ChargeBuysBooking'
  BY DEF CInv, ChargeBuysBooking, Is
<1>3. \A i \in DOMAIN appointment' : Secured(i)' \/ \E p \in Procs : Owes(p)' /\ booking'[p].id = i
  <2> SUFFICES ASSUME NEW i \in DOMAIN appointment
               PROVE  Secured(i)' \/ \E p \in Procs : Owes(p)' /\ booking'[p].id = i
    OBVIOUS
  <2>1. Secured(i) \/ \E p \in Procs : Owes(p) /\ booking[p].id = i
    BY DEF CInv
  <2>2. Secured(i) => Secured(i)'
    BY DEF Secured, Lacking, Holds, HeldByOthers, Wanted
  <2> QED BY <2>1, <2>2 DEF Owes
<1>4. \A p, q \in Procs : Owes(p)' /\ Owes(q)' /\ booking'[p].id = booking'[q].id => p = q
  BY DEF CInv, Owes
<1>5. /\ IsFiniteSet(reservation')
      /\ \A j \in DOMAIN ledger' : ledger'[j].type = "REFUND" =>
           \E i \in DOMAIN appointment' : appointment'[i].charge # 0 /\ appointment'[i].charge = ledger'[j].ref
  BY DEF CInv
<1>6. \A i \in DOMAIN appointment' : appointment'[i].charge # 0 /\ Refunded(appointment[i].charge)' =>
        \/ appointment'[i].status = "cancelled" \/ i \in overtaken'
        \/ \E p \in Procs : booking'[p].pc \in Cancelling /\ booking'[p].id = i
  BY DEF CInv, Refunded
<1> QED BY <1>1, <1>2, <1>3, <1>4, <1>5, <1>6 DEF CInv

LEMMA ClaimsKept == IInv /\ AInv /\ ShelfOK /\ Claims /\ [ANext]_avars => Claims'
<1> SUFFICES ASSUME IInv, AInv, ShelfOK, Claims, [ANext]_avars, faults' = 0 PROVE CInv'
  BY DEF Claims
<1>1. CASE UNCHANGED avars \/ SaveSharedAssets
  <2>1. /\ UNCHANGED <<ledger, request, appointment, reservation, booking, faults, overtaken>>
        /\ wasOff \subseteq wasOff'
    BY <1>1 DEF avars, bvars, wvars, SaveSharedAssets
  <2> QED BY <2>1, ShelfStepKeepsClaims DEF Claims
<1>2. ASSUME NEW p \in Procs, ARequest(p) \/ AContinue(p), BookingActivity PROVE CInv'
  <2>1. faults' = faults
    BY <1>2, NoFault
  <2>2. faults = 0 /\ CInv
    BY <2>1 DEF Claims
  <2>3. BookingStep(p)
    BY <1>2, RequestStepIsSound, ContinueStepIsSound DEF StepIsSound
  <2>4. Remembers(p)
    BY <1>2 DEF BookingActivity, Remembers
  <2>5. Effects(p)
    BY <1>2, <2>2, <2>4, RequestEffects, ContinueEffects DEF Remembers
  <2> QED BY <2>2, <2>3, <2>4, <2>5, EffectsKeepInvariant
<1>3. ASSUME NEW p \in Procs, RefundThrows(p) \/ HandlerStops(p) PROVE FALSE
  BY <1>3 DEF RefundThrows, HandlerStops, AInv, TablesOK
<1>4. BookingActivity => \E p \in Procs : \/ ARequest(p) \/ AContinue(p)
                                          \/ RefundThrows(p) \/ HandlerStops(p)
  BY DEF BookingActivity
<1> QED BY <1>1, <1>2, <1>3, <1>4 DEF ANext

LEMMA ClaimsHold == ASpec => []Claims
BY BookingInvariant, ShelfInvariant, ClaimsInitially, ClaimsKept, PTL DEF ASpec

\* Money taken for a booking buys one, unless a handler was cut short.
THEOREM ChargesBuyBookings == ASpec => []ChargeBuysBooking
<1>1. Claims => ChargeBuysBooking
  BY DEF Claims, CInv, ChargeBuysBooking
<1> QED BY ClaimsHold, <1>1, PTL

\* What a guest is about to cancel was refunded, and what was refunded is
\* cancelled or about to be, unless a handler was cut short or staff, who had
\* read the booking before, moved it on after its refund.
THEOREM CancellationsAreRefunded == ASpec => []CancelledByGuestIsRefunded
<1>1. Claims => CancelledByGuestIsRefunded
  <2> SUFFICES ASSUME CInv, faults = 0 PROVE CancelledByGuestIsRefunded
    BY DEF Claims, CancelledByGuestIsRefunded
  <2>1. \A p \in Procs : Is(p, "cancel") =>
          \/ appointment[booking[p].id].charge = 0 \/ RefundsOf(appointment[booking[p].id].charge) # {}
    BY RefundsOfAre DEF CInv, PlaceOK, Is
  <2>2. \A i \in DOMAIN appointment \ overtaken :
          appointment[i].charge # 0 /\ RefundsOf(appointment[i].charge) # {} =>
            \/ appointment[i].status = "cancelled"
            \/ \E p \in Procs : booking[p].pc \in Cancelling /\ booking[p].id = i
    BY RefundsOfAre DEF CInv
  <2> QED BY <2>1, <2>2 DEF CancelledByGuestIsRefunded
<1> QED BY ClaimsHold, <1>1, PTL

\* A booking without what it selected asked for an asset that was not always
\* offered or for one more often than other bookings leave of it, unless a
\* handler was cut short.
THEOREM AssetsAreLostForAReason == ASpec => []AssetsLostForAReason
<1>1. Claims => AssetsLostForAReason
  BY DEF Claims, CInv, Secured, Lacking, Owes, Holding, AssetsLostForAReason
<1> QED BY ClaimsHold, <1>1, PTL
=============================================================================
