-------------------------- MODULE AppointmentsProofs --------------------------
(* Proofs, for any guests, rooms, bookings and handlers, that bookings do to    *)
(* the wallet only what GuestWallet does, and that a booking paid from the      *)
(* deposit has its own charge.                                                *)
EXTENDS AppointmentsProperties, GuestWalletProofs

-----------------------------------------------------------------------------
(* The inductive invariant.                                                  *)

\* A ledger row that charges what an appointment costs.
IsChargeOf(c, row) ==
  /\ c \in DOMAIN ledger /\ ledger[c].type = "VISIT_CHARGE"
  /\ ledger[c].guest = row.guest /\ ledger[c].amount = row.amount

PaidOK(row) ==
  /\ row.charge # 0 => IsChargeOf(row.charge, row)
  /\ row.method = "BALANCE" => row.charge # 0

Uncharged == {"charge", "charging", "pay"}
Unlinked(p) == Is(p, "insert") /\ booking[p].row.charge # 0

\* Where a handler is and what that says of its row, its id and its request.
WhereOK(p) ==
  LET h == booking[p] IN
  /\ h.pc \in Uncharged \cup {"insert"} => h.id = 0
  /\ h.pc \in Uncharged => h.row.charge = 0
  /\ h.pc = "pay" => h.row.method # "BALANCE"
  /\ h.pc = "charge" => h.row.amount \in Amounts
  /\ h.pc = "charging" => request[p].guest = h.row.guest /\ request[p].amount = h.row.amount
  /\ h.pc = "insert" => PaidOK(h.row)
  /\ Unlinked(p) => ledger[h.row.charge].ref = 0
  /\ h.pc \notin Uncharged \cup {"insert", "idle"} => h.id \in DOMAIN appointment
  /\ h.pc = "link" => h.row.charge # 0 /\ appointment[h.id].charge = h.row.charge
  /\ h.pc = "refund" => appointment[h.id].charge # 0

\* No charge is of two bookings, made or about to be.
ChargesAreDistinct ==
  /\ \A i, j \in DOMAIN appointment :
       appointment[i].charge # 0 /\ appointment[i].charge = appointment[j].charge => i = j
  /\ \A p \in Procs, i \in DOMAIN appointment :
       Unlinked(p) => appointment[i].charge # booking[p].row.charge
  /\ \A p, q \in Procs :
       Unlinked(p) /\ Unlinked(q) /\ booking[p].row.charge = booking[q].row.charge => p = q

Ahead == {p \in Procs : booking[p].pc \in Creating /\ booking[p].id = 0}

AInv ==
  /\ TablesOK
  /\ appointment \in Seq(Appointment)
  /\ \A i \in DOMAIN appointment :
       /\ PaidOK(appointment[i])
       /\ appointment[i].charge # 0 => ledger[appointment[i].charge].ref \in {0, i}
  /\ \A p \in Procs : WhereOK(p)
  /\ ChargesAreDistinct
  /\ Len(appointment) + Cardinality(Ahead) <= MaxBookings

-----------------------------------------------------------------------------
(* What every step does.                                                     *)

\* Charges stay in the ledger; only Link writes one, and names its booking.
ChargesKept(p) ==
  /\ DOMAIN ledger \subseteq DOMAIN ledger'
  /\ \A i \in DOMAIN ledger :
       /\ ledger'[i].type = ledger[i].type /\ ledger'[i].guest = ledger[i].guest
       /\ ledger'[i].amount = ledger[i].amount
       /\ \/ ledger'[i].ref = ledger[i].ref
          \/ Is(p, "link") /\ i = booking[p].row.charge /\ ledger'[i].ref = booking[p].id

SameBooking(old, new) ==
  new.guest = old.guest /\ new.amount = old.amount /\ new.method = old.method /\ new.charge = old.charge

\* Bookings stay in the table; only Insert adds one, that of its handler.
BookingsKept(p) ==
  /\ appointment' \in Seq(Appointment)
  /\ \A i \in DOMAIN appointment : i \in DOMAIN appointment' /\ SameBooking(appointment[i], appointment'[i])
  /\ \/ Len(appointment') = Len(appointment)
        /\ (p \in Ahead' => p \in Ahead \/ RoomForBooking)
     \/ /\ Is(p, "insert") /\ p \notin Ahead'
        /\ Len(appointment') = Len(appointment) + 1
        /\ appointment'[Len(appointment')] = booking[p].row

\* A handler that comes to insert a charged row has just made the charge, or had it.
HandlerStep(p) ==
  /\ booking' = [booking EXCEPT ![p] = booking'[p]] /\ booking'[p] \in Handler
  /\ \A q \in Procs \ {p} : request'[q] = request[q]
  /\ WhereOK(p)'
  /\ Unlinked(p)' => booking'[p].row.charge \notin DOMAIN ledger

BookingStep(p) ==
  /\ ChargesKept(p) /\ BookingsKept(p) /\ HandlerStep(p)
  /\ reservation' \subseteq Reservation /\ \A r \in reservation' : r.id \in DOMAIN appointment'
  /\ faults' \in 0..MaxFaults

LEMMA BookingIndices ==
  ASSUME AInv, NEW p \in Procs, BookingStep(p)
  PROVE  /\ DOMAIN appointment = 1..Len(appointment) /\ DOMAIN appointment' = 1..Len(appointment')
         /\ Len(appointment) \in Nat /\ Len(appointment') \in Nat
         /\ DOMAIN appointment \subseteq DOMAIN appointment'
         /\ \A i \in DOMAIN appointment' \ DOMAIN appointment :
              /\ Is(p, "insert") /\ i = Len(appointment) + 1
              /\ appointment'[i] = booking[p].row
<1>1. appointment \in Seq(Appointment) /\ appointment' \in Seq(Appointment)
  BY DEF AInv, BookingStep, BookingsKept
<1>2. /\ DOMAIN appointment = 1..Len(appointment) /\ DOMAIN appointment' = 1..Len(appointment')
      /\ Len(appointment) \in Nat /\ Len(appointment') \in Nat
  BY <1>1
<1>3. \/ Len(appointment') = Len(appointment)
      \/ /\ Is(p, "insert") /\ Len(appointment') = Len(appointment) + 1
         /\ appointment'[Len(appointment')] = booking[p].row
  BY DEF BookingStep, BookingsKept
<1> DEFINE n == Len(appointment)
           m == Len(appointment')
<1>4. n \in Nat /\ m \in Nat /\ m \in {n, n + 1}
  BY <1>2, <1>3
<1>5. DOMAIN appointment \subseteq DOMAIN appointment'
  <2> HIDE DEF n, m
  <2>1. 1..n \subseteq 1..m
    BY <1>4
  <2> QED BY <2>1, <1>2 DEF n, m
<1>6. ASSUME NEW i \in DOMAIN appointment' \ DOMAIN appointment
      PROVE  i = n + 1 /\ m = n + 1
  <2>1. i \in (1..m) \ (1..n)
    BY <1>2, <1>6
  <2> HIDE DEF n, m
  <2> QED BY <1>4, <2>1
<1>7. \A i \in DOMAIN appointment' \ DOMAIN appointment :
        Is(p, "insert") /\ i = n + 1 /\ appointment'[i] = booking[p].row
  BY <1>2, <1>3, <1>6
<1> QED BY <1>2, <1>5, <1>7

LEMMA OthersKept ==
  ASSUME AInv, NEW p \in Procs, BookingStep(p), NEW q \in Procs, q # p
  PROVE  WhereOK(q)' /\ (Unlinked(q)' <=> Unlinked(q)) /\ booking'[q] = booking[q] /\ request'[q] = request[q]
<1>1. booking'[q] = booking[q] /\ request'[q] = request[q]
  BY DEF BookingStep, HandlerStep, AInv, TablesOK
<1>2. Unlinked(q)' <=> Unlinked(q)
  BY <1>1 DEF Unlinked, Is
<1>3. WhereOK(q)
  BY DEF AInv
<1>4. Is(q, "insert") => PaidOK(booking[q].row)'
  BY <1>3, <1>1 DEF WhereOK, PaidOK, IsChargeOf, BookingStep, ChargesKept, Is
<1>5. Unlinked(q) => ledger'[booking[q].row.charge].ref = 0
  <2> SUFFICES ASSUME Unlinked(q) PROVE ledger'[booking[q].row.charge].ref = 0
    OBVIOUS
  <2>1. booking[q].row.charge \in DOMAIN ledger /\ ledger[booking[q].row.charge].ref = 0
    BY <1>3 DEF WhereOK, Unlinked, PaidOK, IsChargeOf, Is
  <2>2. Is(p, "link") => booking[p].row.charge # booking[q].row.charge
    BY DEF AInv, ChargesAreDistinct, WhereOK, Is, Uncharged
  <2> QED BY <2>1, <2>2 DEF BookingStep, ChargesKept
<1>6. \A i \in DOMAIN appointment : i \in DOMAIN appointment' /\ appointment'[i].charge = appointment[i].charge
  BY DEF BookingStep, BookingsKept, SameBooking
<1>7. WhereOK(q)'
  BY <1>1, <1>3, <1>4, <1>5, <1>6 DEF WhereOK, PaidOK, IsChargeOf, Is, Unlinked, Uncharged
<1> QED BY <1>1, <1>2, <1>7

LEMMA PaymentsKept ==
  ASSUME AInv, NEW p \in Procs, BookingStep(p), NEW i \in DOMAIN appointment'
  PROVE  /\ PaidOK(appointment[i])'
         /\ appointment'[i].charge # 0 => ledger'[appointment'[i].charge].ref \in {0, i}
<1>1. CASE i \in DOMAIN appointment
  <2>1. SameBooking(appointment[i], appointment'[i])
    BY <1>1 DEF BookingStep, BookingsKept
  <2>2. PaidOK(appointment[i]) /\ (appointment[i].charge # 0 => ledger[appointment[i].charge].ref \in {0, i})
    BY <1>1 DEF AInv
  <2>3. PaidOK(appointment[i])'
    BY <2>1, <2>2 DEF PaidOK, IsChargeOf, SameBooking, BookingStep, ChargesKept
  <2>4. ASSUME Is(p, "link"), appointment[i].charge = booking[p].row.charge
        PROVE  booking[p].id = i
    BY <1>1, <2>4 DEF AInv, ChargesAreDistinct, WhereOK, Is, Uncharged
  <2> QED BY <2>1, <2>2, <2>3, <2>4 DEF PaidOK, IsChargeOf, SameBooking, BookingStep, ChargesKept
<1>2. CASE i \notin DOMAIN appointment
  <2>1. Is(p, "insert") /\ appointment'[i] = booking[p].row
    BY <1>2, BookingIndices
  <2>2. PaidOK(booking[p].row) /\ (booking[p].row.charge # 0 => ledger[booking[p].row.charge].ref = 0)
    BY <2>1 DEF AInv, WhereOK, Unlinked, Is
  <2>3. ~Is(p, "link")
    BY <2>1 DEF Is
  <2> QED BY <2>1, <2>2, <2>3 DEF PaidOK, IsChargeOf, BookingStep, ChargesKept
<1> QED BY <1>1, <1>2

LEMMA DistinctKept == ASSUME AInv, NEW p \in Procs, BookingStep(p) PROVE ChargesAreDistinct'
<1>1. \A i \in DOMAIN appointment : appointment'[i].charge = appointment[i].charge
  BY DEF BookingStep, BookingsKept, SameBooking
<1>2. \A i \in DOMAIN appointment : appointment[i].charge # 0 => appointment[i].charge \in DOMAIN ledger
  BY DEF AInv, PaidOK, IsChargeOf
<1>3. \A q \in Procs : Unlinked(q) => booking[q].row.charge \in DOMAIN ledger
  BY DEF AInv, WhereOK, PaidOK, IsChargeOf, Unlinked, Is
<1>4. \A i \in DOMAIN appointment' : appointment'[i].charge # 0 => 
        \/ i \in DOMAIN appointment /\ appointment'[i].charge = appointment[i].charge
        \/ /\ Unlinked(p) /\ appointment'[i].charge = booking[p].row.charge
           /\ i = Len(appointment) + 1
  BY <1>1, BookingIndices DEF Unlinked
<1>5. \A i, j \in DOMAIN appointment' :
        appointment'[i].charge # 0 /\ appointment'[i].charge = appointment'[j].charge => i = j
  BY <1>4 DEF AInv, ChargesAreDistinct
<1>6. \A q \in Procs : Unlinked(q)' =>
        \/ q # p /\ Unlinked(q) /\ booking'[q] = booking[q]
        \/ q = p /\ booking'[p].row.charge \notin DOMAIN ledger
  BY OthersKept DEF BookingStep, HandlerStep
<1>7. \A q \in Procs : Unlinked(q)' => booking'[q].row.charge # 0
  BY DEF Unlinked
<1>8. \A q \in Procs, i \in DOMAIN appointment' : Unlinked(q)' => appointment'[i].charge # booking'[q].row.charge
  BY <1>2, <1>3, <1>4, <1>6, <1>7 DEF AInv, ChargesAreDistinct
<1>9. \A q, r \in Procs : Unlinked(q)' /\ Unlinked(r)' /\ booking'[q].row.charge = booking'[r].row.charge => q = r
  BY <1>3, <1>6 DEF AInv, ChargesAreDistinct
<1> QED BY <1>5, <1>8, <1>9 DEF ChargesAreDistinct

LEMMA AheadIsBounded ==
  ASSUME AInv, NEW p \in Procs, BookingStep(p)
  PROVE  Len(appointment') + Cardinality(Ahead') <= MaxBookings
<1>1. IsFiniteSet(Ahead) /\ IsFiniteSet(Ahead')
  BY FS_Subset, WalletAssumption DEF Ahead
<1>2. Cardinality(Ahead) \in Nat /\ Cardinality(Ahead') \in Nat /\ MaxBookings \in Nat
  BY <1>1, FS_CardinalityType, AppointmentsAssumption
<1>3. \A q \in Procs \ {p} : q \in Ahead' <=> q \in Ahead
  BY OthersKept DEF Ahead
<1>4. Len(appointment) \in Nat /\ Len(appointment') \in Nat
  BY BookingIndices
<1>5. CASE Len(appointment') = Len(appointment) /\ (p \in Ahead' => p \in Ahead)
  <2>1. Ahead' \subseteq Ahead
    BY <1>3, <1>5 DEF Ahead
  <2>2. Cardinality(Ahead') <= Cardinality(Ahead)
    BY <2>1, <1>1, FS_Subset
  <2> QED BY <2>2, <1>2, <1>4, <1>5 DEF AInv
<1>6. CASE Len(appointment') = Len(appointment) /\ RoomForBooking
  <2>1. Len(appointment) + Cardinality(Ahead) < MaxBookings
    BY <1>6 DEF RoomForBooking, Ahead
  <2>2. Ahead' \subseteq Ahead \cup {p}
    BY <1>3 DEF Ahead
  <2>3. IsFiniteSet(Ahead \cup {p}) /\ Cardinality(Ahead \cup {p}) <= Cardinality(Ahead) + 1
    <3>1. IsFiniteSet(Ahead \cup {p})
      BY <1>1, FS_AddElement
    <3>2. Cardinality(Ahead \cup {p}) = IF p \in Ahead THEN Cardinality(Ahead) ELSE Cardinality(Ahead) + 1
      BY <1>1, FS_AddElement
    <3> QED BY <3>1, <3>2, <1>2
  <2>4. Cardinality(Ahead') <= Cardinality(Ahead \cup {p})
    BY <2>2, <2>3, FS_Subset
  <2>5. Cardinality(Ahead \cup {p}) \in Nat
    BY <2>3, FS_CardinalityType
  <2> QED BY <2>1, <2>3, <2>4, <2>5, <1>2, <1>4, <1>6
<1>7. CASE Is(p, "insert") /\ p \notin Ahead' /\ Len(appointment') = Len(appointment) + 1
  <2>1. p \in Ahead
    BY <1>7 DEF AInv, WhereOK, Ahead, Is, Creating
  <2>2. Ahead' = Ahead \ {p}
    BY <1>3, <1>7 DEF Ahead
  <2>3. Cardinality(Ahead') = Cardinality(Ahead) - 1
    BY <1>1, <2>1, <2>2, FS_RemoveElement
  <2> QED BY <2>3, <1>2, <1>4, <1>7 DEF AInv
<1> QED BY <1>5, <1>6, <1>7 DEF BookingStep, BookingsKept

LEMMA BookingTypesKept == ASSUME AInv, NEW p \in Procs, BookingStep(p) PROVE TablesOK'
<1>1. booking' \in [Procs -> Handler]
  BY DEF AInv, TablesOK, BookingStep, HandlerStep
<1>2. \A q \in Procs : WhereOK(q)'
  BY OthersKept DEF BookingStep, HandlerStep
<1>3. \A q \in Procs : ~Is(q, "idle")' => booking'[q].id \in {0} \cup DOMAIN appointment'
  BY <1>2 DEF WhereOK, Is
<1>4. \A i \in DOMAIN appointment' : appointment'[i] \in Appointment
  BY BookingIndices DEF BookingStep, BookingsKept
<1> QED BY <1>1, <1>3, <1>4 DEF TablesOK, BookingStep

LEMMA BookingStepKeepsInvariant == ASSUME AInv, NEW p \in Procs, BookingStep(p) PROVE AInv'
<1>1. \A q \in Procs : WhereOK(q)'
  BY OthersKept DEF BookingStep, HandlerStep
<1> QED BY <1>1, PaymentsKept, DistinctKept, AheadIsBounded, BookingTypesKept DEF AInv, BookingStep, BookingsKept

-----------------------------------------------------------------------------
(* The steps of a handler.                                                   *)

\* What a step does to the wallet is done by GuestWallet.
StepIsSound(p) == (UNCHANGED wvars \/ Next) /\ BookingStep(p)

LEMMA CreatingHandler ==
  ASSUME AInv, NEW p \in Procs, booking[p].pc \in Creating
  PROVE  booking[p] \in [pc : Creating, row : Appointment, id : Nat]
BY DEF AInv, TablesOK, Handler, NoHandler, Creating, Cancelling

LEMMA CancellingHandler ==
  ASSUME AInv, NEW p \in Procs, booking[p].pc \in Cancelling
  PROVE  booking[p] \in [pc : Cancelling, id : Nat]
BY DEF AInv, TablesOK, Handler, NoHandler, Creating, Cancelling

LEMMA NoWalletStep ==
  ASSUME UNCHANGED wvars, NEW p \in Procs
  PROVE  ChargesKept(p) /\ UNCHANGED request
BY DEF ChargesKept, wvars

\* A step that writes no appointment.
LEMMA OnlyHandler ==
  ASSUME AInv, NEW p \in Procs, NEW h \in Handler, booking' = [booking EXCEPT ![p] = h],
         UNCHANGED <<appointment, reservation>>, faults' \in 0..MaxFaults,
         ChargesKept(p), \A q \in Procs \ {p} : request'[q] = request[q],
         WhereOK(p)',
         h.pc = "insert" => h.row.charge = 0 \/ h.row.charge \notin DOMAIN ledger,
         h.pc \in Creating /\ h.id = 0 => p \in Ahead \/ RoomForBooking
  PROVE  BookingStep(p)
<1>1. booking'[p] = h
  BY DEF AInv, TablesOK
<1>2. HandlerStep(p)
  BY <1>1 DEF HandlerStep, Unlinked, Is
<1>3. BookingsKept(p)
  BY <1>1 DEF BookingsKept, SameBooking, AInv, Ahead
<1> QED BY <1>2, <1>3 DEF BookingStep, AInv, TablesOK

LEMMA HandlerEnds ==
  ASSUME AInv, NEW p \in Procs, Done(p), UNCHANGED <<appointment, reservation>>, faults' \in 0..MaxFaults,
         ChargesKept(p), \A q \in Procs \ {p} : request'[q] = request[q]
  PROVE  BookingStep(p)
<1>1. NoHandler \in Handler
  BY DEF Handler
<1>2. booking'[p] = NoHandler
  BY DEF Done, Become, AInv, TablesOK
<1>3. WhereOK(p)'
  BY <1>2 DEF WhereOK, Is, Unlinked, NoHandler, Uncharged
<1> QED BY <1>1, <1>3, OnlyHandler DEF Done, Become, NoHandler, Creating

\* A handler that creates a booking comes to another place with the same row.
LEMMA CreatingGoes ==
  ASSUME AInv, NEW p \in Procs, booking[p].pc \in Creating, NEW label \in Creating, Goto(p, label),
         label # "insert", UNCHANGED <<appointment, reservation, faults>>,
         ChargesKept(p), \A q \in Procs \ {p} : request'[q] = request[q],
         WhereOK(p)'
  PROVE  BookingStep(p)
<1> DEFINE h == [booking[p] EXCEPT !.pc = label]
<1>1. h \in [pc : Creating, row : Appointment, id : Nat]
  BY CreatingHandler
<1>2. h \in Handler
  BY <1>1 DEF Handler
<1>3. booking' = [booking EXCEPT ![p] = h]
  BY DEF Goto
<1>4. h.pc = label /\ h.id = booking[p].id
  BY CreatingHandler
<1>5. faults' \in 0..MaxFaults
  BY DEF AInv, TablesOK
<1>6. h.id = 0 => p \in Ahead
  BY <1>4 DEF Ahead
<1> QED BY <1>2, <1>3, <1>4, <1>5, <1>6, OnlyHandler

LEMMA BookCheckStep ==
  ASSUME IInv, AInv, NEW p \in Procs, NEW row \in Appointment, row.charge = 0, row.amount \in Amounts,
         RoomForBooking, BookCheck(p, row)
  PROVE  StepIsSound(p)
<1> DEFINE pc == CASE row.method = "BALANCE" -> "charge" [] row.method = "CARD" -> "pay"
                   [] row.method = "CASH" -> "insert"
           h == [pc |-> pc, row |-> row, id |-> 0]
<1>1. row.method \in {"BALANCE", "CARD", "CASH"}
  BY AppointmentsAssumption DEF Appointment
<1>2. pc \in {"charge", "pay", "insert"} /\ (pc = "pay" => row.method # "BALANCE")
      /\ (pc = "insert" => row.method # "BALANCE")
  BY <1>1
<1>3. booking' = [booking EXCEPT ![p] = h]
  BY DEF BookCheck, Become
<1> HIDE DEF pc
<1>4. h \in Handler
  BY <1>2 DEF Handler, Creating
<1>5. booking'[p] = h
  BY <1>3 DEF AInv, TablesOK
<1>6. WhereOK(p)'
  BY <1>2, <1>5 DEF WhereOK, Is, Unlinked, PaidOK, Uncharged
<1>7. UNCHANGED wvars /\ UNCHANGED <<appointment, reservation, faults>> /\ RoomForBooking
  BY DEF BookCheck
<1>8. faults' \in 0..MaxFaults
  BY <1>7 DEF AInv, TablesOK
<1>9. BookingStep(p)
  BY <1>3, <1>4, <1>6, <1>7, <1>8, NoWalletStep, OnlyHandler
<1> QED BY <1>7, <1>9 DEF StepIsSound

LEMMA ChargeStartsStep == ASSUME IInv, AInv, NEW p \in Procs, ChargeStarts(p) PROVE StepIsSound(p)
<1> DEFINE row == booking[p].row
<1>1. booking[p].pc = "charge" /\ booking[p].pc \in Creating
  BY DEF ChargeStarts, Is, Creating
<1>2. booking[p] \in [pc : Creating, row : Appointment, id : Nat]
  BY <1>1, CreatingHandler
<1>3. row.guest \in Guests /\ row.amount \in Amounts /\ row.charge = 0 /\ booking[p].id = 0
  BY <1>1, <1>2 DEF AInv, WhereOK, Appointment, Uncharged
<1>4. ChargeRead(p, row.guest, row.amount)
  BY DEF ChargeStarts
<1>5. Next
  BY <1>3, <1>4 DEF Next, Request
<1>6. UNCHANGED ledger /\ \A q \in Procs \ {p} : request'[q] = request[q]
  BY <1>4 DEF ChargeRead, Start, IInv, TypeOK
<1>7. request'[p].guest = row.guest /\ request'[p].amount = row.amount
  BY <1>4 DEF ChargeRead, Start, IInv, TypeOK, Idle
<1>8. booking'[p] = [booking[p] EXCEPT !.pc = "charging"]
  BY DEF ChargeStarts, Goto, AInv, TablesOK
<1>9. booking'[p].pc = "charging" /\ booking'[p].row = row /\ booking'[p].id = 0
  BY <1>2, <1>3, <1>8
<1>10. WhereOK(p)'
  BY <1>3, <1>7, <1>9 DEF WhereOK, Is, Unlinked, Uncharged
<1>11. ChargesKept(p)
  BY <1>6 DEF ChargesKept
<1>12. BookingStep(p)
  BY <1>1, <1>6, <1>10, <1>11, CreatingGoes DEF ChargeStarts, Creating
<1> QED BY <1>5, <1>12 DEF StepIsSound

\* A row appended to the ledger by the request of p.
LEMMA ChargeAppended ==
  ASSUME IInv, NEW p \in Procs, NEW row, ledger' = Append(ledger, row), Finish(p)
  PROVE  /\ ChargesKept(p) /\ \A q \in Procs \ {p} : request'[q] = request[q]
         /\ Len(ledger) + 1 \in DOMAIN ledger' /\ ledger'[Len(ledger) + 1] = row
         /\ Len(ledger) + 1 \notin DOMAIN ledger /\ Len(ledger) \in Nat
<1>1. ledger \in Seq(Row)
  BY DEF IInv, TypeOK
<1>2. /\ DOMAIN ledger = 1..Len(ledger) /\ DOMAIN ledger' = 1..(Len(ledger) + 1)
      /\ Len(ledger) \in Nat /\ ledger'[Len(ledger) + 1] = row
      /\ \A i \in 1..Len(ledger) : ledger'[i] = ledger[i]
  BY <1>1
<1>3. \A q \in Procs \ {p} : request'[q] = request[q]
  BY DEF Finish, IInv, TypeOK
<1> QED BY <1>2, <1>3 DEF ChargesKept

LEMMA ChargeLandsStep == ASSUME IInv, AInv, NEW p \in Procs, ChargeLands(p) PROVE StepIsSound(p)
<1> DEFINE n == Len(ledger) + 1
           h == [booking[p] EXCEPT !.pc = "insert", !.row.charge = n]
<1>1. booking[p].pc = "charging" /\ booking[p].pc \in Creating
  BY DEF ChargeLands, Is, Creating
<1>2. booking[p] \in [pc : Creating, row : Appointment, id : Nat]
  BY <1>1, CreatingHandler
<1>3. /\ booking[p].id = 0
      /\ request[p].guest = booking[p].row.guest /\ request[p].amount = booking[p].row.amount
  BY <1>1 DEF AInv, WhereOK, Uncharged
<1>4. ChargeCommit(p)
  BY DEF ChargeLands
<1>5. Next
  BY <1>4 DEF Next, Continue
<1>6. PICK new : /\ ledger' = Append(ledger, new) /\ Finish(p)
                 /\ new.type = "VISIT_CHARGE" /\ new.guest = request[p].guest
                 /\ new.amount = request[p].amount /\ new.ref = 0
  BY <1>4 DEF ChargeCommit, RowOf
<1>7. /\ ChargesKept(p) /\ \A q \in Procs \ {p} : request'[q] = request[q]
      /\ n \in DOMAIN ledger' /\ ledger'[n] = new /\ n \notin DOMAIN ledger /\ n \in Nat /\ n # 0
  BY <1>6, ChargeAppended
<1>8. booking' = [booking EXCEPT ![p] = h]
  BY DEF ChargeLands, Become
<1>9. /\ h \in [pc : Creating, row : Appointment, id : Nat] /\ h.pc = "insert" /\ h.id = 0
      /\ h.row.charge = n /\ h.row.guest = booking[p].row.guest /\ h.row.amount = booking[p].row.amount
  BY <1>2, <1>3, <1>7 DEF Creating, Appointment
<1> HIDE DEF h, n
<1>10. h \in Handler
  BY <1>9 DEF Handler
<1>11. booking'[p] = h
  BY <1>8 DEF AInv, TablesOK
<1>12. WhereOK(p)'
  BY <1>3, <1>6, <1>7, <1>9, <1>11 DEF WhereOK, Is, Unlinked, Uncharged, PaidOK, IsChargeOf
<1>13. p \in Ahead /\ UNCHANGED <<appointment, reservation>> /\ faults' \in 0..MaxFaults
  BY <1>1, <1>3 DEF Ahead, ChargeLands, AInv, TablesOK
<1>14. BookingStep(p)
  BY <1>7, <1>8, <1>9, <1>10, <1>12, <1>13, OnlyHandler
<1> QED BY <1>5, <1>14 DEF StepIsSound

LEMMA PayByCardStep == ASSUME IInv, AInv, NEW p \in Procs, PayByCard(p) PROVE StepIsSound(p)
<1>1. booking[p].pc = "pay" /\ booking[p].pc \in Creating
  BY DEF PayByCard, Is, Creating
<1>2. booking[p] \in [pc : Creating, row : Appointment, id : Nat]
  BY <1>1, CreatingHandler
<1>3. booking[p].id = 0 /\ booking[p].row.charge = 0 /\ booking[p].row.method # "BALANCE"
  BY <1>1 DEF AInv, WhereOK, Uncharged
<1>4. PICK status \in {"COMPLETED", "FAILED"} :
        booking' = [booking EXCEPT ![p] = [booking[p] EXCEPT !.pc = "insert", !.row.card = status]]
  BY DEF PayByCard, Become
<1> DEFINE h == [booking[p] EXCEPT !.pc = "insert", !.row.card = status]
<1>5. /\ h \in [pc : Creating, row : Appointment, id : Nat] /\ h.pc = "insert" /\ h.id = 0
      /\ h.row.charge = 0 /\ h.row.method # "BALANCE"
  BY <1>2, <1>3 DEF Creating, Appointment
<1> HIDE DEF h
<1>6. h \in Handler
  BY <1>5 DEF Handler
<1>7. booking' = [booking EXCEPT ![p] = h] /\ booking'[p] = h
  BY <1>4 DEF AInv, TablesOK, h
<1>8. WhereOK(p)'
  BY <1>5, <1>7 DEF WhereOK, Is, Unlinked, Uncharged, PaidOK
<1>9. p \in Ahead /\ UNCHANGED wvars /\ UNCHANGED <<appointment, reservation>> /\ faults' \in 0..MaxFaults
  BY <1>1, <1>3 DEF Ahead, PayByCard, AInv, TablesOK
<1>10. BookingStep(p)
  BY <1>5, <1>6, <1>7, <1>8, <1>9, NoWalletStep, OnlyHandler
<1> QED BY <1>9, <1>10 DEF StepIsSound

LEMMA EndsStep == ASSUME IInv, AInv, NEW p \in Procs, ChargeRefused(p) \/ CardMissing(p) PROVE StepIsSound(p)
<1>1. UNCHANGED wvars /\ Done(p) /\ UNCHANGED <<appointment, reservation, faults>>
  BY DEF ChargeRefused, CardMissing
<1>2. faults' \in 0..MaxFaults
  BY <1>1 DEF AInv, TablesOK
<1>3. BookingStep(p)
  BY <1>1, <1>2, NoWalletStep, HandlerEnds
<1> QED BY <1>1, <1>3 DEF StepIsSound

LEMMA InsertStep == ASSUME IInv, AInv, NEW p \in Procs, Insert(p) PROVE StepIsSound(p)
<1> DEFINE n == Len(appointment) + 1
           h == [booking[p] EXCEPT !.pc = IF booking[p].row.charge # 0 THEN "link" ELSE "reserve", !.id = n]
<1>1. booking[p].pc = "insert" /\ booking[p].pc \in Creating
  BY DEF Insert, Is, Creating
<1>2. booking[p] \in [pc : Creating, row : Appointment, id : Nat]
  BY <1>1, CreatingHandler
<1>3. /\ appointment \in Seq(Appointment) /\ booking[p].row \in Appointment
      /\ appointment' = Append(appointment, booking[p].row)
  BY <1>2 DEF AInv, Insert
<1>4. /\ appointment' \in Seq(Appointment) /\ Len(appointment') = n /\ n \in Nat /\ n # 0
      /\ DOMAIN appointment' = 1..n /\ DOMAIN appointment = 1..Len(appointment)
      /\ appointment'[n] = booking[p].row
      /\ \A i \in 1..Len(appointment) : appointment'[i] = appointment[i]
  BY <1>3
<1>5. booking' = [booking EXCEPT ![p] = h]
  BY DEF Insert, Become
<1>6. /\ h \in [pc : Creating, row : Appointment, id : Nat] /\ h.pc \in {"link", "reserve"} /\ h.id = n
      /\ h.row = booking[p].row /\ (h.pc = "link" => h.row.charge # 0)
  BY <1>2, <1>4 DEF Creating
<1>7. \A i \in DOMAIN appointment : i \in DOMAIN appointment' /\ appointment'[i] = appointment[i]
  BY <1>4
<1>8. n \in DOMAIN appointment'
  BY <1>4
<1> HIDE DEF h
<1>9. h \in Handler
  BY <1>6 DEF Handler
<1>10. booking'[p] = h
  BY <1>5 DEF AInv, TablesOK
<1>11. WhereOK(p)'
  BY <1>4, <1>6, <1>8, <1>10 DEF WhereOK, Is, Unlinked, Uncharged
<1>12. UNCHANGED wvars /\ UNCHANGED <<reservation, faults>>
  BY DEF Insert
<1>13. HandlerStep(p)
  BY <1>5, <1>6, <1>9, <1>10, <1>11, <1>12, NoWalletStep DEF HandlerStep, Unlinked, Is
<1>14. p \notin Ahead'
  BY <1>4, <1>6, <1>10 DEF Ahead
<1>15. BookingsKept(p)
  BY <1>1, <1>4, <1>7, <1>14 DEF BookingsKept, SameBooking, Is
<1>16. reservation' \subseteq Reservation /\ \A r \in reservation' : r.id \in DOMAIN appointment'
  BY <1>7, <1>12 DEF AInv, TablesOK
<1>17. BookingStep(p)
  BY <1>12, <1>13, <1>15, <1>16, NoWalletStep DEF BookingStep, AInv, TablesOK
<1> QED BY <1>12, <1>17 DEF StepIsSound

LEMMA LinkStepIsSound == ASSUME IInv, AInv, NEW p \in Procs, Link(p) PROVE StepIsSound(p)
<1> DEFINE c == booking[p].row.charge
           id == booking[p].id
<1>1. booking[p].pc = "link" /\ booking[p].pc \in Creating
  BY DEF Link, Is, Creating
<1>2. booking[p] \in [pc : Creating, row : Appointment, id : Nat]
  BY <1>1, CreatingHandler
<1>3. id \in DOMAIN appointment /\ c # 0 /\ appointment[id].charge = c
  BY <1>1 DEF AInv, WhereOK, Uncharged
<1>4. c \in DOMAIN ledger
  BY <1>3 DEF AInv, PaidOK, IsChargeOf
<1>5. id \in References
  <2>1. DOMAIN appointment = 1..Len(appointment) /\ Len(appointment) \in Nat
    BY DEF AInv
  <2>2. Cardinality(Ahead) \in Nat
    BY FS_Subset, FS_CardinalityType, WalletAssumption DEF Ahead
  <2>3. Len(appointment) <= MaxBookings
    BY <2>1, <2>2, AppointmentsAssumption DEF AInv
  <2> QED BY <1>3, <2>1, <2>3, AppointmentsAssumption
<1>6. LinkDepositChargeReference(c, id)
  BY DEF Link
<1>7. Next
  BY <1>4, <1>5, <1>6 DEF Next
<1>8. ledger' = [ledger EXCEPT ![c].ref = id] /\ UNCHANGED request
  BY <1>6 DEF LinkDepositChargeReference
<1>9. ledger \in [DOMAIN ledger -> Row]
  <2>1. ledger \in Seq(Row)
    BY DEF IInv, TypeOK
  <2> QED BY <2>1
<1>10. ChargesKept(p)
  <2>1. DOMAIN ledger' = DOMAIN ledger /\ \A i \in DOMAIN ledger : i # c => ledger'[i] = ledger[i]
    BY <1>8, <1>9
  <2>2. ledger'[c] = [ledger[c] EXCEPT !.ref = id]
    BY <1>4, <1>8, <1>9
  <2>3. /\ ledger'[c].type = ledger[c].type /\ ledger'[c].guest = ledger[c].guest
        /\ ledger'[c].amount = ledger[c].amount /\ ledger'[c].ref = id
    BY <1>4, <1>9, <2>2 DEF Row
  <2> QED BY <1>1, <2>1, <2>3 DEF ChargesKept, Is
<1>11. booking'[p] = [booking[p] EXCEPT !.pc = "reserve"]
  BY DEF Link, Goto, AInv, TablesOK
<1>12. booking'[p].pc = "reserve" /\ booking'[p].id = id
  BY <1>2, <1>11
<1>13. UNCHANGED appointment
  BY DEF Link
<1>14. WhereOK(p)'
  BY <1>3, <1>12, <1>13 DEF WhereOK, Is, Unlinked, Uncharged
<1>15. BookingStep(p)
  BY <1>1, <1>8, <1>10, <1>14, CreatingGoes DEF Link, Creating
<1> QED BY <1>7, <1>15 DEF StepIsSound

LEMMA ReserveReadStep == ASSUME IInv, AInv, NEW p \in Procs, ReserveRead(p) PROVE StepIsSound(p)
<1>1. booking[p].pc = "reserve" /\ booking[p].pc \in Creating
  BY DEF ReserveRead, Is, Creating
<1>2. booking[p] \in [pc : Creating, row : Appointment, id : Nat]
  BY <1>1, CreatingHandler
<1>3. booking[p].id \in DOMAIN appointment
  BY <1>1 DEF AInv, WhereOK, Uncharged
<1>4. UNCHANGED wvars /\ UNCHANGED <<appointment, reservation, faults>>
  BY DEF ReserveRead
<1>5. ChargesKept(p) /\ UNCHANGED request
  BY <1>4, NoWalletStep
<1>6. CASE Goto(p, "reserving")
  <2>1. booking'[p] = [booking[p] EXCEPT !.pc = "reserving"]
    BY <1>6 DEF Goto, AInv, TablesOK
  <2>2. booking'[p].pc = "reserving" /\ booking'[p].id = booking[p].id
    BY <1>2, <2>1
  <2>3. WhereOK(p)'
    BY <1>3, <1>4, <2>2 DEF WhereOK, Is, Unlinked, Uncharged
  <2>4. BookingStep(p)
    BY <1>1, <1>4, <1>5, <1>6, <2>3, CreatingGoes DEF Creating
  <2> QED BY <1>4, <2>4 DEF StepIsSound
<1>7. CASE Done(p)
  <2>1. faults' \in 0..MaxFaults
    BY <1>4 DEF AInv, TablesOK
  <2>2. BookingStep(p)
    BY <1>4, <1>5, <1>7, <2>1, HandlerEnds
  <2> QED BY <1>4, <2>2 DEF StepIsSound
<1> QED BY <1>6, <1>7 DEF ReserveRead

LEMMA ReserveCommitStep == ASSUME IInv, AInv, NEW p \in Procs, ReserveCommit(p) PROVE StepIsSound(p)
<1>1. booking[p].pc = "reserving" /\ booking[p].pc \in Creating
  BY DEF ReserveCommit, Is, Creating
<1>2. booking[p] \in [pc : Creating, row : Appointment, id : Nat]
  BY <1>1, CreatingHandler
<1>3. booking[p].id \in DOMAIN appointment
  BY <1>1 DEF AInv, WhereOK, Uncharged
<1>4. UNCHANGED wvars /\ UNCHANGED <<appointment, faults>> /\ Done(p)
  BY DEF ReserveCommit
<1>5. \A r \in reservation' : r \in Reservation /\ r.id \in DOMAIN appointment
  <2>1. /\ booking[p].row.start \in Nat /\ booking[p].row.duration \in Nat
        /\ booking[p].row.assets \in Seq(Assets) /\ booking[p].id \in Nat
    BY <1>2, AppointmentsAssumption DEF Appointment
  <2>2. \A r \in reservation : r \in Reservation /\ r.id \in DOMAIN appointment
    BY DEF AInv, TablesOK
  <2>3. ASSUME NEW n \in DOMAIN booking[p].row.assets
        PROVE  [id |-> booking[p].id, nth |-> n, asset |-> booking[p].row.assets[n],
                start |-> booking[p].row.start,
                end |-> booking[p].row.start + booking[p].row.duration] \in Reservation
    BY <2>1 DEF Reservation
  <2> QED BY <1>3, <2>2, <2>3 DEF ReserveCommit
<1>6. booking'[p] = NoHandler /\ NoHandler \in Handler
  BY <1>4 DEF Done, Become, AInv, TablesOK, Handler
<1>7. WhereOK(p)'
  BY <1>6 DEF WhereOK, Is, Unlinked, NoHandler, Uncharged
<1>8. HandlerStep(p)
  <2>1. ~Unlinked(p)'
    BY <1>6 DEF Unlinked, Is, NoHandler
  <2>2. booking' = [booking EXCEPT ![p] = booking'[p]]
    BY <1>4, <1>6 DEF Done, Become
  <2> QED BY <1>4, <1>6, <1>7, <2>1, <2>2, NoWalletStep DEF HandlerStep
<1>9. BookingsKept(p)
  <2>1. p \notin Ahead'
    BY <1>6 DEF Ahead, NoHandler, Creating
  <2> QED BY <1>4, <2>1 DEF BookingsKept, SameBooking, AInv
<1>10. BookingStep(p)
  BY <1>4, <1>5, <1>8, <1>9, NoWalletStep DEF BookingStep, AInv, TablesOK
<1> QED BY <1>4, <1>10 DEF StepIsSound

-----------------------------------------------------------------------------
(* Handlers of a booking that exists.                                        *)

LEMMA OtherGoes ==
  ASSUME AInv, NEW p \in Procs, NEW h \in Handler, booking' = [booking EXCEPT ![p] = h],
         h.pc \notin Creating \cup {"idle"}, h.id \in DOMAIN appointment,
         h.pc = "refund" => appointment[h.id].charge # 0,
         UNCHANGED <<appointment, reservation>>, faults' \in 0..MaxFaults,
         ChargesKept(p), \A q \in Procs \ {p} : request'[q] = request[q]
  PROVE  BookingStep(p)
<1>1. booking'[p] = h
  BY DEF AInv, TablesOK
<1>2. WhereOK(p)'
  BY <1>1 DEF WhereOK, Is, Unlinked, Uncharged, Creating
<1> QED BY <1>2, OnlyHandler DEF Creating

\* A cancellation goes on to its next step.
LEMMA CancellingGoes ==
  ASSUME AInv, NEW p \in Procs, booking[p].pc \in Cancelling, NEW label \in Cancelling \ {"refund"},
         Goto(p, label), UNCHANGED <<appointment, reservation>>, faults' \in 0..MaxFaults,
         ChargesKept(p), \A q \in Procs \ {p} : request'[q] = request[q]
  PROVE  BookingStep(p)
<1> DEFINE h == [booking[p] EXCEPT !.pc = label]
<1>1. booking[p] \in [pc : Cancelling, id : Nat]
  BY CancellingHandler
<1>2. h \in [pc : Cancelling, id : Nat] /\ h.pc = label /\ h.id = booking[p].id
  BY <1>1
<1>3. booking' = [booking EXCEPT ![p] = h]
  BY DEF Goto
<1>4. booking[p].id \in DOMAIN appointment
  BY DEF AInv, WhereOK, Cancelling, Uncharged
<1>5. h \in Handler
  BY <1>2 DEF Handler
<1>6. label \notin Creating \cup {"idle"}
  BY DEF Cancelling, Creating
<1> HIDE DEF h
<1> QED BY <1>2, <1>3, <1>4, <1>5, <1>6, OtherGoes

LEMMA ReadStepIsSound ==
  ASSUME IInv, AInv, NEW p \in Procs, NEW i \in DOMAIN appointment,
         \/ \E start \in Starts, duration \in Durations : UpdateRead(p, i, start, duration)
         \/ CancelRead(p, i)
         \/ \E to \in {"confirmed", "completed", "cancelled"} : StaffRead(p, i, to)
  PROVE  StepIsSound(p)
<1>1. UNCHANGED wvars /\ UNCHANGED <<appointment, reservation, faults>>
  BY DEF UpdateRead, CancelRead, StaffRead
<1>2. faults' \in 0..MaxFaults
  BY <1>1 DEF AInv, TablesOK
<1>3. i \in Nat
  <2>1. appointment \in Seq(Appointment)
    BY DEF AInv
  <2> QED BY <2>1
<1> DEFINE Comes == \E h \in Handler :
             /\ booking' = [booking EXCEPT ![p] = h] /\ h.id = i
             /\ h.pc \in Cancelling \cup {"move", "staff"}
             /\ h.pc = "refund" => appointment[i].charge # 0
<1>4. Comes
  <2>1. ASSUME NEW start \in Starts, NEW duration \in Durations, UpdateRead(p, i, start, duration)
        PROVE  Comes
    <3> DEFINE h == [pc |-> "move", id |-> i, start |-> start, duration |-> duration]
    <3>1. h \in Handler
      BY <1>3 DEF Handler
    <3>2. booking' = [booking EXCEPT ![p] = h] /\ h.id = i /\ h.pc = "move"
      BY <2>1 DEF UpdateRead, Become
    <3> HIDE DEF h
    <3> QED BY <3>1, <3>2
  <2>2. ASSUME CancelRead(p, i) PROVE Comes
    <3> DEFINE pc == IF appointment[i].charge # 0 THEN "refund"
                     ELSE IF appointment[i].card # "" THEN "card_refund" ELSE "cancel"
               h == [pc |-> pc, id |-> i]
    <3>1. pc \in Cancelling /\ (pc = "refund" => appointment[i].charge # 0)
      BY DEF Cancelling
    <3>2. booking' = [booking EXCEPT ![p] = [pc |-> pc, id |-> i]]
      BY <2>2 DEF CancelRead, Become
    <3> HIDE DEF pc
    <3>3. h \in Handler
      BY <1>3, <3>1 DEF Handler
    <3>4. h.id = i /\ h.pc = pc /\ booking' = [booking EXCEPT ![p] = h]
      BY <3>2
    <3> HIDE DEF h
    <3> QED BY <3>1, <3>3, <3>4
  <2>3. ASSUME NEW to \in {"confirmed", "completed", "cancelled"}, StaffRead(p, i, to) PROVE Comes
    <3> DEFINE h == [pc |-> "staff", id |-> i, to |-> to]
    <3>1. h \in Handler
      BY <1>3 DEF Handler
    <3>2. booking' = [booking EXCEPT ![p] = h] /\ h.id = i /\ h.pc = "staff"
      BY <2>3 DEF StaffRead, Become
    <3> HIDE DEF h
    <3> QED BY <3>1, <3>2
  <2> QED BY <2>1, <2>2, <2>3
<1>5. \A pc \in Cancelling \cup {"move", "staff"} : pc \notin Creating \cup {"idle"}
  BY DEF Cancelling, Creating
<1>6. BookingStep(p)
  BY <1>1, <1>2, <1>4, <1>5, NoWalletStep, OtherGoes
<1> QED BY <1>1, <1>6 DEF StepIsSound

LEMMA RefundStartsStep == ASSUME IInv, AInv, NEW p \in Procs, RefundStarts(p) PROVE StepIsSound(p)
<1> DEFINE c == appointment[booking[p].id].charge
<1>1. booking[p].pc = "refund"
  BY DEF RefundStarts, Is
<1>2. booking[p].id \in DOMAIN appointment /\ c # 0
  BY <1>1 DEF AInv, WhereOK, Uncharged
<1>3. c \in DOMAIN ledger
  BY <1>2 DEF AInv, PaidOK, IsChargeOf
<1>4. RefundChargeCheck(p, c)
  BY DEF RefundStarts
<1>5. Next
  BY <1>3, <1>4 DEF Next, Request
<1>6. UNCHANGED ledger /\ \A q \in Procs \ {p} : request'[q] = request[q]
  BY <1>4 DEF RefundChargeCheck, Start, IInv, TypeOK
<1>7. faults' \in 0..MaxFaults /\ UNCHANGED <<appointment, reservation>> /\ Goto(p, "refund_wait")
  BY DEF RefundStarts, AInv, TablesOK
<1>8. ChargesKept(p)
  BY <1>6 DEF ChargesKept
<1>9. BookingStep(p)
  BY <1>1, <1>6, <1>7, <1>8, CancellingGoes DEF Cancelling
<1> QED BY <1>5, <1>9 DEF StepIsSound

LEMMA RefundPassesStep == ASSUME IInv, AInv, NEW p \in Procs, RefundFound(p) \/ CardRefund(p) PROVE StepIsSound(p)
<1>1. /\ booking[p].pc \in Cancelling /\ Goto(p, "cancel")
      /\ UNCHANGED wvars /\ UNCHANGED <<appointment, reservation, faults>>
  BY DEF RefundFound, CardRefund, Is, Cancelling
<1>2. faults' \in 0..MaxFaults
  BY <1>1 DEF AInv, TablesOK
<1>3. BookingStep(p)
  BY <1>1, <1>2, NoWalletStep, CancellingGoes DEF Cancelling
<1> QED BY <1>1, <1>3 DEF StepIsSound

LEMMA RefundReadsStep == ASSUME IInv, AInv, NEW p \in Procs, RefundReads(p) PROVE StepIsSound(p)
<1>1. RefundChargeRead(p) /\ UNCHANGED bvars /\ booking[p].pc = "refund_wait"
  BY DEF RefundReads, Is
<1>2. Next
  BY <1>1 DEF Next, Continue
<1>3. UNCHANGED ledger /\ \A q \in Procs \ {p} : request'[q] = request[q]
  BY <1>1 DEF RefundChargeRead, IInv, TypeOK
<1>4. UNCHANGED <<appointment, reservation, booking, faults>>
  BY <1>1 DEF bvars
<1>5. booking[p] \in Handler /\ booking' = [booking EXCEPT ![p] = booking[p]]
  BY <1>4 DEF AInv, TablesOK
<1>6. booking[p].id \in DOMAIN appointment
  BY <1>1 DEF AInv, WhereOK, Uncharged
<1>7. faults' \in 0..MaxFaults
  BY <1>4 DEF AInv, TablesOK
<1>8. ChargesKept(p)
  BY <1>3 DEF ChargesKept
<1>9. BookingStep(p)
  BY <1>1, <1>3, <1>4, <1>5, <1>6, <1>7, <1>8, OtherGoes DEF Creating
<1> QED BY <1>2, <1>9 DEF StepIsSound

LEMMA RefundLandsStep == ASSUME IInv, AInv, NEW p \in Procs, RefundLands(p) PROVE StepIsSound(p)
<1>1. RefundChargeCommit(p) /\ booking[p].pc = "refund_wait"
  BY DEF RefundLands, Is
<1>2. Next
  BY <1>1 DEF Next, Continue
<1>3. PICK row : ledger' = Append(ledger, row) /\ Finish(p)
  BY <1>1 DEF RefundChargeCommit
<1>4. ChargesKept(p) /\ \A q \in Procs \ {p} : request'[q] = request[q]
  BY <1>3, ChargeAppended
<1>5. faults' \in 0..MaxFaults /\ UNCHANGED <<appointment, reservation>> /\ Goto(p, "cancel")
  BY DEF RefundLands, AInv, TablesOK
<1>6. BookingStep(p)
  BY <1>1, <1>4, <1>5, CancellingGoes DEF Cancelling
<1> QED BY <1>2, <1>6 DEF StepIsSound

\* A booking that is written in place keeps its guest, its price and its charge.
LEMMA RowWritten ==
  ASSUME AInv, NEW p \in Procs, NEW i \in DOMAIN appointment, NEW row \in Appointment,
         SameBooking(appointment[i], row), appointment' = [appointment EXCEPT ![i] = row],
         Done(p), UNCHANGED wvars, UNCHANGED <<reservation, faults>>
  PROVE  BookingStep(p)
<1>1. appointment \in Seq(Appointment)
  BY DEF AInv
<1>2. /\ appointment' \in Seq(Appointment) /\ Len(appointment') = Len(appointment)
      /\ DOMAIN appointment' = DOMAIN appointment
      /\ \A j \in DOMAIN appointment : j # i => appointment'[j] = appointment[j]
      /\ appointment'[i] = row
  BY <1>1
<1>3. booking'[p] = NoHandler /\ NoHandler \in Handler /\ booking' = [booking EXCEPT ![p] = NoHandler]
  BY DEF Done, Become, AInv, TablesOK, Handler
<1>4. WhereOK(p)' /\ ~Unlinked(p)' /\ p \notin Ahead'
  BY <1>3 DEF WhereOK, Is, Unlinked, NoHandler, Uncharged, Ahead, Creating
<1>5. HandlerStep(p)
  BY <1>3, <1>4, NoWalletStep DEF HandlerStep
<1>6. BookingsKept(p)
  BY <1>2, <1>4 DEF BookingsKept, SameBooking
<1> QED BY <1>2, <1>5, <1>6, NoWalletStep DEF BookingStep, AInv, TablesOK

LEMMA WriteStep ==
  ASSUME IInv, AInv, NEW p \in Procs, UpdateWrite(p) \/ CancelWrite(p) \/ StaffWrite(p)
  PROVE  StepIsSound(p)
<1> DEFINE h == booking[p]
           old == appointment[h.id]
<1>1. h \in Handler /\ h.pc \in {"move", "cancel", "staff"}
  BY DEF AInv, TablesOK, UpdateWrite, CancelWrite, StaffWrite, Is
<1>2. h.id \in DOMAIN appointment /\ old \in Appointment
  BY <1>1 DEF AInv, WhereOK, TablesOK, Uncharged
<1>3. Done(p) /\ UNCHANGED wvars /\ UNCHANGED <<reservation, faults>>
  BY DEF UpdateWrite, CancelWrite, StaffWrite
<1>4. \E row \in Appointment : SameBooking(old, row) /\ appointment' = [appointment EXCEPT ![h.id] = row]
  <2>1. CASE UpdateWrite(p)
    <3> DEFINE row == [old EXCEPT !.start = h.start, !.duration = h.duration]
    <3>1. h.start \in Starts /\ h.duration \in Durations
      BY <1>1, <2>1 DEF UpdateWrite, Is, Handler, NoHandler, Creating, Cancelling
    <3>2. row \in Appointment /\ SameBooking(old, row)
      BY <1>2, <3>1 DEF Appointment, SameBooking
    <3>3. appointment' = [appointment EXCEPT ![h.id] = row]
      BY <2>1, <1>2 DEF UpdateWrite
    <3> QED BY <3>2, <3>3
  <2>2. CASE CancelWrite(p)
    <3> DEFINE row == [old EXCEPT !.status = "cancelled"]
    <3>1. row \in Appointment /\ SameBooking(old, row)
      BY <1>2 DEF Appointment, SameBooking, Active
    <3>2. appointment' = [appointment EXCEPT ![h.id] = row]
      BY <2>2, <1>2 DEF CancelWrite
    <3> QED BY <3>1, <3>2
  <2>3. CASE StaffWrite(p)
    <3> DEFINE row == [old EXCEPT !.status = h.to]
    <3>1. h.to \in {"confirmed", "completed", "cancelled"}
      <4>1. h.pc = "staff"
        BY <2>3 DEF StaffWrite, Is
      <4>2. h \in [pc : {"staff"}, id : Nat, to : {"confirmed", "completed", "cancelled"}]
        BY <1>1, <4>1 DEF Handler, NoHandler, Creating, Cancelling
      <4> HIDE DEF h
      <4> QED BY <4>2
    <3>2. row \in Appointment /\ SameBooking(old, row)
      BY <1>2, <3>1 DEF Appointment, SameBooking, Active
    <3>3. appointment' = [appointment EXCEPT ![h.id] = row]
      BY <2>3, <1>2 DEF StaffWrite
    <3> QED BY <3>2, <3>3
  <2> QED BY <2>1, <2>2, <2>3
<1>5. BookingStep(p)
  BY <1>2, <1>3, <1>4, RowWritten
<1> QED BY <1>3, <1>5 DEF StepIsSound
-----------------------------------------------------------------------------
(* Handlers cut short.                                                       *)

LEMMA StopRequestStep ==
  ASSUME IInv, NEW p \in Procs, StopRequest(p)
  PROVE  (UNCHANGED wvars \/ Next) /\ ChargesKept(p) /\ \A q \in Procs \ {p} : request'[q] = request[q]
<1>1. CASE UNCHANGED wvars
  BY <1>1, NoWalletStep
<1>2. CASE Abort(p)
  <2>1. Next
    BY <1>2 DEF Next
  <2>2. UNCHANGED ledger /\ Finish(p)
    BY <1>2 DEF Abort
  <2>3. \A q \in Procs \ {p} : request'[q] = request[q]
    BY <2>2 DEF Finish, IInv, TypeOK
  <2>4. ChargesKept(p)
    BY <2>2 DEF ChargesKept
  <2> QED BY <2>1, <2>3, <2>4
<1> QED BY <1>1, <1>2 DEF StopRequest

LEMMA FaultCounted ==
  ASSUME AInv, faults < MaxFaults, faults' = faults + 1
  PROVE  faults' \in 0..MaxFaults
BY AppointmentsAssumption DEF AInv, TablesOK

LEMMA HandlerStopsStep == ASSUME IInv, AInv, NEW p \in Procs, HandlerStops(p) PROVE StepIsSound(p)
<1>1. StopRequest(p) /\ Done(p) /\ UNCHANGED <<appointment, reservation>> /\ faults' \in 0..MaxFaults
  BY FaultCounted DEF HandlerStops
<1>2. BookingStep(p)
  BY <1>1, StopRequestStep, HandlerEnds
<1> QED BY <1>1, <1>2, StopRequestStep DEF StepIsSound

LEMMA RefundThrowsStep == ASSUME IInv, AInv, NEW p \in Procs, RefundThrows(p) PROVE StepIsSound(p)
<1>1. StopRequest(p) /\ Goto(p, "cancel") /\ UNCHANGED <<appointment, reservation>> /\ faults' \in 0..MaxFaults
  BY FaultCounted DEF RefundThrows
<1>2. booking[p].pc \in Cancelling
  BY DEF RefundThrows, Cancelling
<1>3. BookingStep(p)
  BY <1>1, <1>2, StopRequestStep, CancellingGoes DEF Cancelling
<1> QED BY <1>1, <1>3, StopRequestStep DEF StepIsSound

-----------------------------------------------------------------------------
(* The theorems.                                                             *)

LEMMA RequestStepIsSound == ASSUME IInv, AInv, NEW p \in Procs, ARequest(p) PROVE StepIsSound(p)
<1>1. ASSUME NEW g \in Guests, NEW room \in Rooms, NEW start \in Starts, NEW duration \in Durations,
             NEW amount \in Amounts, NEW method \in Methods, NEW assets \in Selections,
             RoomForBooking, BookCheck(p, NewBooking(g, room, start, duration, amount, method, assets))
      PROVE  StepIsSound(p)
  <2> DEFINE row == NewBooking(g, room, start, duration, amount, method, assets)
  <2>1. amount \in Nat /\ assets \in Seq(Assets)
    BY WalletAssumption, AppointmentsAssumption
  <2>2. row \in Appointment /\ row.charge = 0 /\ row.amount = amount
    BY <2>1 DEF NewBooking, Appointment, Active
  <2> HIDE DEF row
  <2>3. BookCheck(p, row)
    BY <1>1 DEF row
  <2> QED BY <1>1, <2>2, <2>3, BookCheckStep
<1>2. ASSUME NEW i \in DOMAIN appointment, NEW start \in Starts, NEW duration \in Durations,
             UpdateRead(p, i, start, duration)
      PROVE  StepIsSound(p)
  BY <1>2, ReadStepIsSound
<1>3. ASSUME NEW i \in DOMAIN appointment, CancelRead(p, i) PROVE StepIsSound(p)
  BY <1>3, ReadStepIsSound
<1>4. ASSUME NEW i \in DOMAIN appointment, NEW to \in {"confirmed", "completed", "cancelled"},
             StaffRead(p, i, to)
      PROVE  StepIsSound(p)
  BY <1>4, ReadStepIsSound
<1> QED BY <1>1, <1>2, <1>3, <1>4 DEF ARequest

LEMMA ContinueStepIsSound == ASSUME IInv, AInv, NEW p \in Procs, AContinue(p) PROVE StepIsSound(p)
BY ChargeStartsStep, EndsStep, ChargeLandsStep, PayByCardStep, InsertStep, LinkStepIsSound,
   ReserveReadStep, ReserveCommitStep, RefundStartsStep, RefundPassesStep, RefundReadsStep,
   RefundLandsStep, WriteStep
   DEF AContinue

LEMMA BookingsInitially == AInit => Init /\ IInv /\ AInv
<1> SUFFICES ASSUME AInit PROVE Init /\ IInv /\ AInv
  OBVIOUS
<1>1. Init /\ IInv
  BY Initially DEF AInit
<1>2. /\ appointment = << >> /\ DOMAIN appointment = {} /\ Len(appointment) = 0
      /\ appointment \in Seq(Appointment) /\ reservation = {} /\ faults = 0
  BY DEF AInit
<1>3. \A p \in Procs : booking[p] = NoHandler /\ booking[p].pc = "idle"
  BY DEF AInit, NoHandler
<1>4. booking \in [Procs -> Handler]
  BY DEF AInit, Handler
<1>5. TablesOK
  BY <1>2, <1>3, <1>4, AppointmentsAssumption DEF TablesOK, Is
<1>6. \A p \in Procs : WhereOK(p) /\ ~Unlinked(p)
  BY <1>3 DEF WhereOK, Is, Unlinked, Uncharged
<1>7. ChargesAreDistinct
  BY <1>2, <1>6 DEF ChargesAreDistinct
<1>8. Cardinality(Ahead) = 0
  <2>1. Ahead = {}
    BY <1>3 DEF Ahead, Creating
  <2> QED BY <2>1, FS_EmptySet
<1> QED BY <1>1, <1>2, <1>5, <1>6, <1>7, <1>8, AppointmentsAssumption DEF AInv

\* A step of a booking is a step of the wallet, or none.
LEMMA EveryBookingStep ==
  IInv /\ AInv /\ [ANext]_avars => (UNCHANGED wvars \/ Next) /\ IInv' /\ AInv'
<1> SUFFICES ASSUME IInv, AInv, [ANext]_avars
             PROVE  (UNCHANGED wvars \/ Next) /\ IInv' /\ AInv'
  OBVIOUS
<1>1. ASSUME NEW p \in Procs, StepIsSound(p)
      PROVE  (UNCHANGED wvars \/ Next) /\ IInv' /\ AInv'
  <2>1. UNCHANGED wvars \/ Next
    BY <1>1 DEF StepIsSound
  <2>2. AInv'
    BY <1>1, BookingStepKeepsInvariant DEF StepIsSound
  <2> QED BY <2>1, <2>2, Inductive
<1>2. CASE UNCHANGED avars \/ SaveSharedAssets
  <2>1. UNCHANGED wvars /\ UNCHANGED <<appointment, reservation, booking, faults>>
    BY <1>2 DEF avars, bvars, SaveSharedAssets
  <2>2. UNCHANGED <<ledger, request>>
    BY <2>1 DEF wvars
  <2>3. AInv'
    BY <2>1, <2>2 DEF AInv, TablesOK, PaidOK, IsChargeOf, WhereOK, Unlinked, Is, ChargesAreDistinct, Ahead
  <2> QED BY <2>1, <2>3, Inductive
<1>3. CASE BookingActivity
  <2>1. \E p \in Procs : StepIsSound(p)
    BY <1>3, RequestStepIsSound, ContinueStepIsSound, HandlerStopsStep, RefundThrowsStep DEF BookingActivity
  <2> QED BY <2>1, <1>1
<1> QED BY <1>2, <1>3 DEF ANext

LEMMA BookingInvariant == ASpec => [](IInv /\ AInv)
BY BookingsInitially, EveryBookingStep, PTL DEF ASpec

\* What is not offered has been seen not offered.
LEMMA ShelfInvariant == ASpec => []ShelfOK
<1>1. AInit => ShelfOK
  BY DEF AInit, ShelfOK
<1>2. ShelfOK /\ [ANext]_avars => ShelfOK'
  BY DEF ShelfOK, ANext, BookingActivity, SaveSharedAssets, avars
<1> QED BY <1>1, <1>2, PTL DEF ASpec

\* Bookings, reservations and handlers keep their types, and handlers and
\* reservations speak of appointments that exist.
THEOREM BookingsTyped == ASpec => []ATypeOK
<1>1. AInv /\ ShelfOK => ATypeOK
  BY DEF AInv, ATypeOK
<1> QED BY BookingInvariant, ShelfInvariant, <1>1, PTL

\* A booking paid from the deposit has its own charge, of its guest and amount,
\* linked to it or to none.
THEOREM BookingsHaveCharges == ASpec => []BookingHasItsCharge
<1>1. AInv => BookingHasItsCharge
  BY DEF AInv, PaidOK, IsChargeOf, ChargesAreDistinct, BookingHasItsCharge, Pays
<1> QED BY BookingInvariant, <1>1, PTL

\* Every step of every booking, cancellation and staff action does to the wallet
\* what a step of guest-wallet.service.ts does, or nothing.
THEOREM BookingsImplementTheWallet == ASpec => ImplementsWallet
<1>1. AInit => Init
  BY DEF AInit
<1>2. IInv /\ AInv /\ [ANext]_avars => [UNCHANGED wvars \/ Next]_wvars
  BY EveryBookingStep
<1> QED BY BookingInvariant, <1>1, <1>2, PTL DEF ASpec, ImplementsWallet

\* So the deposit stays natural and shown by the guest's last row, whatever
\* bookings are made and cancelled at once.
THEOREM WalletUnderBookings == ASpec => []LedgerShowsDeposit
<1>1. IInv => LedgerShowsDeposit
  BY DepositsAreShown DEF IInv
<1> QED BY BookingInvariant, <1>1, PTL
=============================================================================
