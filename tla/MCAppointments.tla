--------------------------- MODULE MCAppointments ---------------------------
(* Instances of Appointments for TLC. *)
EXTENDS AppointmentsProperties, TLC

CONSTANTS Deposit, Debt, Stock

MCInitialDeposit == [g \in Guests |-> Deposit]
MCInitialDebt == [g \in Guests |-> Debt]
MCSelections == {<<a>> : a \in Assets} \cup {<<a, a>> : a \in Assets}

\* Bookings that select an asset once, which the cafe goes on offering.
OneAsset ==
  /\ wasOff' = {}
  /\ \A p \in Procs : booking'[p].pc \in Creating => Len(booking'[p].row.assets) = 1
  /\ \A i \in DOMAIN appointment' : Len(appointment'[i].assets) = 1

\* Bookings that stand, by handlers that are not cut short, while the assets
\* they select, once or twice, are switched off and on.
ManyAssets ==
  /\ faults' = 0
  /\ \A i \in DOMAIN appointment' : appointment'[i].status = "pending"

SmallInstance == OneAsset \/ ManyAssets

\* Handlers are alike.
Symmetry == Permutations(Procs)
MCTotalQuantity == [a \in Assets |-> Stock]
=============================================================================
