------------------------------ MODULE MCOrders ------------------------------
(* Two instances of OrderPayments that one run checks. *)
EXTENDS MCOrderPayments

\* Part of the order's total, and more than it with a minus sign.
MCRefundAmounts == {1, -3}

\* One order, and at most one row of another customer than its own.
OneOrder ==
  /\ Cardinality({o \in Orders : order'[o].status # "NONE"}) <= 1
  /\ Cardinality({i \in 1..nTx' : tx'[i].user # u1}) <= 1

\* Orders of one customer that compete for the balance, each paid and refunded
\* whole, by handlers that do not die.
BalanceOrders ==
  /\ \A o \in Orders : order'[o].status # "NONE" => order'[o].method = "BALANCE"
  /\ \A p \in Procs : proc'[p].amount \notin {1, -3} /\ proc'[p].user \in {u1, NoUser}
  /\ \A i \in 1..nTx' : tx'[i].provider = "balance" /\ tx'[i].amount \notin {-1, 1}
  /\ \A p \in Procs : Abort(p) => Continue(p)

SmallInstance == OneOrder \/ BalanceOrders
=============================================================================
