-------------------------- MODULE MCOrderPayments --------------------------
(* Instances of OrderPayments for TLC. *)
EXTENDS OrderPaymentsProperties, TLC

CONSTANTS u1, OrderTotal, Balance

\* Orders of one customer, each of OrderTotal; the account holds Balance.
MCOwner == [o \in Orders |-> u1]
MCTotal == [o \in Orders |-> OrderTotal]
MCInitialBalance == [u \in Users |-> Balance]

\* Handlers are alike, and so are orders of one customer and one total.
Symmetry == Permutations(Procs) \cup Permutations(Orders)
=============================================================================
