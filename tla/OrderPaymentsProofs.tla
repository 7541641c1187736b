------------------------ MODULE OrderPaymentsProofs ------------------------
(***************************************************************************)
(* Proofs, for every value of the constants, of the safety properties of   *)
(* OrderPayments.  The inductive invariant adds to the properties what     *)
(* each handler in flight may rely on: which rows its locals name, and     *)
(* what it has checked that nobody can have undone since.  Then the        *)
(* transactions table and the balances: OrderPayments implements           *)
(* PaymentLedger, the balance is what the rows add up to, and balance      *)
(* payments overdraw an account by no more than the handlers in flight     *)
(* were let through with.                                                  *)
(***************************************************************************)
EXTENDS OrderPaymentsProperties, FiniteSums

-----------------------------------------------------------------------------
(* The inductive invariant.                                                 *)

OnOrder == {"bal_read", "bal_commit", "pay_order", "staff_write", "cancel_write",
            "worker_write", "refund_find", "refund_balance"}
WithMoney == {"pay_create", "bal_read", "bal_commit", "refund_balance"}

\* The payment row a handler confirms an order for, or refunds.
NamesCompletedPayment(h) ==
  /\ h.tx \in 1..nTx
  /\ IsCompletedPayment(h.tx)
  /\ tx[h.tx].order = h.order

HandlerOK(h) ==
  /\ h.pc \in OnOrder => h.order \in Orders
  /\ h.pc \in OnOrder \ {"pay_order"} => Exists(h.order)
  /\ h.pc \in WithMoney => h.amount > 0 /\ h.user \in Users
  /\ h.pc = "refund_create" => h.amount > 0 \/ h.amount \in RefundAmounts
  /\ h.pc \in {"staff_write", "worker_write"} => h.target # "NONE"
  /\ h.pc = "staff_write" /\ h.target = "COMPLETED" => order[h.order].paid
  /\ h.pc = "staff_write" /\ h.target = "CONFIRMED" =>
       order[h.order].paid \/ order[h.order].method = "CASH"
  /\ h.pc \in {"pay_mark", "pay_wait"} => tx[h.tx].order = h.order
  /\ h.pc = "pay_order" => NamesCompletedPayment(h)
  /\ h.pc \in {"refund_balance", "refund_create"} =>
       NamesCompletedPayment(h) /\ tx[h.tx].user = h.user
  /\ h.pc \in Driving => RowInProgress(h)

HandlersOK == \A p \in Procs : HandlerOK(proc[p])

NoRowDrivenTwice ==
  \A p, q \in Procs :
    p # q /\ proc[p].pc \in Driving /\ proc[q].pc \in Driving => proc[p].tx # proc[q].tx

PaymentsPositive == \A i \in 1..nTx : tx[i].type = "PAYMENT" => tx[i].amount > 0

IInv ==
  /\ TypeOK
  /\ HandlersOK
  /\ NoRowDrivenTwice
  /\ PaymentsPositive
  /\ PaidHasPayment
  /\ RefundsAreBacked

-----------------------------------------------------------------------------
(* Types.                                                                   *)

LEMMA TypeInit == Init => TypeOK
BY ConstantsAssumption
   DEF Init, TypeOK, OrderRow, OrderStatus, PaymentMethod, TxRow, TxStatus,
       EmptyTx, TxIds, Handler, Pc, Idle

LEMMA NegatedTyped == \A amount \in Int : Negated(amount) \in Int
BY DEF Negated

LEMMA EmptyTxTyped == EmptyTx \in TxRow
BY DEF EmptyTx, TxRow, TxStatus

\* The status of a row in TxRow can be any of these.
LEMMA RowNames == {"PENDING", "PROCESSING", "COMPLETED", "FAILED"} \subseteq TxStatus
BY DEF TxStatus

\* What a step of one handler leaves: its record in place of the old one.
LEMMA HandlerTyped ==
  ASSUME TypeOK, NEW p \in Procs, NEW h \in Handler,
         proc' = [proc EXCEPT ![p] = h]
  PROVE  proc' \in [Procs -> Handler]
BY DEF TypeOK

\* A row appended to the table is a row, and the table grows by it.
LEMMA InsertTyped ==
  ASSUME TypeOK, NEW row \in TxRow, row.type # "NONE", Insert(row)
  PROVE  /\ tx' \in [TxIds -> TxRow]
         /\ nTx' \in 0..MaxTx
         /\ \A i \in TxIds : tx'[i].type = "NONE" <=> i > nTx'
         /\ nTx' = nTx + 1
         /\ nTx + 1 \in TxIds
         /\ tx'[nTx + 1] = row
         /\ \A i \in 1..nTx : tx'[i] = tx[i]
<1>1. nTx + 1 \in TxIds /\ nTx' = nTx + 1 /\ nTx' \in 0..MaxTx
  BY ConstantsAssumption DEF Insert, TypeOK, TxIds
<1>2. tx' \in [TxIds -> TxRow] /\ tx'[nTx + 1] = row
  BY <1>1 DEF Insert, TypeOK
<1>3. \A i \in TxIds : i # nTx + 1 => tx'[i] = tx[i]
  BY <1>1 DEF Insert, TypeOK
<1>4. \A i \in TxIds : tx'[i].type = "NONE" <=> i > nTx'
  BY <1>1, <1>2, <1>3 DEF TypeOK, TxIds
<1>5. \A i \in 1..nTx : tx'[i] = tx[i]
  <2> TAKE i \in 1..nTx
  <2>1. i \in TxIds /\ i # nTx + 1
    BY ConstantsAssumption DEF TypeOK, TxIds
  <2> QED BY <2>1, <1>3
<1> QED BY <1>1, <1>2, <1>4, <1>5

\* A status written in place.
LEMMA StatusTyped ==
  ASSUME TypeOK, NEW i \in TxIds, NEW status \in TxStatus, SetTxStatus(i, status)
  PROVE  /\ tx' \in [TxIds -> TxRow]
         /\ nTx' = nTx
         /\ \A j \in TxIds : tx'[j].type = tx[j].type
         /\ \A j \in TxIds : tx'[j].type = "NONE" <=> j > nTx'
         /\ tx'[i] = [tx[i] EXCEPT !.status = status]
         /\ \A j \in TxIds \ {i} : tx'[j] = tx[j]
<1>1. tx[i] \in TxRow BY DEF TypeOK
<1>2. [tx[i] EXCEPT !.status = status] \in TxRow
  BY <1>1 DEF TxRow
<1>3. tx' = [tx EXCEPT ![i] = [tx[i] EXCEPT !.status = status]] /\ nTx' = nTx
  BY DEF SetTxStatus
<1>4. tx' \in [TxIds -> TxRow] /\ \A j \in TxIds \ {i} : tx'[j] = tx[j]
  BY <1>2, <1>3 DEF TypeOK
<1>5. tx'[i] = [tx[i] EXCEPT !.status = status] /\ tx'[i].type = tx[i].type
  BY <1>1, <1>3 DEF TypeOK, TxRow
<1>6. \A j \in TxIds : tx'[j].type = tx[j].type
  BY <1>4, <1>5
<1> QED BY <1>3, <1>4, <1>5, <1>6 DEF TypeOK

\* Idle handlers and those a request starts.
LEMMA StartTyped ==
  ASSUME TypeOK, NEW p \in Procs, NEW h \in Handler, Start(p, h)
  PROVE  proc' \in [Procs -> Handler]
BY HandlerTyped DEF Start

LEMMA IdleTyped == Idle \in Handler
BY DEF Idle, Handler, Pc, OrderStatus

LEMMA FinishTyped ==
  ASSUME TypeOK, NEW p \in Procs, Finish(p)
  PROVE  proc' \in [Procs -> Handler]
BY HandlerTyped, IdleTyped DEF Finish

LEMMA GotoTyped ==
  ASSUME TypeOK, NEW p \in Procs, NEW label \in Pc, Goto(p, label)
  PROVE  /\ proc' \in [Procs -> Handler]
         /\ proc'[p] = [proc[p] EXCEPT !.pc = label]
         /\ \A q \in Procs \ {p} : proc'[q] = proc[q]
<1>1. [proc[p] EXCEPT !.pc = label] \in Handler
  BY DEF TypeOK, Handler
<1> QED BY <1>1, HandlerTyped DEF Goto, TypeOK

\* Tables a step leaves alone keep their types.
LEMMA TablesKept ==
  ASSUME TypeOK, UNCHANGED <<order, balance, tx, nTx, mode>>,
         proc' \in [Procs -> Handler]
  PROVE  TypeOK'
BY DEF TypeOK

\* An order row rewritten: types, and what no write of a row undoes.
OrderKept(o) ==
  Exists(o) => /\ Exists(o)'
               /\ order'[o].method = order[o].method
               /\ order[o].paid => order'[o].paid

OrdersKept == \A o \in Orders : OrderKept(o)

LEMMA StatusWritten ==
  ASSUME TypeOK, NEW o \in Orders, NEW status \in OrderStatus, status # "NONE",
         SetOrderStatus(o, status)
  PROVE  order' \in [Orders -> OrderRow] /\ OrdersKept
         /\ \A x \in Orders : order'[x].paid = order[x].paid
<1>1. order[o] \in OrderRow
  BY DEF TypeOK
<1>2. [order[o] EXCEPT !.status = status] \in OrderRow
  BY <1>1 DEF OrderRow
<1>3. order' = [order EXCEPT ![o] = [order[o] EXCEPT !.status = status]]
  BY DEF SetOrderStatus
<1>4. order' \in [Orders -> OrderRow] /\ \A x \in Orders \ {o} : order'[x] = order[x]
  BY <1>2, <1>3 DEF TypeOK
<1>5. /\ order'[o].status = status
      /\ order'[o].paid = order[o].paid
      /\ order'[o].method = order[o].method
  BY <1>1, <1>3 DEF TypeOK, OrderRow
<1> QED BY <1>4, <1>5 DEF OrdersKept, OrderKept, Exists

LEMMA PaidWritten ==
  ASSUME TypeOK, NEW o \in Orders, ConfirmAsPaid(o)
  PROVE  order' \in [Orders -> OrderRow] /\ OrdersKept
         /\ \A x \in Orders \ {o} : order'[x] = order[x]
<1>1. order[o] \in OrderRow
  BY DEF TypeOK
<1>2. [order[o] EXCEPT !.status = "CONFIRMED", !.paid = TRUE] \in OrderRow
  BY <1>1 DEF OrderRow, OrderStatus
<1>3. order' = [order EXCEPT ![o] = [order[o] EXCEPT !.status = "CONFIRMED", !.paid = TRUE]]
  BY <1>1 DEF ConfirmAsPaid, TypeOK, OrderRow
<1>4. order' \in [Orders -> OrderRow] /\ \A x \in Orders \ {o} : order'[x] = order[x]
  BY <1>2, <1>3 DEF TypeOK
<1>5. /\ order'[o].status = "CONFIRMED"
      /\ order'[o].paid = TRUE
      /\ order'[o].method = order[o].method
  BY <1>1, <1>3 DEF TypeOK, OrderRow
<1> QED BY <1>4, <1>5 DEF OrdersKept, OrderKept, Exists

-----------------------------------------------------------------------------
(* What every step preserves, and how the invariant of the handlers that do *)
(* not move follows from it.                                                *)

RowKept(i) ==
  /\ tx'[i].type = tx[i].type
  /\ tx'[i].user = tx[i].user
  /\ tx'[i].order = tx[i].order
  /\ tx'[i].amount = tx[i].amount
  /\ tx'[i].original = tx[i].original
  /\ IsCompletedPayment(i) => tx'[i].status = "COMPLETED"

RowsKept == nTx' >= nTx /\ \A i \in 1..nTx : RowKept(i)

Moves(p, h) == proc' = [proc EXCEPT ![p] = h]

\* Rows a step appends, and orders it marks paid.
NewRowsOK ==
  \A i \in 1..nTx' : i > nTx =>
    /\ tx'[i].type = "PAYMENT" => tx'[i].amount > 0
    /\ tx'[i].type = "REFUND" => \E j \in 1..nTx : Backs(j, tx[i])'

NewlyPaidOK ==
  \A o \in Orders : order'[o].paid => order[o].paid \/ HasCompletedPayment(o)'

\* Handler p, now at h, writes the status of its own row only and keeps to it,
\* unless it is at a row it has just appended.
KeepsToItsRow(p, h) ==
  /\ \A i \in 1..nTx :
       tx'[i].status # tx[i].status => proc[p].pc \in Driving /\ proc[p].tx = i
  /\ h.pc \in Driving /\ ~(h.tx > nTx) => proc[p].pc \in Driving /\ proc[p].tx = h.tx

\* Handler p moves to h, and h may rely on what its new position promises.
StepOK(p, h) ==
  /\ TypeOK'
  /\ OrdersKept
  /\ RowsKept
  /\ NewRowsOK
  /\ NewlyPaidOK
  /\ KeepsToItsRow(p, h)
  /\ Moves(p, h)
  /\ HandlerOK(h)'

\* What a handler relies on is never undone by a step of another.
LEMMA HandlerStable ==
  ASSUME TypeOK, TypeOK', OrdersKept, RowsKept, NEW h \in Handler, HandlerOK(h),
         h.pc \in Driving => tx'[h.tx].status = tx[h.tx].status
  PROVE  HandlerOK(h)'
<1>1. nTx \in Nat /\ nTx' \in Nat /\ nTx' >= nTx
  BY ConstantsAssumption DEF TypeOK, RowsKept
<1>2. /\ h.pc \in OnOrder => h.order \in Orders
      /\ h.pc \in OnOrder \ {"pay_order"} => Exists(h.order)'
  BY DEF HandlerOK, OrdersKept, OrderKept
<1>3. h.pc = "staff_write" /\ h.target = "COMPLETED" => order'[h.order].paid
  BY DEF HandlerOK, OrdersKept, OrderKept, OnOrder
<1>4. h.pc = "staff_write" /\ h.target = "CONFIRMED" =>
        order'[h.order].paid \/ order'[h.order].method = "CASH"
  BY DEF HandlerOK, OrdersKept, OrderKept, OnOrder
<1>5. h.pc \in {"pay_mark", "pay_wait"} => tx'[h.tx].order = h.order
  BY DEF HandlerOK, RowsKept, RowKept, Driving, RowInProgress
<1>6. NamesCompletedPayment(h) => NamesCompletedPayment(h)'
  <2> SUFFICES ASSUME NamesCompletedPayment(h) PROVE NamesCompletedPayment(h)'
    OBVIOUS
  <2>1. h.tx \in 1..nTx /\ RowKept(h.tx) /\ IsCompletedPayment(h.tx)
    BY DEF NamesCompletedPayment, RowsKept
  <2>2. h.tx \in 1..nTx'
    BY <2>1, <1>1
  <2>3. IsCompletedPayment(h.tx)' /\ tx'[h.tx].order = h.order
    BY <2>1 DEF RowKept, IsCompletedPayment, NamesCompletedPayment
  <2> QED BY <2>2, <2>3 DEF NamesCompletedPayment
<1>7. NamesCompletedPayment(h) => tx'[h.tx].user = tx[h.tx].user
  BY DEF NamesCompletedPayment, RowsKept, RowKept
<1>8. h.pc = "pay_order" => NamesCompletedPayment(h)'
  BY <1>6 DEF HandlerOK
<1>9. h.pc \in {"refund_balance", "refund_create"} =>
        NamesCompletedPayment(h)' /\ tx'[h.tx].user = h.user
  BY <1>6, <1>7 DEF HandlerOK
<1>10. /\ h.pc \in WithMoney => h.amount > 0 /\ h.user \in Users
       /\ h.pc = "refund_create" => h.amount > 0 \/ h.amount \in RefundAmounts
       /\ h.pc \in {"staff_write", "worker_write"} => h.target # "NONE"
  BY DEF HandlerOK
<1>11. h.pc \in Driving => RowInProgress(h)'
  <2> SUFFICES ASSUME h.pc \in Driving PROVE RowInProgress(h)'
    OBVIOUS
  <2>1. RowInProgress(h) /\ tx'[h.tx].status = tx[h.tx].status
    BY DEF HandlerOK
  <2>2. h.tx \in 1..nTx /\ RowKept(h.tx)
    BY <2>1 DEF RowInProgress, RowsKept
  <2>3. h.tx \in 1..nTx' /\ tx'[h.tx].type = tx[h.tx].type
    BY <2>2, <1>1 DEF RowKept
  <2> QED BY <2>1, <2>3 DEF RowInProgress
<1> HIDE DEF NamesCompletedPayment, RowInProgress
<1> QED BY <1>2, <1>3, <1>4, <1>5, <1>8, <1>9, <1>10, <1>11 DEF HandlerOK

LEMMA UnchangedKept ==
  ASSUME TypeOK
  PROVE  /\ order' = order => OrdersKept
         /\ order' = order => NewlyPaidOK
         /\ UNCHANGED <<tx, nTx>> => RowsKept /\ NewRowsOK
<1>1. ASSUME order' = order PROVE OrdersKept /\ NewlyPaidOK
  BY <1>1 DEF OrdersKept, OrderKept, Exists, NewlyPaidOK
<1>2. ASSUME UNCHANGED <<tx, nTx>> PROVE RowsKept /\ NewRowsOK
  BY <1>2, ConstantsAssumption DEF RowsKept, RowKept, IsCompletedPayment, TypeOK, NewRowsOK
<1> QED BY <1>1, <1>2

\* A step that only moves its handler.
LEMMA QuietStep ==
  ASSUME TypeOK, NEW p \in Procs, NEW h \in Handler, HandlerOK(h), Moves(p, h),
         h.pc \notin Driving, UNCHANGED <<order, balance, tx, nTx, mode>>
  PROVE  StepOK(p, h)
<1>1. TypeOK'
  BY HandlerTyped, TablesKept DEF Moves
<1>2. HandlerOK(h)'
  BY DEF HandlerOK, NamesCompletedPayment, IsCompletedPayment, Exists
<1>3. KeepsToItsRow(p, h)
  BY DEF KeepsToItsRow
<1> QED BY <1>1, <1>2, <1>3, UnchangedKept DEF StepOK

LEMMA IdleOK == Idle.pc \notin Driving /\ HandlerOK(Idle) /\ HandlerOK(Idle)'
BY DEF HandlerOK, Idle, OnOrder, WithMoney, Driving

LEMMA IdleStep ==
  ASSUME TypeOK, NEW p \in Procs, Finish(p),
         UNCHANGED <<order, balance, tx, nTx, mode>>
  PROVE  StepOK(p, Idle)
BY QuietStep, IdleTyped, IdleOK DEF Finish, Moves

-----------------------------------------------------------------------------
(* Requests. *)

LEMMA PaymentLocals ==
  ASSUME NEW o \in Orders, NEW label \in {"pay_create", "bal_read"}
  PROVE  /\ Payment(label, o) \in Handler
         /\ Payment(label, o).pc = label
         /\ Payment(label, o).user = Owner[o]
         /\ Payment(label, o).order = o
         /\ Payment(label, o).amount = Total[o]
<1>1. Owner[o] \in Users /\ Total[o] \in Int
  BY ConstantsAssumption
<1>2. label \in Pc
  BY DEF Pc
<1>3. Payment(label, o) \in Handler
  BY <1>1, <1>2 DEF Payment, Idle, Handler, OrderStatus
<1> QED BY <1>3 DEF Payment, Idle

\* What a handler may rely on at each position, by its locals alone.
LEMMA NewPaymentOK ==
  ASSUME NEW h, h.pc \in {"pay_create", "bal_read"}, h.user \in Users, h.amount > 0
  PROVE  /\ h.pc \notin Driving
         /\ h.pc = "pay_create" => HandlerOK(h)
         /\ h.order \in Orders /\ Exists(h.order)' => HandlerOK(h)'
BY DEF HandlerOK, OnOrder, WithMoney, Driving

LEMMA BalanceCommitOK ==
  ASSUME NEW h, h.pc = "bal_commit", h.user \in Users, h.amount > 0,
         h.order \in Orders, Exists(h.order)
  PROVE  HandlerOK(h) /\ h.pc \notin Driving
BY DEF HandlerOK, OnOrder, WithMoney, Driving

LEMMA UpdateOK ==
  ASSUME NEW h, h.pc \in {"staff_write", "cancel_write", "worker_write"},
         h.order \in Orders, Exists(h.order), h.target # "NONE",
         h.pc = "staff_write" =>
           /\ h.target = "COMPLETED" => order[h.order].paid
           /\ h.target = "CONFIRMED" => order[h.order].paid \/ order[h.order].method = "CASH"
  PROVE  HandlerOK(h) /\ h.pc \notin Driving
BY DEF HandlerOK, OnOrder, WithMoney, Driving

LEMMA RefundOK ==
  ASSUME NEW h, h.pc \in {"refund_balance", "refund_create"},
         h.amount > 0 \/ (h.pc = "refund_create" /\ h.amount \in RefundAmounts),
         h.tx \in 1..nTx, IsCompletedPayment(h.tx),
         tx[h.tx].order = h.order, tx[h.tx].user = h.user,
         h.pc = "refund_balance" => /\ h.user \in Users
                                    /\ h.order \in Orders
                                    /\ Exists(h.order)
  PROVE  HandlerOK(h) /\ h.pc \notin Driving
BY DEF HandlerOK, NamesCompletedPayment, OnOrder, WithMoney, Driving

LEMMA CreateOrderStep ==
  ASSUME TypeOK, NEW p \in Procs, NEW o \in Orders, NEW method \in PaymentMethod,
         CreateOrder(p, o, method), mode' = mode
  PROVE  \E h \in Handler : StepOK(p, h)
<1> DEFINE h == CASE method = "CARD"    -> Payment("pay_create", o)
                  [] method = "BALANCE" -> Payment("bal_read", o)
                  [] method = "CASH"    -> Idle
           row == [status |-> "PENDING", paid |-> FALSE, method |-> method]
<1>1. h \in Handler /\ h = IF method = "CASH" THEN Idle
                           ELSE Payment(IF method = "CARD" THEN "pay_create" ELSE "bal_read", o)
  BY PaymentLocals, IdleTyped DEF PaymentMethod
<1>2. row \in OrderRow
  BY DEF OrderRow, OrderStatus
<1>3. order' = [order EXCEPT ![o] = row] /\ ~Exists(o)
  BY DEF CreateOrder
<1>4. order' \in [Orders -> OrderRow] /\ order'[o] = row
      /\ \A x \in Orders \ {o} : order'[x] = order[x]
  BY <1>2, <1>3 DEF TypeOK
<1>5. Moves(p, h) /\ UNCHANGED <<balance, tx, nTx, mode>>
  BY DEF CreateOrder, Start, Moves
<1>6. TypeOK'
  BY <1>1, <1>4, <1>5, HandlerTyped DEF TypeOK, Moves
<1>7. OrdersKept /\ RowsKept /\ NewRowsOK /\ NewlyPaidOK
  BY <1>3, <1>4, <1>5, UnchangedKept DEF OrdersKept, OrderKept, Exists, NewlyPaidOK
<1>8. Exists(o)'
  BY <1>4 DEF Exists
<1>9. Owner[o] \in Users /\ Total[o] > 0
  BY ConstantsAssumption
<1>10. HandlerOK(h)'
  <2>1. CASE method = "CASH"
    BY <2>1, IdleOK
  <2>2. HandlerOK(Payment("pay_create", o))' /\ HandlerOK(Payment("bal_read", o))'
    BY <1>8, <1>9, PaymentLocals, NewPaymentOK
  <2>3. CASE method # "CASH"
    BY <1>1, <2>2, <2>3
  <2> QED BY <2>1, <2>3
<1>11. KeepsToItsRow(p, h)
  <2>1. /\ Payment("pay_create", o).pc \notin Driving
        /\ Payment("bal_read", o).pc \notin Driving
    BY PaymentLocals DEF Driving
  <2>2. h.pc \notin Driving
    BY <1>1, <2>1, IdleOK
  <2> QED BY <1>5, <2>2 DEF KeepsToItsRow
<1> HIDE DEF h
<1> QED BY <1>1, <1>5, <1>6, <1>7, <1>10, <1>11 DEF StepOK

LEMMA RequestStep ==
  ASSUME TypeOK, PaymentsPositive, NEW p \in Procs, Request(p)
  PROVE  \E h \in Handler : StepOK(p, h)
<1>1. ASSUME NEW u \in Users, NEW o \in Orders \cup {NoOrder}, NEW a \in PayAmounts,
             RequestPayment(p, u, o, a), mode' = mode
      PROVE  \E h \in Handler : StepOK(p, h)
  <2> DEFINE h == [Idle EXCEPT !.pc = "pay_create", !.user = u, !.order = o, !.amount = a]
  <2>1. h \in Handler
    <3>1. "pay_create" \in Pc /\ a \in Int
      BY ConstantsAssumption DEF Pc
    <3> QED BY <3>1, IdleTyped DEF Handler
  <2>2. HandlerOK(h) /\ h.pc \notin Driving
    <3>1. h.pc = "pay_create" /\ h.user = u /\ h.amount = a
      BY IdleTyped DEF Handler
    <3> HIDE DEF h
    <3> QED BY <3>1, ConstantsAssumption, NewPaymentOK
  <2> QED BY <1>1, <2>1, <2>2, QuietStep DEF RequestPayment, Start, Moves
<1>2. ASSUME NEW o \in Orders, NEW target \in OrderStatus,
             UpdateStatusRead(p, o, target), mode' = mode
      PROVE  \E h \in Handler : StepOK(p, h)
  <2> DEFINE h == [Idle EXCEPT !.pc = "staff_write", !.order = o, !.target = target,
                               !.paid = order[o].paid]
  <2>1. order[o].paid \in BOOLEAN
    BY DEF TypeOK, OrderRow
  <2>2. h \in Handler
    <3>1. "staff_write" \in Pc
      BY DEF Pc
    <3> QED BY <2>1, <3>1, IdleTyped DEF Handler
  <2>3. Exists(o) /\ target # "NONE"
    BY <1>2 DEF UpdateStatusRead, validTransitions, Exists, OrderStatus, TypeOK, OrderRow
  <2>4. HandlerOK(h) /\ h.pc \notin Driving
    <3>1. h.pc = "staff_write" /\ h.order = o /\ h.target = target
      BY IdleTyped DEF Handler
    <3> HIDE DEF h
    <3> QED BY <3>1, <1>2, <2>3, UpdateOK DEF UpdateStatusRead
  <2> QED BY <1>2, <2>2, <2>4, QuietStep DEF UpdateStatusRead, Start, Moves
<1>3. ASSUME NEW o \in Orders, CancelRead(p, o), mode' = mode
      PROVE  \E h \in Handler : StepOK(p, h)
  <2> DEFINE h == [Idle EXCEPT !.pc = "cancel_write", !.order = o,
                               !.target = "CANCELLED", !.paid = order[o].paid]
  <2>1. order[o].paid \in BOOLEAN
    BY DEF TypeOK, OrderRow
  <2>2. h \in Handler
    <3>1. "cancel_write" \in Pc /\ "CANCELLED" \in OrderStatus
      BY DEF Pc, OrderStatus
    <3> QED BY <2>1, <3>1, IdleTyped DEF Handler
  <2>3. HandlerOK(h) /\ h.pc \notin Driving
    <3>1. h.pc = "cancel_write" /\ h.order = o /\ h.target = "CANCELLED"
      BY IdleTyped DEF Handler
    <3> HIDE DEF h
    <3> QED BY <3>1, <1>3, UpdateOK DEF CancelRead, Exists
  <2> QED BY <1>3, <2>2, <2>3, QuietStep DEF CancelRead, Start, Moves
<1>4. ASSUME NEW o \in Orders, NEW target \in DOMAIN WorkerMayMoveFrom,
             WorkerRead(p, o, target), mode' = mode
      PROVE  \E h \in Handler : StepOK(p, h)
  <2> DEFINE h == [Idle EXCEPT !.pc = "worker_write", !.order = o, !.target = target]
  <2>1. target \in {"CONFIRMED", "COMPLETED", "CANCELLED"}
    BY DEF WorkerMayMoveFrom
  <2>2. h \in Handler
    <3>1. "worker_write" \in Pc /\ target \in OrderStatus
      BY <2>1 DEF Pc, OrderStatus
    <3> QED BY <3>1, IdleTyped DEF Handler
  <2>3. Exists(o)
    BY <1>4, <2>1 DEF WorkerRead, WorkerMayMoveFrom, Exists
  <2>4. HandlerOK(h) /\ h.pc \notin Driving
    <3>1. h.pc = "worker_write" /\ h.order = o /\ h.target = target
      BY IdleTyped DEF Handler
    <3> HIDE DEF h
    <3> QED BY <3>1, <2>1, <2>3, UpdateOK
  <2> QED BY <1>4, <2>2, <2>4, QuietStep DEF WorkerRead, Start, Moves
<1>5. ASSUME NEW i \in 1..nTx, NEW a \in RefundChoices(i),
             RequestRefund(p, i, a), mode' = mode
      PROVE  \E h \in Handler : StepOK(p, h)
  <2> DEFINE h == [Idle EXCEPT !.pc = "refund_create", !.user = tx[i].user,
                               !.order = tx[i].order, !.tx = i, !.amount = a]
  <2>1. i \in TxIds /\ tx[i] \in TxRow /\ IsCompletedPayment(i)
    BY <1>5, ConstantsAssumption DEF TypeOK, TxIds, RequestRefund
  <2>2. a \in Int /\ (a > 0 \/ a \in RefundAmounts)
    BY <2>1, ConstantsAssumption DEF RefundChoices, PaymentsPositive, IsCompletedPayment, TxRow
  <2>3. h \in Handler
    <3>1. "refund_create" \in Pc
      BY DEF Pc
    <3>2. tx[i].user \in Users \cup {NoUser} /\ tx[i].order \in Orders \cup {NoOrder}
      BY <2>1 DEF TxRow
    <3> QED BY <2>1, <2>2, <3>1, <3>2, IdleTyped DEF Handler
  <2>4. HandlerOK(h) /\ h.pc \notin Driving
    <3>1. /\ h.pc = "refund_create" /\ h.user = tx[i].user /\ h.amount = a
          /\ h.order = tx[i].order /\ h.tx = i
      BY IdleTyped DEF Handler
    <3> HIDE DEF h
    <3> QED BY <3>1, <2>1, <2>2, RefundOK
  <2> QED BY <1>5, <2>3, <2>4, QuietStep DEF RequestRefund, Start, Moves
<1> QED BY <1>1, <1>2, <1>3, <1>4, <1>5, CreateOrderStep DEF Request

-----------------------------------------------------------------------------
(* Steps of a handler in flight. *)

LEMMA MovesTyped ==
  ASSUME TypeOK, NEW p \in Procs, NEW h \in Handler, Moves(p, h)
  PROVE  proc' \in [Procs -> Handler]
BY HandlerTyped DEF Moves

LEMMA GotoMoves ==
  ASSUME TypeOK, NEW p \in Procs, NEW label \in Pc, Goto(p, label)
  PROVE  /\ [proc[p] EXCEPT !.pc = label] \in Handler
         /\ Moves(p, [proc[p] EXCEPT !.pc = label])
<1>1. proc[p] \in Handler
  BY DEF TypeOK
<1> QED BY <1>1 DEF Goto, Moves, Handler

\* Appending a row.
LEMMA InsertStep ==
  ASSUME TypeOK, NEW p \in Procs, NEW h \in Handler, Moves(p, h),
         NEW row \in TxRow, row.type # "NONE", Insert(row),
         row.type = "PAYMENT" => row.amount > 0,
         row.type = "REFUND" => \E j \in 1..nTx : Backs(j, row),
         order' \in [Orders -> OrderRow], OrdersKept, NewlyPaidOK,
         balance' \in [Users -> Int], mode' = mode,
         h.pc \in Driving => h.tx > nTx, HandlerOK(h)'
  PROVE  StepOK(p, h)
<1>1. TypeOK'
  BY MovesTyped, InsertTyped DEF TypeOK
<1>2. RowsKept /\ KeepsToItsRow(p, h)
  <2>1. nTx' >= nTx
    BY InsertTyped DEF TypeOK
  <2>2. \A i \in 1..nTx : tx'[i] = tx[i]
    BY InsertTyped
  <2>3. \A i \in 1..nTx : RowKept(i)
    BY <2>2 DEF RowKept, IsCompletedPayment
  <2> QED BY <2>1, <2>2, <2>3 DEF RowsKept, KeepsToItsRow
<1>3. NewRowsOK
  <2>1. \A i \in 1..nTx' : i > nTx => tx'[i] = row
    BY InsertTyped, ConstantsAssumption DEF TypeOK
  <2>2. row.type = "REFUND" => \E j \in 1..nTx : Backs(j, row)'
    BY InsertTyped DEF Backs, IsCompletedPayment
  <2>3. ASSUME NEW i \in 1..nTx', tx'[i] = row, NEW j \in 1..nTx, Backs(j, row)'
        PROVE  Backs(j, tx[i])'
    BY <2>3 DEF Backs
  <2> QED BY <2>1, <2>2, <2>3 DEF NewRowsOK
<1> QED BY <1>1, <1>2, <1>3 DEF StepOK

\* Writing the row in progress of the handler.
LEMMA RowStep ==
  ASSUME TypeOK, NEW p \in Procs, NEW h \in Handler, Moves(p, h),
         proc[p].pc \in Driving, RowInProgress(proc[p]), NEW row \in TxRow,
         row.type = tx[proc[p].tx].type, row.user = tx[proc[p].tx].user,
         row.order = tx[proc[p].tx].order, row.amount = tx[proc[p].tx].amount,
         row.original = tx[proc[p].tx].original,
         tx' = [tx EXCEPT ![proc[p].tx] = row], UNCHANGED <<order, balance, nTx, mode>>,
         h.pc \in Driving => h.tx = proc[p].tx, HandlerOK(h)'
  PROVE  StepOK(p, h)
<1> DEFINE i == proc[p].tx
<1>1. 1..nTx \subseteq TxIds /\ i \in 1..nTx /\ ~IsCompletedPayment(i)
  BY ConstantsAssumption DEF TypeOK, TxIds, RowInProgress, IsCompletedPayment
<1>2. /\ tx' \in [TxIds -> TxRow]
      /\ tx'[i] = row
      /\ \A j \in TxIds \ {i} : tx'[j] = tx[j]
  BY <1>1 DEF TypeOK
<1>3. TypeOK'
  <2>1. \A j \in TxIds : tx'[j].type = tx[j].type
    BY <1>1, <1>2
  <2>2. \A j \in TxIds : tx'[j].type = "NONE" <=> j > nTx'
    BY <2>1 DEF TypeOK
  <2> QED BY <1>2, <2>2, MovesTyped DEF TypeOK
<1>4. \A j \in 1..nTx : RowKept(j)
  <2>1. RowKept(i)
    BY <1>1, <1>2 DEF RowKept
  <2>2. \A j \in 1..nTx \ {i} : RowKept(j)
    BY <1>1, <1>2 DEF RowKept, IsCompletedPayment
  <2> QED BY <2>1, <2>2
<1>5. nTx' >= nTx /\ NewRowsOK
  BY ConstantsAssumption DEF TypeOK, NewRowsOK
<1>6. KeepsToItsRow(p, h)
  BY <1>1, <1>2 DEF KeepsToItsRow
<1> QED BY <1>3, <1>4, <1>5, <1>6, UnchangedKept DEF StepOK, RowsKept

\* Writing an order row.
LEMMA OrderStep ==
  ASSUME TypeOK, NEW p \in Procs, NEW h \in Handler, Moves(p, h), h.pc \notin Driving,
         order' \in [Orders -> OrderRow], OrdersKept, NewlyPaidOK,
         UNCHANGED <<balance, tx, nTx, mode>>, HandlerOK(h)'
  PROVE  StepOK(p, h)
<1>1. TypeOK'
  BY MovesTyped DEF TypeOK
<1>2. KeepsToItsRow(p, h)
  BY DEF KeepsToItsRow
<1> QED BY <1>1, <1>2, UnchangedKept DEF StepOK

\* The fields of a row built from the empty one.
NewRow(type, status, provider, user, o, amount) ==
  [EmptyTx EXCEPT !.type = type, !.status = status, !.provider = provider,
                  !.user = user, !.order = o, !.amount = amount]

LEMMA NewRowTyped ==
  ASSUME NEW type \in {"PAYMENT", "REFUND"}, NEW status \in TxStatus,
         NEW provider \in {"stripe", "balance"}, NEW user \in Users,
         NEW o \in Orders \cup {NoOrder}, NEW amount \in Int
  PROVE  LET row == NewRow(type, status, provider, user, o, amount)
         IN  /\ row \in TxRow
             /\ row.type = type
             /\ row.status = status
             /\ row.user = user
             /\ row.order = o
             /\ row.amount = amount
             /\ row.original = 0
<1> DEFINE row == NewRow(type, status, provider, user, o, amount)
<1>1. row \in TxRow
  BY EmptyTxTyped DEF TxRow, NewRow
<1>2. row.type = type /\ row.status = status /\ row.user = user
  BY EmptyTxTyped DEF TxRow, NewRow
<1>3. row.order = o /\ row.amount = amount
  BY EmptyTxTyped DEF TxRow, NewRow
<1>4. row.original = 0
  BY DEF EmptyTx, NewRow
<1> QED BY <1>1, <1>2, <1>3, <1>4

LEMMA BalanceStep ==
  ASSUME TypeOK, HandlersOK, NEW p \in Procs, mode' = mode,
         BalanceSuffices(p) \/ BalanceInsufficient(p) \/ BalancePayment(p)
  PROVE  \E h \in Handler : StepOK(p, h)
<1>1. proc[p] \in Handler /\ HandlerOK(proc[p])
  BY DEF TypeOK, HandlersOK
<1>2. CASE BalanceSuffices(p)
  <2> DEFINE h == [proc[p] EXCEPT !.pc = "bal_commit"]
  <2>1. "bal_commit" \in Pc
    BY DEF Pc
  <2>2. /\ h \in Handler /\ Moves(p, h)
        /\ h.pc = "bal_commit" /\ h.user = proc[p].user /\ h.order = proc[p].order
        /\ h.amount = proc[p].amount
    BY <1>1, <1>2, <2>1, GotoMoves DEF BalanceSuffices, Handler
  <2>3. HandlerOK(h) /\ h.pc \notin Driving
    <3>1. /\ proc[p].user \in Users /\ proc[p].amount > 0
          /\ proc[p].order \in Orders /\ Exists(proc[p].order)
      BY <1>1, <1>2 DEF BalanceSuffices, At, HandlerOK, OnOrder, WithMoney
    <3> HIDE DEF h
    <3> QED BY <2>2, <3>1, BalanceCommitOK
  <2> QED BY <1>2, <2>2, <2>3, QuietStep DEF BalanceSuffices
<1>3. CASE BalanceInsufficient(p)
  BY <1>3, IdleStep, IdleTyped DEF BalanceInsufficient
<1>4. CASE BalancePayment(p)
  <2> DEFINE row == NewRow("PAYMENT", "COMPLETED", "balance", proc[p].user,
                           proc[p].order, proc[p].amount)
  <2>1. /\ proc[p].user \in Users /\ proc[p].order \in Orders
        /\ proc[p].amount \in Int /\ proc[p].amount > 0
    BY <1>1, <1>4 DEF BalancePayment, At, HandlerOK, OnOrder, WithMoney, Handler
  <2>2. /\ row \in TxRow /\ row.type = "PAYMENT" /\ row.status = "COMPLETED"
        /\ row.order = proc[p].order /\ row.amount > 0
    BY <2>1, NewRowTyped, RowNames
  <2>3. balance' \in [Users -> Int]
    BY <1>4, <2>1 DEF BalancePayment, TypeOK
  <2>4. order' \in [Orders -> OrderRow] /\ OrdersKept
    BY <1>4, <2>1, PaidWritten DEF BalancePayment
  <2>5. Insert(row) /\ Moves(p, Idle)
    BY <1>4 DEF BalancePayment, Finish, Moves, NewRow
  <2>6. NewlyPaidOK
    <3>1. PICK o \in Orders : o = proc[p].order
      BY <2>1
    <3>2. nTx + 1 \in 1..nTx' /\ tx'[nTx + 1] = row
      BY <2>2, <2>5, InsertTyped, ConstantsAssumption DEF TypeOK
    <3>3. HasCompletedPayment(o)'
      <4> HIDE DEF row
      <4> QED BY <2>2, <3>1, <3>2 DEF HasCompletedPayment, IsCompletedPayment
    <3>4. \A x \in Orders \ {o} : order'[x] = order[x]
      BY <1>4, <2>1, <3>1, PaidWritten DEF BalancePayment
    <3> QED BY <3>3, <3>4 DEF NewlyPaidOK
  <2> HIDE DEF row
  <2> QED BY <1>4, <2>2, <2>3, <2>4, <2>5, <2>6, IdleOK, IdleTyped, InsertStep
<1> QED BY <1>2, <1>3, <1>4

-----------------------------------------------------------------------------
(* Card payments and refunds in progress. *)

\* A handler that drives a row may rely on the row alone.
LEMMA DrivingOK ==
  ASSUME NEW h, h.pc \in Driving, RowInProgress(h)',
         h.pc \in {"pay_mark", "pay_wait"} => tx'[h.tx].order = h.order
  PROVE  HandlerOK(h)'
BY DEF HandlerOK, OnOrder, WithMoney, Driving

\* A handler moves on with the row it drives and writes its status.
LEMMA RowDriven ==
  ASSUME TypeOK, HandlersOK, NEW p \in Procs, NEW h \in Handler, Moves(p, h),
         proc[p].pc \in Driving, h.pc \in Driving,
         h.tx = proc[p].tx, h.order = proc[p].order,
         h.pc \in {"pay_mark", "pay_wait"} <=> proc[p].pc \in {"pay_mark", "pay_wait"},
         NEW row \in TxRow,
         row.type = tx[proc[p].tx].type, row.user = tx[proc[p].tx].user,
         row.order = tx[proc[p].tx].order, row.amount = tx[proc[p].tx].amount,
         row.original = tx[proc[p].tx].original,
         row.status = IF h.pc \in {"pay_mark", "refund_mark"}
                      THEN "PENDING" ELSE "PROCESSING",
         tx' = [tx EXCEPT ![proc[p].tx] = row], UNCHANGED <<order, balance, nTx, mode>>
  PROVE  StepOK(p, h)
<1>1. HandlerOK(proc[p]) /\ RowInProgress(proc[p])
  BY DEF HandlersOK, HandlerOK
<1>2. h.tx \in 1..nTx /\ h.tx \in TxIds
  BY <1>1, ConstantsAssumption DEF RowInProgress, TypeOK, TxIds
<1>3. tx'[h.tx] = row
  BY <1>2 DEF TypeOK
<1>4. RowInProgress(h)'
  BY <1>1, <1>2, <1>3 DEF RowInProgress
<1>5. h.pc \in {"pay_mark", "pay_wait"} => tx'[h.tx].order = h.order
  BY <1>1, <1>3 DEF HandlerOK
<1> QED BY <1>1, <1>4, <1>5, DrivingOK, RowStep

\* The row a handler drives, with another status.
LEMMA RowRewritten ==
  ASSUME TypeOK, HandlersOK, NEW p \in Procs, proc[p].pc \in Driving,
         NEW status \in TxStatus, SetTxStatus(proc[p].tx, status)
  PROVE  \E row \in TxRow :
           /\ row.type = tx[proc[p].tx].type /\ row.user = tx[proc[p].tx].user
           /\ row.order = tx[proc[p].tx].order /\ row.amount = tx[proc[p].tx].amount
           /\ row.original = tx[proc[p].tx].original
           /\ row.status = status
           /\ tx' = [tx EXCEPT ![proc[p].tx] = row]
           /\ nTx' = nTx
<1> DEFINE row == [tx[proc[p].tx] EXCEPT !.status = status]
<1>1. proc[p].tx \in TxIds
  BY ConstantsAssumption DEF HandlersOK, HandlerOK, RowInProgress, TypeOK, TxIds
<1>2. tx[proc[p].tx] \in TxRow
  BY <1>1 DEF TypeOK
<1>3. row \in TxRow /\ row.status = status
  BY <1>2 DEF TxRow
<1>4. /\ row.type = tx[proc[p].tx].type /\ row.user = tx[proc[p].tx].user
      /\ row.order = tx[proc[p].tx].order /\ row.amount = tx[proc[p].tx].amount
      /\ row.original = tx[proc[p].tx].original
  BY <1>2 DEF TxRow
<1>5. tx' = [tx EXCEPT ![proc[p].tx] = row] /\ nTx' = nTx
  BY DEF SetTxStatus
<1> HIDE DEF row
<1> QED BY <1>3, <1>4, <1>5

LEMMA ProcessStep ==
  ASSUME TypeOK, HandlersOK, NEW p \in Procs, mode' = mode,
         \/ StartProcessing(p) \/ PaymentSucceeds(p) \/ RetryPayment(p)
         \/ PaymentFails(p) \/ StartRefund(p) \/ CompleteRefund(p)
  PROVE  \E h \in Handler : StepOK(p, h)
<1>1. proc[p] \in Handler /\ HandlerOK(proc[p])
  BY DEF TypeOK, HandlersOK
<1>2. proc[p].pc \in Driving
  BY DEF StartProcessing, PaymentSucceeds, RetryPayment, PaymentFails, StartRefund,
         CompleteRefund, At, Driving
<1>3. RowInProgress(proc[p])
  BY <1>1, <1>2 DEF HandlerOK
<1>4. proc[p].tx \in TxIds /\ tx[proc[p].tx] \in TxRow
  BY <1>3, ConstantsAssumption DEF RowInProgress, TypeOK, TxIds
<1>5. ASSUME NEW label \in Pc
      PROVE  LET h == [proc[p] EXCEPT !.pc = label]
             IN  /\ h.pc = label /\ h.tx = proc[p].tx /\ h.order = proc[p].order
  BY <1>1 DEF Handler
<1>6. {"pay_mark", "pay_wait", "refund_wait", "pay_order"} \subseteq Pc
  BY DEF Pc
<1>7. CASE StartProcessing(p)
  <2>1. PICK h \in Handler : h = [proc[p] EXCEPT !.pc = "pay_wait"] /\ Moves(p, h)
    BY <1>6, <1>7, GotoMoves DEF StartProcessing
  <2>2. h.pc = "pay_wait" /\ h.tx = proc[p].tx /\ h.order = proc[p].order
    BY <1>5, <1>6, <2>1
  <2>3. PICK row \in TxRow :
           /\ row.type = tx[proc[p].tx].type /\ row.user = tx[proc[p].tx].user
           /\ row.order = tx[proc[p].tx].order /\ row.amount = tx[proc[p].tx].amount
           /\ row.original = tx[proc[p].tx].original
           /\ row.status = "PROCESSING"
           /\ tx' = [tx EXCEPT ![proc[p].tx] = row]
           /\ nTx' = nTx
    BY <1>2, <1>7, RowNames, RowRewritten DEF StartProcessing
  <2>4. proc[p].pc = "pay_mark" /\ UNCHANGED <<order, balance>>
    BY <1>7 DEF StartProcessing, At
  <2> QED BY <1>2, <2>1, <2>2, <2>3, <2>4, RowDriven DEF Driving
<1>8. CASE StartRefund(p)
  <2>1. PICK h \in Handler : h = [proc[p] EXCEPT !.pc = "refund_wait"] /\ Moves(p, h)
    BY <1>6, <1>8, GotoMoves DEF StartRefund
  <2>2. h.pc = "refund_wait" /\ h.tx = proc[p].tx /\ h.order = proc[p].order
    BY <1>5, <1>6, <2>1
  <2>3. PICK row \in TxRow :
           /\ row.type = tx[proc[p].tx].type /\ row.user = tx[proc[p].tx].user
           /\ row.order = tx[proc[p].tx].order /\ row.amount = tx[proc[p].tx].amount
           /\ row.original = tx[proc[p].tx].original
           /\ row.status = "PROCESSING"
           /\ tx' = [tx EXCEPT ![proc[p].tx] = row]
           /\ nTx' = nTx
    BY <1>2, <1>8, RowNames, RowRewritten DEF StartRefund
  <2>4. proc[p].pc = "refund_mark" /\ UNCHANGED <<order, balance>>
    BY <1>8 DEF StartRefund, At
  <2> QED BY <1>2, <2>1, <2>2, <2>3, <2>4, RowDriven DEF Driving
<1>9. CASE RetryPayment(p)
  <2> DEFINE row == [tx[proc[p].tx] EXCEPT !.status = "PENDING", !.retries = @ + 1]
  <2>1. PICK h \in Handler : h = [proc[p] EXCEPT !.pc = "pay_mark"] /\ Moves(p, h)
    BY <1>6, <1>9, GotoMoves DEF RetryPayment
  <2>2. h.pc = "pay_mark" /\ h.tx = proc[p].tx /\ h.order = proc[p].order
    BY <1>5, <1>6, <2>1
  <2>3. row \in TxRow /\ row.status = "PENDING"
    <3>1. tx[proc[p].tx].retries + 1 \in Nat /\ "PENDING" \in TxStatus
      BY <1>4, RowNames DEF TxRow
    <3>2. row \in TxRow
      BY <1>4, <3>1 DEF TxRow
    <3> QED BY <1>4, <3>2 DEF TxRow
  <2>4. /\ row.type = tx[proc[p].tx].type /\ row.user = tx[proc[p].tx].user
        /\ row.order = tx[proc[p].tx].order /\ row.amount = tx[proc[p].tx].amount
        /\ row.original = tx[proc[p].tx].original
    BY <1>4 DEF TxRow
  <2>5. tx' = [tx EXCEPT ![proc[p].tx] = row]
    BY <1>4, <1>9 DEF RetryPayment, TypeOK, TxRow
  <2>6. proc[p].pc = "pay_wait" /\ UNCHANGED <<order, balance, nTx>>
    BY <1>9 DEF RetryPayment, At
  <2> HIDE DEF row
  <2> QED BY <1>2, <2>1, <2>2, <2>3, <2>4, <2>5, <2>6, RowDriven DEF Driving
<1>10. ASSUME NEW status \in {"COMPLETED", "FAILED"}, SetTxStatus(proc[p].tx, status),
              UNCHANGED <<order, balance>>, Finish(p)
       PROVE  \E h \in Handler : StepOK(p, h)
  <2>1. PICK row \in TxRow :
           /\ row.type = tx[proc[p].tx].type /\ row.user = tx[proc[p].tx].user
           /\ row.order = tx[proc[p].tx].order /\ row.amount = tx[proc[p].tx].amount
           /\ row.original = tx[proc[p].tx].original
           /\ tx' = [tx EXCEPT ![proc[p].tx] = row]
           /\ nTx' = nTx
    BY <1>2, <1>10, RowNames, RowRewritten
  <2>2. Moves(p, Idle) /\ Idle.pc \notin Driving
    BY <1>10, IdleOK DEF Finish, Moves
  <2> QED BY <1>2, <1>3, <1>10, <2>1, <2>2, IdleOK, IdleTyped, RowStep
<1>11. CASE PaymentFails(p)
  BY <1>10, <1>11 DEF PaymentFails
<1>12. CASE CompleteRefund(p)
  BY <1>10, <1>12 DEF CompleteRefund
<1>13. CASE PaymentSucceeds(p)
  <2>1. CASE tx[proc[p].tx].order = NoOrder
    BY <1>10, <1>13, <2>1 DEF PaymentSucceeds
  <2>2. CASE tx[proc[p].tx].order # NoOrder
    <3>1. PICK h \in Handler : h = [proc[p] EXCEPT !.pc = "pay_order"] /\ Moves(p, h)
      BY <1>6, <1>13, <2>2, GotoMoves DEF PaymentSucceeds
    <3>2. h.pc = "pay_order" /\ h.tx = proc[p].tx /\ h.order = proc[p].order
      BY <1>5, <1>6, <3>1
    <3>3. PICK row \in TxRow :
             /\ row.type = tx[proc[p].tx].type /\ row.user = tx[proc[p].tx].user
             /\ row.order = tx[proc[p].tx].order /\ row.amount = tx[proc[p].tx].amount
             /\ row.original = tx[proc[p].tx].original
             /\ row.status = "COMPLETED"
             /\ tx' = [tx EXCEPT ![proc[p].tx] = row]
             /\ nTx' = nTx
      BY <1>2, <1>13, RowNames, RowRewritten DEF PaymentSucceeds
    <3>4. proc[p].pc = "pay_wait" /\ UNCHANGED <<order, balance>>
      BY <1>13 DEF PaymentSucceeds, At
    <3>5. tx[proc[p].tx].order = proc[p].order /\ tx[proc[p].tx].type = "PAYMENT"
      BY <1>1, <1>3, <3>4 DEF HandlerOK, RowInProgress
    <3>6. h.order \in Orders
      BY <1>4, <2>2, <3>2, <3>5 DEF TxRow
    <3>7. NamesCompletedPayment(h)'
      <4>1. h.tx \in 1..nTx' /\ tx'[h.tx] = row
        BY <1>3, <1>4, <3>2, <3>3 DEF RowInProgress, TypeOK
      <4> QED BY <4>1, <3>2, <3>3, <3>5 DEF NamesCompletedPayment, IsCompletedPayment
    <3>8. HandlerOK(h)' /\ h.pc \notin Driving
      BY <3>2, <3>6, <3>7 DEF HandlerOK, OnOrder, WithMoney, Driving
    <3> QED BY <1>2, <1>3, <3>1, <3>3, <3>4, <3>8, RowStep
  <2> QED BY <2>1, <2>2
<1> QED BY <1>7, <1>8, <1>9, <1>11, <1>12, <1>13

LEMMA PaymentStep ==
  ASSUME TypeOK, HandlersOK, NEW p \in Procs, mode' = mode,
         CardMissing(p) \/ CreatePayment(p) \/ UpdateOrderOnPaymentSuccess(p)
  PROVE  \E h \in Handler : StepOK(p, h)
<1>1. proc[p] \in Handler /\ HandlerOK(proc[p])
  BY DEF TypeOK, HandlersOK
<1>2. CASE CardMissing(p)
  BY <1>2, IdleStep, IdleTyped DEF CardMissing
<1>3. CASE CreatePayment(p)
  <2> DEFINE row == NewRow("PAYMENT", "PENDING", "stripe", proc[p].user,
                           proc[p].order, proc[p].amount)
  <2>1. proc[p].user \in Users /\ proc[p].amount > 0
    BY <1>1, <1>3 DEF CreatePayment, At, HandlerOK, WithMoney
  <2>2. /\ row \in TxRow /\ row.type = "PAYMENT" /\ row.status = "PENDING"
        /\ row.order = proc[p].order /\ row.amount > 0
    BY <1>1, <2>1, NewRowTyped, RowNames DEF Handler
  <2>3. Insert(row) /\ UNCHANGED <<order, balance>>
    BY <1>3 DEF CreatePayment, NewRow
  <2> HIDE DEF row
  <2>4. nTx + 1 \in TxIds /\ nTx + 1 \in 1..nTx' /\ nTx + 1 > nTx /\ tx'[nTx + 1] = row
    BY <2>2, <2>3, InsertTyped, ConstantsAssumption DEF TypeOK
  <2>5. PICK h : h = [proc[p] EXCEPT !.pc = "pay_mark", !.tx = nTx + 1]
    OBVIOUS
  <2>6. /\ h \in Handler /\ h.pc = "pay_mark" /\ h.tx = nTx + 1
        /\ h.order = proc[p].order
    <3>1. "pay_mark" \in Pc
      BY DEF Pc
    <3> QED BY <1>1, <2>4, <2>5, <3>1 DEF Handler
  <2>7. Moves(p, h)
    BY <1>1, <1>3, <2>5 DEF CreatePayment, Moves, TypeOK, Handler
  <2>8. HandlerOK(h)'
    <3>1. RowInProgress(h)'
      BY <2>2, <2>4, <2>6 DEF RowInProgress
    <3> QED BY <2>2, <2>4, <2>6, <3>1, DrivingOK DEF Driving
  <2>9. order' \in [Orders -> OrderRow] /\ balance' \in [Users -> Int]
    BY <2>3 DEF TypeOK
  <2> QED BY <2>2, <2>3, <2>4, <2>6, <2>7, <2>8, <2>9, UnchangedKept, InsertStep
<1>4. CASE UpdateOrderOnPaymentSuccess(p)
  <2>1. PICK o \in Orders : o = proc[p].order
    BY <1>1, <1>4 DEF UpdateOrderOnPaymentSuccess, At, HandlerOK, OnOrder
  <2>2. NamesCompletedPayment(proc[p]) /\ UNCHANGED <<balance, tx, nTx>>
    BY <1>1, <1>4 DEF UpdateOrderOnPaymentSuccess, At, HandlerOK
  <2>3. HasCompletedPayment(o)'
    BY <2>1, <2>2 DEF NamesCompletedPayment, HasCompletedPayment, IsCompletedPayment
  <2>4. /\ order' \in [Orders -> OrderRow] /\ OrdersKept
        /\ \A x \in Orders \ {o} : order'[x] = order[x]
    BY <1>4, <2>1, PaidWritten DEF UpdateOrderOnPaymentSuccess
  <2>5. NewlyPaidOK
    BY <2>3, <2>4 DEF NewlyPaidOK
  <2>6. Moves(p, Idle)
    BY <1>4 DEF UpdateOrderOnPaymentSuccess, Finish, Moves
  <2> QED BY <2>2, <2>4, <2>5, <2>6, IdleOK, IdleTyped, OrderStep
<1> QED BY <1>2, <1>3, <1>4

LEMMA StatusStep ==
  ASSUME TypeOK, HandlersOK, NEW p \in Procs, mode' = mode,
         UpdateStatusWrite(p) \/ CancelWrite(p) \/ WorkerWrite(p)
  PROVE  \E h \in Handler : StepOK(p, h)
<1>1. proc[p] \in Handler /\ HandlerOK(proc[p])
  BY DEF TypeOK, HandlersOK
<1>2. PICK o \in Orders : o = proc[p].order /\ Exists(o)
  BY <1>1 DEF UpdateStatusWrite, CancelWrite, WorkerWrite, At, HandlerOK, OnOrder
<1>3. PICK status \in OrderStatus : status # "NONE" /\ SetOrderStatus(o, status)
  <2>1. CASE UpdateStatusWrite(p)
    BY <1>1, <1>2, <2>1 DEF UpdateStatusWrite, At, HandlerOK, Handler
  <2>2. CASE CancelWrite(p)
    BY <1>2, <2>2 DEF CancelWrite, OrderStatus
  <2>3. CASE WorkerWrite(p)
    BY <1>1, <1>2, <2>3 DEF WorkerWrite, At, HandlerOK, Handler
  <2> QED BY <2>1, <2>2, <2>3
<1>4. /\ order' \in [Orders -> OrderRow] /\ OrdersKept
      /\ \A x \in Orders : order'[x].paid = order[x].paid
  BY <1>3, StatusWritten
<1>5. NewlyPaidOK
  BY <1>4 DEF NewlyPaidOK
<1>6. UNCHANGED <<balance, tx, nTx>>
  BY DEF UpdateStatusWrite, CancelWrite, WorkerWrite
<1>7. Finish(p) \/ Goto(p, "refund_find")
  BY DEF UpdateStatusWrite, CancelWrite, WorkerWrite, RefundOrFinish
<1>8. CASE Finish(p)
  <2>1. Moves(p, Idle)
    BY <1>8 DEF Finish, Moves
  <2> QED BY <1>4, <1>5, <1>6, <2>1, IdleOK, IdleTyped, OrderStep
<1>9. CASE Goto(p, "refund_find")
  <2>1. "refund_find" \in Pc
    BY DEF Pc
  <2>2. PICK h \in Handler : h = [proc[p] EXCEPT !.pc = "refund_find"] /\ Moves(p, h)
    BY <1>9, <2>1, GotoMoves
  <2>3. h.pc = "refund_find" /\ h.order = o
    BY <1>1, <1>2, <2>1, <2>2 DEF Handler
  <2>4. Exists(o)'
    BY <1>2, <1>4 DEF OrdersKept, OrderKept
  <2>5. HandlerOK(h)' /\ h.pc \notin Driving
    BY <2>3, <2>4 DEF HandlerOK, OnOrder, WithMoney, Driving
  <2> QED BY <1>4, <1>5, <1>6, <2>2, <2>5, OrderStep
<1> QED BY <1>7, <1>8, <1>9

LEMMA RefundStep ==
  ASSUME TypeOK, HandlersOK, PaymentsPositive, NEW p \in Procs, mode' = mode,
         \/ FindPaymentToRefund(p) \/ RefundToBalance(p)
         \/ RefundRejected(p) \/ CreateRefund(p)
  PROVE  \E h \in Handler : StepOK(p, h)
<1>1. proc[p] \in Handler /\ HandlerOK(proc[p])
  BY DEF TypeOK, HandlersOK
<1>2. CASE FindPaymentToRefund(p)
  <2>1. PICK o \in Orders : o = proc[p].order /\ Exists(o)
    BY <1>1, <1>2 DEF FindPaymentToRefund, At, HandlerOK, OnOrder
  <2>2. CASE Finish(p)
    BY <1>2, <2>2, IdleStep, IdleTyped DEF FindPaymentToRefund
  <2>3. ASSUME NEW i \in OwnersPayments(o), NEW label \in {"refund_balance", "refund_create"},
               Moves(p, [Idle EXCEPT !.pc = label, !.user = Owner[o], !.order = o,
                                     !.tx = i, !.amount = Total[o]])
        PROVE  \E h \in Handler : StepOK(p, h)
    <3> DEFINE h == [Idle EXCEPT !.pc = label, !.user = Owner[o], !.order = o,
                                 !.tx = i, !.amount = Total[o]]
    <3>1. /\ i \in 1..nTx /\ i \in TxIds /\ IsCompletedPayment(i)
          /\ tx[i].order = o /\ tx[i].user = Owner[o]
      BY <2>3, ConstantsAssumption DEF OwnersPayments, TypeOK, TxIds
    <3>2. Owner[o] \in Users /\ Total[o] \in Int /\ Total[o] > 0
      BY ConstantsAssumption
    <3>3. label \in Pc
      BY DEF Pc
    <3>4. h \in Handler
      BY <3>1, <3>2, <3>3, IdleTyped DEF Handler
    <3>5. /\ h.pc = label /\ h.user = Owner[o] /\ h.order = o
          /\ h.tx = i /\ h.amount = Total[o]
      BY IdleTyped DEF Handler
    <3> HIDE DEF h
    <3>6. HandlerOK(h) /\ h.pc \notin Driving
      BY <2>1, <3>1, <3>2, <3>5, RefundOK
    <3>7. Moves(p, h)
      BY <2>3 DEF h
    <3> QED BY <1>2, <3>4, <3>6, <3>7, QuietStep DEF FindPaymentToRefund
  <2> QED BY <1>2, <2>1, <2>2, <2>3 DEF FindPaymentToRefund, Moves
<1>3. CASE RefundToBalance(p)
  <2> DEFINE row == NewRow("REFUND", "COMPLETED", "balance", proc[p].user,
                           proc[p].order, -proc[p].amount)
  <2>1. /\ proc[p].user \in Users /\ proc[p].order \in Orders
        /\ proc[p].amount \in Int /\ proc[p].amount > 0
    BY <1>1, <1>3 DEF RefundToBalance, At, HandlerOK, OnOrder, WithMoney, Handler
  <2>2. /\ row \in TxRow /\ row.type = "REFUND" /\ row.order = proc[p].order
        /\ row.user = proc[p].user /\ row.amount < 0 /\ row.original = 0
    BY <2>1, NewRowTyped, RowNames
  <2>3. NamesCompletedPayment(proc[p]) /\ tx[proc[p].tx].user = proc[p].user
    BY <1>1, <1>3 DEF RefundToBalance, At, HandlerOK
  <2>4. Insert(row) /\ Moves(p, Idle) /\ order' = order
    BY <1>3 DEF RefundToBalance, Finish, Moves, NewRow
  <2>5. balance' \in [Users -> Int] /\ order' \in [Orders -> OrderRow]
    BY <1>3, <2>1 DEF RefundToBalance, TypeOK
  <2> HIDE DEF row
  <2>6. proc[p].tx \in 1..nTx /\ Backs(proc[p].tx, row)
    BY <2>2, <2>3 DEF Backs, NamesCompletedPayment, TxRow
  <2> QED BY <2>2, <2>4, <2>5, <2>6, UnchangedKept, IdleOK, IdleTyped, InsertStep
<1>4. CASE RefundRejected(p)
  BY <1>4, IdleStep, IdleTyped DEF RefundRejected
<1>5. CASE CreateRefund(p)
  <2> DEFINE i   == proc[p].tx
             row == [tx[i] EXCEPT !.type = "REFUND", !.status = "PENDING",
                       !.retries = 0, !.amount = Negated(proc[p].amount),
                       !.original = i]
  <2>1. /\ proc[p].amount \in Int
        /\ proc[p].amount > 0 \/ proc[p].amount \in RefundAmounts
        /\ i \in 1..nTx /\ IsCompletedPayment(i)
    BY <1>1, <1>5 DEF CreateRefund, At, HandlerOK, Handler, NamesCompletedPayment
  <2>2. i \in TxIds /\ tx[i] \in TxRow
    BY <2>1, ConstantsAssumption DEF TypeOK, TxIds
  <2>3. row \in TxRow
    <3>1. "PENDING" \in TxStatus /\ Negated(proc[p].amount) \in Int
      BY <2>1, RowNames, NegatedTyped
    <3> QED BY <2>2, <3>1 DEF TxRow
  <2>4. /\ row.type = "REFUND" /\ row.status = "PENDING" /\ row.original = i
        /\ row.amount = Negated(proc[p].amount)
        /\ row.order = tx[i].order /\ row.user = tx[i].user
    BY <2>2 DEF TxRow
  <2>5. Insert(row) /\ UNCHANGED <<order, balance>> /\ proc[p].amount <= tx[i].amount
    BY <1>5 DEF CreateRefund
  <2>6. Backs(i, row)
    <3> HIDE DEF row
    <3>1. /\ row.amount \in Int /\ row.amount <= 0
          /\ -row.amount <= tx[i].amount \/ row.amount \in RefundAmounts
      BY <2>1, <2>4, <2>5, NegatedTyped DEF Negated
    <3> QED BY <2>1, <2>2, <2>4, <2>5, <3>1 DEF Backs, TxRow
  <2>7. PICK newRow \in TxRow : newRow = row
    BY <2>3
  <2>8. nTx + 1 \in TxIds /\ nTx + 1 \in 1..nTx' /\ nTx + 1 > nTx /\ tx'[nTx + 1] = newRow
    <3> HIDE DEF row
    <3> QED BY <2>4, <2>5, <2>7, InsertTyped, ConstantsAssumption DEF TypeOK
  <2>9. PICK h : h = [proc[p] EXCEPT !.pc = "refund_mark", !.tx = nTx + 1]
    OBVIOUS
  <2>10. h \in Handler /\ h.pc = "refund_mark" /\ h.tx = nTx + 1
    <3>1. "refund_mark" \in Pc
      BY DEF Pc
    <3> QED BY <1>1, <2>8, <2>9, <3>1 DEF Handler
  <2>11. Moves(p, h)
    BY <1>1, <1>5, <2>9 DEF CreateRefund, Moves, TypeOK, Handler
  <2> HIDE DEF row
  <2>12. HandlerOK(h)'
    <3>1. RowInProgress(h)'
      BY <2>4, <2>7, <2>8, <2>10 DEF RowInProgress
    <3> QED BY <2>10, <3>1, DrivingOK DEF Driving
  <2>13. order' \in [Orders -> OrderRow] /\ balance' \in [Users -> Int]
    BY <2>5 DEF TypeOK
  <2> QED BY <2>1, <2>4, <2>5, <2>6, <2>7, <2>8, <2>10, <2>11, <2>12, <2>13,
             UnchangedKept, InsertStep
<1> QED BY <1>2, <1>3, <1>4, <1>5

\* Whatever handler p does next.
LEMMA HandlerStep ==
  ASSUME TypeOK, HandlersOK, PaymentsPositive, NEW p \in Procs,
         Request(p) \/ Continue(p) \/ Abort(p)
  PROVE  \E h \in Handler : StepOK(p, h)
<1>1. CASE Request(p)
  BY <1>1, RequestStep
<1>2. CASE Continue(p)
  BY <1>2, BalanceStep, PaymentStep, ProcessStep, StatusStep, RefundStep DEF Continue
<1>3. CASE Abort(p)
  BY <1>3, IdleStep, IdleTyped DEF Abort
<1> QED BY <1>1, <1>2, <1>3

\* A support refund moves no handler.
LEMMA AdminRefundStep ==
  ASSUME TypeOK, PaymentsPositive, NEW i \in 1..nTx, NEW a \in RefundChoices(i),
         AdminRefund(i, a)
  PROVE  /\ TypeOK' /\ OrdersKept /\ RowsKept /\ NewRowsOK /\ NewlyPaidOK
         /\ proc' = proc
         /\ \A j \in 1..nTx : tx'[j] = tx[j]
<1> DEFINE row == [tx[i] EXCEPT !.type = "REFUND", !.status = "COMPLETED",
                                !.retries = 0, !.amount = a, !.original = 0]
<1>1. /\ i \in TxIds /\ tx[i] \in TxRow /\ IsCompletedPayment(i)
      /\ a \in 1..tx[i].amount
  BY ConstantsAssumption DEF TypeOK, TxIds, AdminRefund
<1>2. a \in Int
  BY <1>1, ConstantsAssumption DEF RefundChoices, TxRow
<1>3. row \in TxRow
  <2>1. "COMPLETED" \in TxStatus
    BY RowNames
  <2> QED BY <1>1, <1>2, <2>1 DEF TxRow
<1>4. /\ row.type = "REFUND" /\ row.original = 0 /\ row.amount = a
      /\ row.order = tx[i].order /\ row.user = tx[i].user
  BY <1>1 DEF TxRow
<1>5. Insert(row) /\ UNCHANGED <<order, balance, proc, mode>>
  BY DEF AdminRefund
<1>6. PICK newRow \in TxRow : newRow = row
  BY <1>3
<1> HIDE DEF row
<1>7. /\ tx' \in [TxIds -> TxRow] /\ nTx' \in 0..MaxTx /\ nTx' = nTx + 1
      /\ \A j \in TxIds : tx'[j].type = "NONE" <=> j > nTx'
      /\ tx'[nTx + 1] = newRow
      /\ \A j \in 1..nTx : tx'[j] = tx[j]
  BY <1>4, <1>5, <1>6, InsertTyped
<1>8. TypeOK'
  BY <1>5, <1>7 DEF TypeOK
<1>9. RowsKept
  <2>1. \A j \in 1..nTx : RowKept(j)
    BY <1>7 DEF RowKept, IsCompletedPayment
  <2> QED BY <1>7, <2>1, ConstantsAssumption DEF RowsKept, TypeOK
<1>10. NewRowsOK
  <2>1. Backs(i, newRow)'
    BY <1>1, <1>4, <1>6, <1>7 DEF Backs, IsCompletedPayment
  <2>2. \A j \in 1..nTx' : j > nTx => tx'[j] = newRow
    <3>1. nTx \in Nat
      BY ConstantsAssumption DEF TypeOK
    <3>2. \A j \in 1..nTx' : j > nTx => j = nTx + 1
      BY <1>7, <3>1
    <3> QED BY <1>7, <3>2
  <2>3. ASSUME NEW j \in 1..nTx', tx'[j] = newRow
        PROVE  Backs(i, tx[j])'
    BY <2>1, <2>3 DEF Backs
  <2> QED BY <1>4, <1>6, <2>2, <2>3 DEF NewRowsOK
<1> QED BY <1>5, <1>7, <1>8, <1>9, <1>10, UnchangedKept

-----------------------------------------------------------------------------
(* The invariant. *)

LEMMA Initially == Init => IInv
<1> SUFFICES ASSUME Init PROVE IInv
  OBVIOUS
<1>1. nTx = 0 /\ 1..nTx = {}
  BY DEF Init
<1>2. \A p \in Procs : proc[p] = Idle
  BY DEF Init
<1>3. HandlersOK /\ NoRowDrivenTwice
  BY <1>2, IdleOK DEF HandlersOK, NoRowDrivenTwice
<1>4. PaidHasPayment
  BY DEF Init, PaidHasPayment
<1> QED BY <1>1, <1>3, <1>4, TypeInit DEF IInv, PaymentsPositive, RefundsAreBacked

\* The tables: old rows keep what made them sound, new rows and new paid marks
\* come with their reasons.
LEMMA TablesInv ==
  ASSUME IInv, TypeOK', RowsKept, NewRowsOK, NewlyPaidOK
  PROVE  PaymentsPositive' /\ PaidHasPayment' /\ RefundsAreBacked'
<1>1. nTx \in Nat /\ nTx' \in Nat /\ nTx' >= nTx
  BY ConstantsAssumption DEF IInv, TypeOK, RowsKept
<1>2. \A i \in 1..nTx' : i <= nTx => i \in 1..nTx /\ RowKept(i)
  BY <1>1 DEF RowsKept
<1>3. PaymentsPositive'
  <2> SUFFICES ASSUME NEW i \in 1..nTx', tx'[i].type = "PAYMENT"
               PROVE  tx'[i].amount > 0
    BY DEF PaymentsPositive
  <2>1. CASE i <= nTx
    BY <1>2, <2>1 DEF IInv, PaymentsPositive, RowKept
  <2>2. CASE i > nTx
    BY <2>2 DEF NewRowsOK
  <2> QED BY <1>1, <2>1, <2>2
<1>4. PaidHasPayment'
  <2> SUFFICES ASSUME NEW o \in Orders, order'[o].paid
               PROVE  HasCompletedPayment(o)'
    BY DEF PaidHasPayment
  <2>1. CASE order[o].paid
    <3>1. PICK i \in 1..nTx : IsCompletedPayment(i) /\ tx[i].order = o
      BY <2>1 DEF IInv, PaidHasPayment, HasCompletedPayment
    <3>2. i \in 1..nTx' /\ RowKept(i)
      BY <1>1, <1>2
    <3> QED BY <3>1, <3>2 DEF HasCompletedPayment, IsCompletedPayment, RowKept
  <2> QED BY <2>1 DEF NewlyPaidOK
<1>5. RefundsAreBacked'
  <2> SUFFICES ASSUME NEW i \in 1..nTx', tx'[i].type = "REFUND"
               PROVE  \E j \in 1..(i - 1) : Backs(j, tx[i])'
    BY DEF RefundsAreBacked
  <2>1. CASE i <= nTx
    <3>1. i \in 1..nTx /\ RowKept(i)
      BY <1>2, <2>1
    <3>2. PICK j \in 1..(i - 1) : Backs(j, tx[i])
      BY <2>1, <3>1 DEF IInv, RefundsAreBacked, RowKept
    <3>3. RowKept(j)
      BY <1>1, <1>2, <2>1
    <3>4. Backs(j, tx[i])'
      BY <3>1, <3>2, <3>3 DEF Backs, RowKept, IsCompletedPayment
    <3> QED BY <3>4
  <2>2. CASE i > nTx
    <3>1. PICK j \in 1..nTx : Backs(j, tx[i])'
      BY <2>2 DEF NewRowsOK
    <3>2. j \in 1..(i - 1)
      BY <1>1, <2>2
    <3> QED BY <3>1, <3>2
  <2> QED BY <1>1, <2>1, <2>2
<1> QED BY <1>3, <1>4, <1>5

LEMMA HandlerStepInv ==
  ASSUME IInv, NEW p \in Procs, NEW h \in Handler, StepOK(p, h)
  PROVE  IInv'
<1>1. TypeOK /\ TypeOK' /\ OrdersKept /\ RowsKept /\ HandlersOK /\ NoRowDrivenTwice
  BY DEF IInv, StepOK
<1>2. proc'[p] = h /\ \A q \in Procs \ {p} : proc'[q] = proc[q]
  BY <1>1 DEF StepOK, Moves, TypeOK
<1>3. HandlersOK'
  <2> SUFFICES ASSUME NEW q \in Procs PROVE HandlerOK(proc[q])'
    BY DEF HandlersOK
  <2>1. CASE q = p
    <3>1. HandlerOK(h)'
      BY DEF StepOK
    <3> QED BY <1>2, <2>1, <3>1 DEF HandlerOK, NamesCompletedPayment, RowInProgress
  <2>2. CASE q # p
    <3>1. PICK g \in Handler : g = proc[q]
      BY <1>1 DEF TypeOK
    <3>2. HandlerOK(g) /\ proc'[q] = g
      BY <1>1, <1>2, <2>2, <3>1 DEF HandlersOK
    <3>3. g.pc \in Driving => tx'[g.tx].status = tx[g.tx].status
      <4> SUFFICES ASSUME g.pc \in Driving PROVE tx'[g.tx].status = tx[g.tx].status
        OBVIOUS
      <4>1. g.tx \in 1..nTx
        BY <3>2 DEF HandlerOK, RowInProgress
      <4>2. ~(proc[p].pc \in Driving /\ proc[p].tx = g.tx)
        BY <1>1, <2>2, <3>1 DEF NoRowDrivenTwice
      <4> QED BY <4>1, <4>2 DEF StepOK, KeepsToItsRow
    <3>4. HandlerOK(g)'
      BY <1>1, <3>2, <3>3, HandlerStable
    <3> QED BY <3>2, <3>4 DEF HandlerOK, NamesCompletedPayment, RowInProgress
  <2> QED BY <2>1, <2>2
<1>4. NoRowDrivenTwice'
  <2>1. ASSUME NEW q \in Procs \ {p}, h.pc \in Driving, proc[q].pc \in Driving
        PROVE  h.tx # proc[q].tx
    <3>1. proc[q].tx \in 1..nTx
      BY <1>1, <2>1 DEF HandlersOK, HandlerOK, RowInProgress
    <3>2. CASE h.tx > nTx
      BY <1>1, <3>1, <3>2, ConstantsAssumption DEF TypeOK
    <3>3. CASE proc[p].pc \in Driving /\ proc[p].tx = h.tx
      BY <1>1, <2>1, <3>3 DEF NoRowDrivenTwice
    <3> QED BY <2>1, <3>2, <3>3 DEF StepOK, KeepsToItsRow
  <2> QED BY <1>1, <1>2, <2>1 DEF NoRowDrivenTwice
<1>5. PaymentsPositive' /\ PaidHasPayment' /\ RefundsAreBacked'
  BY TablesInv DEF StepOK
<1> QED BY <1>1, <1>3, <1>4, <1>5 DEF IInv

LEMMA Inductive == IInv /\ [Next]_vars => IInv'
<1> SUFFICES ASSUME IInv, [Next]_vars PROVE IInv'
  OBVIOUS
<1>1. TypeOK /\ HandlersOK /\ PaymentsPositive
  BY DEF IInv
<1>2. ASSUME NEW p \in Procs, Request(p) \/ Continue(p) \/ Abort(p)
      PROVE  IInv'
  BY <1>1, <1>2, HandlerStep, HandlerStepInv
<1>3. ASSUME NEW i \in 1..nTx, NEW a \in RefundChoices(i), AdminRefund(i, a)
      PROVE  IInv'
  <2>1. /\ TypeOK' /\ OrdersKept /\ RowsKept /\ NewRowsOK /\ NewlyPaidOK
        /\ proc' = proc
        /\ \A j \in 1..nTx : tx'[j] = tx[j]
    BY <1>1, <1>3, AdminRefundStep
  <2>2. HandlersOK'
    <3> SUFFICES ASSUME NEW q \in Procs PROVE HandlerOK(proc[q])'
      BY DEF HandlersOK
    <3>1. PICK g \in Handler : g = proc[q]
      BY <1>1 DEF TypeOK
    <3>2. HandlerOK(g) /\ proc'[q] = g
      BY <1>1, <2>1, <3>1 DEF HandlersOK
    <3>3. g.pc \in Driving => tx'[g.tx].status = tx[g.tx].status
      BY <2>1, <3>2 DEF HandlerOK, RowInProgress
    <3>4. HandlerOK(g)'
      BY <1>1, <2>1, <3>2, <3>3, HandlerStable
    <3> QED BY <3>2, <3>4 DEF HandlerOK, NamesCompletedPayment, RowInProgress
  <2>3. NoRowDrivenTwice'
    BY <2>1 DEF IInv, NoRowDrivenTwice
  <2> QED BY <2>1, <2>2, <2>3, TablesInv DEF IInv
<1>4. CASE UNCHANGED vars
  BY <1>4 DEF vars, IInv, TypeOK, HandlersOK, HandlerOK, NamesCompletedPayment,
     RowInProgress, IsCompletedPayment, Exists, NoRowDrivenTwice, PaymentsPositive,
     PaidHasPayment, HasCompletedPayment, RefundsAreBacked, Backs
<1> QED BY <1>2, <1>3, <1>4 DEF Next

LEMMA Invariance == Spec => []IInv
BY Initially, Inductive, PTL DEF Spec

-----------------------------------------------------------------------------
(* The properties. *)

\* Whatever statements of the handlers interleave and wherever they die, the
\* tables hold rows of the right shape and the handlers' locals are ids of them.
THEOREM TypeCorrect == Spec => []TypeOK
<1>1. IInv => TypeOK
  BY DEF IInv
<1> QED BY <1>1, Invariance, PTL

\* processPayment, retryPayment and processRefund each write a row that is
\* theirs alone and still in the state they left it in.
THEOREM RowsOwned == Spec => []RowsInProgressAreOwned
<1>1. IInv => RowsInProgressAreOwned
  BY DEF IInv, HandlersOK, HandlerOK, NoRowDrivenTwice, RowsInProgressAreOwned
<1> QED BY <1>1, Invariance, PTL

\* An order marked paid has a COMPLETED payment row.
THEOREM PaidOrdersHavePayments == Spec => []PaidHasPayment
<1>1. IInv => PaidHasPayment
  BY DEF IInv
<1> QED BY <1>1, Invariance, PTL

\* A refund of any of the four kinds follows a COMPLETED payment of the same
\* user and order, and createRefund and createRefundAdmin give back no more
\* than it.
THEOREM RefundsFollowPayments == Spec => []RefundsAreBacked
<1>1. IInv => RefundsAreBacked
  BY DEF IInv
<1> QED BY <1>1, Invariance, PTL

\* The check that OrdersService.updateStatus makes on the row it read still
\* holds of the row it writes, though nothing locks the row in between.
THEOREM StaffWritesAreSound == Spec => StaffAdvancesOnlyPaid
<1>1. ASSUME IInv, NEW p \in Procs, UpdateStatusWrite(p)
      PROVE  LET o == proc[p].order IN
             /\ order'[o].status = "COMPLETED" => order[o].paid
             /\ order'[o].status = "CONFIRMED" => order[o].paid \/ order[o].method = "CASH"
  <2>1. proc[p].pc = "staff_write" /\ HandlerOK(proc[p])
    BY <1>1 DEF IInv, HandlersOK, UpdateStatusWrite, At
  <2>2. proc[p].order \in Orders
    BY <2>1 DEF HandlerOK, OnOrder
  <2>3. order[proc[p].order] \in OrderRow
    BY <1>1, <2>2 DEF IInv, TypeOK
  <2>4. order'[proc[p].order].status = proc[p].target
    BY <1>1, <2>2, <2>3 DEF IInv, TypeOK, UpdateStatusWrite, SetOrderStatus, OrderRow
  <2> QED BY <2>1, <2>4 DEF HandlerOK
<1>2. IInv => \A p \in Procs : UpdateStatusWrite(p) =>
                LET o == proc[p].order IN
                /\ order'[o].status = "COMPLETED" => order[o].paid
                /\ order'[o].status = "CONFIRMED" =>
                     order[o].paid \/ order[o].method = "CASH"
  BY <1>1
<1> QED BY <1>2, Invariance, PTL DEF StaffAdvancesOnlyPaid

-----------------------------------------------------------------------------
(* The ledger.                                                              *)

Books == <<tx, nTx, balance>>

\* A debit or a credit of the balance, as IsDebit and IsCredit tell it.
MovesBalance(row) ==
  /\ row.provider = "balance"
  /\ \/ row.type = "PAYMENT"
     \/ row.type = "REFUND" /\ row.original = 0 /\ row.amount < 0

\* A row is appended, and the balance moves with it when it says so.
Booked(row) ==
  /\ Insert(row)
  /\ row.type # "NONE"
  /\ balance' = IF MovesBalance(row)
                THEN [balance EXCEPT ![row.user] = @ - row.amount]
                ELSE balance

\* Or the rows say what they said of money, and no balance moves.
MoneyKept ==
  /\ UNCHANGED <<nTx, balance>>
  /\ \A i \in 1..nTx : /\ tx'[i].type = tx[i].type
                       /\ tx'[i].provider = tx[i].provider
                       /\ tx'[i].user = tx[i].user
                       /\ tx'[i].amount = tx[i].amount
                       /\ tx'[i].original = tx[i].original

LEMMA LedgerInit == Init => Ledger!Init
BY DEF Init, Ledger!Init, TxIds

\* Appending a row, seen from the ledger.
LEMMA LedgerAppend ==
  ASSUME TypeOK, NEW row \in TxRow, Insert(row)
  PROVE  Ledger!Append /\ Ledger!New = row /\ nTx + 1 \in TxIds
<1>1. nTx + 1 \in TxIds
  BY ConstantsAssumption DEF TypeOK, TxIds, Insert
<1>2. tx'[nTx + 1] = row
  BY <1>1 DEF TypeOK, Insert
<1> QED BY <1>1, <1>2 DEF Ledger!Append, Ledger!New, Insert

\* Steps that append.
LEMMA BookStep ==
  ASSUME IInv, NEW p \in Procs, BalancePayment(p) \/ RefundToBalance(p)
  PROVE  Ledger!Book /\ \E row \in TxRow : Booked(row)
<1>1. TypeOK /\ proc[p] \in Handler /\ HandlerOK(proc[p])
  BY DEF IInv, TypeOK, HandlersOK
<1>2. proc[p].user \in Users /\ proc[p].order \in Orders
      /\ proc[p].amount \in Int /\ proc[p].amount > 0
  BY <1>1 DEF BalancePayment, RefundToBalance, At, HandlerOK, OnOrder, WithMoney, Handler
<1>3. balance[proc[p].user] \in Int
  BY <1>1, <1>2 DEF TypeOK
<1>4. CASE BalancePayment(p)
  <2> DEFINE row == NewRow("PAYMENT", "COMPLETED", "balance", proc[p].user,
                           proc[p].order, proc[p].amount)
  <2>1. /\ row \in TxRow /\ row.type = "PAYMENT" /\ row.status = "COMPLETED"
        /\ row.user = proc[p].user /\ row.amount = proc[p].amount
    BY <1>2, NewRowTyped, RowNames
  <2>2. row.provider = "balance"
    BY EmptyTxTyped DEF NewRow, TxRow
  <2>3. Insert(row)
    BY <1>4 DEF BalancePayment, NewRow
  <2>4. balance' = [balance EXCEPT ![proc[p].user] = @ - proc[p].amount]
    BY <1>4 DEF BalancePayment
  <2> HIDE DEF row
  <2>5. Ledger!Book
    BY <1>1, <1>2, <2>1, <2>2, <2>3, <2>4, LedgerAppend DEF Ledger!Book
  <2>6. Booked(row)
    BY <2>1, <2>2, <2>3, <2>4 DEF Booked, MovesBalance
  <2> QED BY <2>1, <2>5, <2>6
<1>5. CASE RefundToBalance(p)
  <2> DEFINE row == NewRow("REFUND", "COMPLETED", "balance", proc[p].user,
                           proc[p].order, -proc[p].amount)
  <2>1. /\ row \in TxRow /\ row.type = "REFUND" /\ row.status = "COMPLETED"
        /\ row.user = proc[p].user /\ row.amount = -proc[p].amount
        /\ row.original = 0
    BY <1>2, NewRowTyped, RowNames
  <2>2. row.provider = "balance"
    BY EmptyTxTyped DEF NewRow, TxRow
  <2>3. Insert(row)
    BY <1>5 DEF RefundToBalance, NewRow
  <2>4. balance' = [balance EXCEPT ![proc[p].user] = @ + proc[p].amount]
    BY <1>5 DEF RefundToBalance
  <2> HIDE DEF row
  <2>5. row.user = proc[p].user
        /\ balance[proc[p].user] - row.amount = balance[proc[p].user] + proc[p].amount
    BY <1>2, <1>3, <2>1
  <2>6. balance' = [balance EXCEPT ![row.user] = balance[row.user] - row.amount]
    BY <2>4, <2>5
  <2>7. row.amount \in Int /\ ~(row.amount > 0)
    BY <1>2, <2>1
  <2>8. Ledger!Append /\ Ledger!New = row
    BY <1>1, <2>1, <2>3, LedgerAppend
  <2>9. Ledger!Book
    BY <2>1, <2>2, <2>6, <2>7, <2>8 DEF Ledger!Book
  <2>10. row.amount < 0
    BY <1>2, <2>1
  <2>11. Booked(row)
    BY <2>1, <2>2, <2>3, <2>6, <2>10 DEF Booked, MovesBalance
  <2> QED BY <2>1, <2>9, <2>11
<1> QED BY <1>4, <1>5

LEMMA SubmitStep ==
  ASSUME IInv, NEW p \in Procs, CreatePayment(p) \/ CreateRefund(p)
  PROVE  Ledger!Submit /\ \E row \in TxRow : Booked(row)
<1>1. TypeOK /\ proc[p] \in Handler /\ HandlerOK(proc[p])
  BY DEF IInv, TypeOK, HandlersOK
<1>2. CASE CreatePayment(p)
  <2> DEFINE row == NewRow("PAYMENT", "PENDING", "stripe", proc[p].user,
                           proc[p].order, proc[p].amount)
  <2>1. /\ proc[p].user \in Users /\ proc[p].amount \in Int
        /\ proc[p].order \in Orders \cup {NoOrder}
    BY <1>1, <1>2 DEF CreatePayment, At, HandlerOK, WithMoney, Handler
  <2>2. row \in TxRow /\ row.status = "PENDING"
    <3>1. "PENDING" \in TxStatus
      BY RowNames
    <3>2. PICK user \in Users : user = proc[p].user
      BY <2>1
    <3>3. PICK o \in Orders \cup {NoOrder} : o = proc[p].order
      BY <2>1
    <3>4. PICK amount \in Int : amount = proc[p].amount
      BY <2>1
    <3>5. row = NewRow("PAYMENT", "PENDING", "stripe", user, o, amount)
      BY <3>2, <3>3, <3>4
    <3> HIDE DEF row
    <3> QED BY <3>1, <3>5, NewRowTyped
  <2>3. row.type = "PAYMENT" /\ row.provider = "stripe" /\ row.retries = 0
    <3>1. row.type = "PAYMENT" /\ row.provider = "stripe"
      BY EmptyTxTyped DEF NewRow, TxRow
    <3>2. row.retries = 0
      BY DEF NewRow, EmptyTx
    <3> QED BY <3>1, <3>2
  <2>4. Insert(row) /\ UNCHANGED balance
    BY <1>2 DEF CreatePayment, NewRow
  <2> HIDE DEF row
  <2>5. Ledger!Submit
    BY <1>1, <2>2, <2>3, <2>4, LedgerAppend DEF Ledger!Submit
  <2>6. Booked(row)
    BY <2>2, <2>3, <2>4 DEF Booked, MovesBalance
  <2> QED BY <2>2, <2>5, <2>6
<1>3. CASE CreateRefund(p)
  <2> DEFINE row == [tx[proc[p].tx] EXCEPT !.type = "REFUND", !.status = "PENDING",
                       !.retries = 0, !.amount = Negated(proc[p].amount),
                       !.original = proc[p].tx]
  <2>1. proc[p].amount \in Int /\ proc[p].tx \in TxIds /\ proc[p].tx # 0
    BY <1>1, <1>3, ConstantsAssumption
       DEF CreateRefund, At, HandlerOK, Handler, NamesCompletedPayment, TypeOK, TxIds
  <2>2. tx[proc[p].tx] \in TxRow
    BY <1>1, <2>1 DEF TypeOK
  <2>3. row \in TxRow
    <3>1. "PENDING" \in TxStatus /\ Negated(proc[p].amount) \in Int
      BY <2>1, RowNames, NegatedTyped
    <3> QED BY <2>1, <2>2, <3>1 DEF TxRow
  <2>4. /\ row.status = "PENDING" /\ row.retries = 0
        /\ row.type = "REFUND" /\ row.original = proc[p].tx
    BY <2>2 DEF TxRow
  <2>5. Insert(row) /\ UNCHANGED balance
    BY <1>3 DEF CreateRefund
  <2> HIDE DEF row
  <2>6. Ledger!Submit
    BY <1>1, <2>3, <2>4, <2>5, LedgerAppend DEF Ledger!Submit
  <2>7. Booked(row)
    BY <2>1, <2>4, <2>5 DEF Booked, MovesBalance
  <2> QED BY <2>3, <2>6, <2>7
<1> QED BY <1>2, <1>3

LEMMA RecordStep ==
  ASSUME IInv, NEW i \in 1..nTx, NEW a \in RefundChoices(i), AdminRefund(i, a)
  PROVE  Ledger!Record /\ \E row \in TxRow : Booked(row)
<1> DEFINE row == [tx[i] EXCEPT !.type = "REFUND", !.status = "COMPLETED",
                                !.retries = 0, !.amount = a, !.original = 0]
<1>1. TypeOK /\ i \in TxIds /\ tx[i] \in TxRow /\ IsCompletedPayment(i)
  BY ConstantsAssumption DEF IInv, TypeOK, TxIds, AdminRefund
<1>2. a \in Int /\ a > 0
  <2>1. tx[i].amount \in Int
    BY <1>1 DEF TxRow
  <2>2. a \in 1..tx[i].amount
    BY DEF AdminRefund
  <2> QED BY <2>1, <2>2
<1>3. row \in TxRow
  <2>1. "COMPLETED" \in TxStatus
    BY RowNames
  <2> QED BY <1>1, <1>2, <2>1 DEF TxRow
<1>4. row.status = "COMPLETED" /\ row.type = "REFUND" /\ row.amount = a
  BY <1>1 DEF TxRow
<1>5. Insert(row) /\ UNCHANGED balance
  BY DEF AdminRefund
<1> HIDE DEF row
<1>6. Ledger!Record
  BY <1>1, <1>2, <1>3, <1>4, <1>5, LedgerAppend DEF Ledger!Record
<1>7. Booked(row)
  BY <1>2, <1>4, <1>5 DEF Booked, MovesBalance
<1> QED BY <1>3, <1>6, <1>7

LEMMA LedgerTransitions ==
  /\ DOMAIN Ledger!NextStatus = {"PENDING", "PROCESSING"}
  /\ Ledger!NextStatus["PENDING"] = {"PROCESSING"}
  /\ Ledger!NextStatus["PROCESSING"] = {"COMPLETED", "FAILED"}
BY DEF Ledger!NextStatus

\* Steps that process a row.
LEMMA RowInProgressStep ==
  ASSUME IInv, NEW p \in Procs,
         \/ StartProcessing(p) \/ PaymentSucceeds(p) \/ PaymentFails(p)
         \/ RetryPayment(p) \/ StartRefund(p) \/ CompleteRefund(p)
  PROVE  \E i \in 1..nTx : Ledger!Process(i) \/ Ledger!Retry(i)
<1> DEFINE i == proc[p].tx
<1>1. proc[p].pc \in Driving /\ HandlerOK(proc[p])
  BY DEF IInv, HandlersOK, StartProcessing, PaymentSucceeds, PaymentFails, RetryPayment,
         StartRefund, CompleteRefund, At, Driving
<1>2. RowInProgress(proc[p])
  BY <1>1 DEF HandlerOK
<1>3. i \in 1..nTx
  BY <1>2 DEF RowInProgress
<1>4. CASE StartProcessing(p) \/ StartRefund(p)
  <2>1. tx[i].status = "PENDING"
    BY <1>2, <1>4 DEF StartProcessing, StartRefund, At, RowInProgress
  <2>2. tx' = [tx EXCEPT ![i].status = "PROCESSING"] /\ UNCHANGED <<nTx, balance>>
    BY <1>4 DEF StartProcessing, StartRefund, SetTxStatus
  <2>3. Ledger!Process(i)
    BY <2>1, <2>2, LedgerTransitions DEF Ledger!Process
  <2> QED BY <1>3, <2>3
<1>5. CASE PaymentSucceeds(p) \/ CompleteRefund(p)
  <2>1. tx[i].status = "PROCESSING"
    BY <1>2, <1>5 DEF PaymentSucceeds, CompleteRefund, At, RowInProgress
  <2>2. tx' = [tx EXCEPT ![i].status = "COMPLETED"] /\ UNCHANGED <<nTx, balance>>
    BY <1>5 DEF PaymentSucceeds, CompleteRefund, SetTxStatus
  <2>3. Ledger!Process(i)
    BY <2>1, <2>2, LedgerTransitions DEF Ledger!Process
  <2> QED BY <1>3, <2>3
<1>6. CASE PaymentFails(p)
  <2>1. tx[i].status = "PROCESSING"
    BY <1>2, <1>6 DEF PaymentFails, At, RowInProgress
  <2>2. tx' = [tx EXCEPT ![i].status = "FAILED"] /\ UNCHANGED <<nTx, balance>>
    BY <1>6 DEF PaymentFails, SetTxStatus
  <2>3. Ledger!Process(i)
    BY <2>1, <2>2, LedgerTransitions DEF Ledger!Process
  <2> QED BY <1>3, <2>3
<1>7. CASE RetryPayment(p)
  <2>1. tx[i].status = "PROCESSING" /\ tx[i].type = "PAYMENT"
    BY <1>2, <1>7 DEF RetryPayment, At, RowInProgress
  <2>2. Ledger!Retry(i)
    BY <1>7, <2>1 DEF RetryPayment, Ledger!Retry
  <2> QED BY <1>3, <2>2
<1> QED BY <1>4, <1>5, <1>6, <1>7

\* Every other step leaves the books alone.
LEMMA OtherStep ==
  ASSUME NEW p \in Procs,
         \/ Request(p) \/ Abort(p)
         \/ BalanceSuffices(p) \/ BalanceInsufficient(p) \/ CardMissing(p)
         \/ UpdateOrderOnPaymentSuccess(p)
         \/ UpdateStatusWrite(p) \/ CancelWrite(p) \/ WorkerWrite(p)
         \/ FindPaymentToRefund(p) \/ RefundRejected(p)
  PROVE  UNCHANGED Books
<1>1. CASE Request(p)
  BY <1>1 DEF Request, CreateOrder, RequestPayment, UpdateStatusRead, CancelRead,
     WorkerRead, RequestRefund, Books
<1>2. CASE Abort(p)
  BY <1>2 DEF Abort, Books
<1> QED BY <1>1, <1>2 DEF BalanceSuffices, BalanceInsufficient, CardMissing,
     UpdateOrderOnPaymentSuccess, UpdateStatusWrite, CancelWrite, WorkerWrite,
     FindPaymentToRefund, RefundRejected, Books

LEMMA LedgerStep == IInv /\ [Next]_vars => [Ledger!Next]_Books
<1> SUFFICES ASSUME IInv, [Next]_vars PROVE Ledger!Next \/ UNCHANGED Books
  OBVIOUS
<1>1. ASSUME NEW p \in Procs, Request(p) \/ Abort(p)
      PROVE  UNCHANGED Books
  BY <1>1, OtherStep
<1>2. ASSUME NEW p \in Procs, Continue(p)
      PROVE  Ledger!Next \/ UNCHANGED Books
  BY <1>2, BookStep, SubmitStep, RowInProgressStep, OtherStep DEF Continue, Ledger!Next
<1>3. ASSUME NEW i \in 1..nTx, NEW a \in RefundChoices(i), AdminRefund(i, a)
      PROVE  Ledger!Next
  BY <1>3, RecordStep DEF Ledger!Next
<1>4. CASE UNCHANGED vars
  BY <1>4 DEF vars, Books
<1> QED BY <1>1, <1>2, <1>3, <1>4 DEF Next

\* The transactions table and the balances follow the ledger, whatever the
\* handlers do: rows are appended, never changed but by processing, and money
\* moves only in the step that records it.
THEOREM ImplementsTheLedger == Spec => ImplementsLedger
BY LedgerInit, LedgerStep, Invariance, PTL
   DEF Spec, ImplementsLedger, Ledger!Spec, Ledger!ledger, Books

-----------------------------------------------------------------------------
(* The balance is what the rows add up to.                                  *)

\* A status or a retry count written over says nothing of money.
LEMMA StatusIsNotMoney ==
  ASSUME TypeOK, NEW i \in 1..nTx, UNCHANGED <<nTx, balance>>,
         \/ \E status \in TxStatus : tx' = [tx EXCEPT ![i].status = status]
         \/ tx' = [tx EXCEPT ![i].status = "PENDING", ![i].retries = @ + 1]
  PROVE  MoneyKept
<1>1. \A j \in 1..nTx : tx[j] \in TxRow /\ j \in TxIds
  BY ConstantsAssumption DEF TypeOK, TxIds
<1>2. CASE \E status \in TxStatus : tx' = [tx EXCEPT ![i].status = status]
  BY <1>1, <1>2 DEF MoneyKept, TxRow, TypeOK
<1>3. CASE tx' = [tx EXCEPT ![i].status = "PENDING", ![i].retries = @ + 1]
  BY <1>1, <1>3 DEF MoneyKept, TxRow, TypeOK
<1> QED BY <1>2, <1>3

LEMMA MoneyStep ==
  ASSUME IInv, [Next]_vars
  PROVE  MoneyKept \/ \E row \in TxRow : Booked(row)
<1>1. TypeOK
  BY DEF IInv
<1>2. ASSUME UNCHANGED Books PROVE MoneyKept
  BY <1>2 DEF Books, MoneyKept
<1>3. ASSUME NEW p \in Procs, Request(p) \/ Abort(p)
      PROVE  MoneyKept
  BY <1>2, <1>3, OtherStep
<1>4. ASSUME NEW p \in Procs,
             \/ StartProcessing(p) \/ PaymentSucceeds(p) \/ PaymentFails(p)
             \/ RetryPayment(p) \/ StartRefund(p) \/ CompleteRefund(p)
      PROVE  MoneyKept
  <2>1. proc[p].pc \in Driving /\ HandlerOK(proc[p])
    BY <1>4 DEF IInv, HandlersOK, StartProcessing, PaymentSucceeds, PaymentFails,
       RetryPayment, StartRefund, CompleteRefund, At, Driving
  <2>2. proc[p].tx \in 1..nTx
    BY <2>1 DEF HandlerOK, RowInProgress
  <2>3. UNCHANGED <<nTx, balance>>
    BY <1>4 DEF StartProcessing, PaymentSucceeds, PaymentFails, RetryPayment,
       StartRefund, CompleteRefund, SetTxStatus
  <2>4. \/ \E status \in TxStatus : tx' = [tx EXCEPT ![proc[p].tx].status = status]
        \/ tx' = [tx EXCEPT ![proc[p].tx].status = "PENDING",
                            ![proc[p].tx].retries = @ + 1]
    BY <1>4, RowNames DEF StartProcessing, PaymentSucceeds, PaymentFails, RetryPayment,
       StartRefund, CompleteRefund, SetTxStatus
  <2> QED BY <1>1, <2>2, <2>3, <2>4, StatusIsNotMoney
<1>5. ASSUME NEW p \in Procs, Continue(p)
      PROVE  MoneyKept \/ \E row \in TxRow : Booked(row)
  BY <1>2, <1>4, <1>5, BookStep, SubmitStep, OtherStep DEF Continue
<1>6. ASSUME NEW i \in 1..nTx, NEW a \in RefundChoices(i), AdminRefund(i, a)
      PROVE  \E row \in TxRow : Booked(row)
  BY <1>6, RecordStep
<1>7. CASE UNCHANGED vars
  BY <1>2, <1>7 DEF vars, Books
<1> QED BY <1>3, <1>5, <1>6, <1>7 DEF Next

Amounts == [i \in TxIds |-> tx[i].amount]
Moved(u) == {i \in 1..nTx : tx[i].user = u /\ MovesBalance(tx[i])}

AddsUp(u) == balance[u] = InitialBalance[u] - Sum(Amounts, Moved(u))

LEMMA BalanceOfRows == BalanceMatchesRows <=> \A u \in Users : AddsUp(u)
<1>1. ASSUME NEW u
      PROVE  {i \in 1..nTx : tx[i].user = u /\ (IsDebit(i) \/ IsCredit(i))} = Moved(u)
  BY DEF Moved, MovesBalance, IsDebit, IsCredit
<1> QED BY <1>1 DEF BalanceMatchesRows, Sum, Amounts, AddsUp

LEMMA RowsAreSummable ==
  ASSUME TypeOK, NEW u
  PROVE  /\ IsFiniteSet(Moved(u))
         /\ Moved(u) \subseteq 1..nTx
         /\ 1..nTx \subseteq TxIds
         /\ \A i \in TxIds : Amounts[i] = tx[i].amount
         /\ \A i \in Moved(u) : Amounts[i] \in Int
         /\ Sum(Amounts, Moved(u)) \in Int
<1>1. 1..nTx \subseteq TxIds /\ IsFiniteSet(1..nTx)
  BY FS_Interval, ConstantsAssumption DEF TypeOK, TxIds
<1>2. Moved(u) \subseteq 1..nTx
  BY DEF Moved
<1>3. IsFiniteSet(Moved(u))
  BY <1>1, <1>2, FS_Subset
<1>4. \A i \in TxIds : Amounts[i] = tx[i].amount /\ tx[i].amount \in Int
  BY DEF Amounts, TypeOK, TxRow
<1>5. \A i \in Moved(u) : Amounts[i] \in Int
  BY <1>1, <1>2, <1>4
<1>6. Sum(Amounts, Moved(u)) \in Int
  BY <1>3, <1>5, SumTyped
<1> QED BY <1>1, <1>2, <1>3, <1>4, <1>5, <1>6

\* The sum over the rows of a user when none of them says otherwise.
LEMMA SameSum ==
  ASSUME TypeOK, TypeOK', NEW u, Moved(u)' = Moved(u),
         \A i \in Moved(u) : tx'[i].amount = tx[i].amount
  PROVE  Sum(Amounts, Moved(u))' = Sum(Amounts, Moved(u))
<1>1. \A i \in Moved(u) : Amounts'[i] = Amounts[i]
  BY RowsAreSummable DEF Amounts
<1>2. IsFiniteSet(Moved(u))
  BY RowsAreSummable
<1>3. Sum(Amounts', Moved(u)) = Sum(Amounts, Moved(u))
  BY <1>1, <1>2, SumCongruent
<1> QED BY <1>3

LEMMA KeptAddsUp ==
  ASSUME TypeOK, TypeOK', NEW u \in Users, AddsUp(u), MoneyKept
  PROVE  AddsUp(u)'
<1>1. Moved(u)' = Moved(u)
  BY DEF Moved, MovesBalance, MoneyKept
<1>2. \A i \in Moved(u) : tx'[i].amount = tx[i].amount
  BY RowsAreSummable DEF MoneyKept
<1>3. Sum(Amounts, Moved(u))' = Sum(Amounts, Moved(u))
  BY <1>1, <1>2, SameSum
<1> QED BY <1>3 DEF AddsUp, MoneyKept

LEMMA BookedAddsUp ==
  ASSUME TypeOK, TypeOK', NEW u \in Users, AddsUp(u), NEW row \in TxRow, Booked(row)
  PROVE  AddsUp(u)'
<1> DEFINE n == nTx + 1
<1>1. /\ nTx' = n /\ n \in TxIds /\ tx'[n] = row
      /\ \A i \in 1..nTx : tx'[i] = tx[i]
  BY InsertTyped DEF Booked
<1>2. 1..nTx' = 1..nTx \cup {n} /\ n \notin 1..nTx
  <2>1. nTx \in Nat
    BY ConstantsAssumption DEF TypeOK
  <2> QED BY <1>1, <2>1
<1>3. Sum(Amounts, Moved(u)) \in Int /\ IsFiniteSet(Moved(u))
  BY RowsAreSummable
<1>4. CASE row.user = u /\ MovesBalance(row)
  <2>1. Moved(u)' = Moved(u) \cup {n}
    BY <1>1, <1>2, <1>4 DEF Moved, MovesBalance
  <2>2. n \notin Moved(u) /\ (Moved(u) \cup {n}) \ {n} = Moved(u)
    BY <1>2 DEF Moved
  <2>3. \A i \in Moved(u) : Amounts'[i] = Amounts[i]
    BY <1>1, RowsAreSummable DEF Amounts
  <2>4. Amounts'[n] = row.amount /\ row.amount \in Int
    BY <1>1 DEF Amounts, TxRow
  <2>5. Sum(Amounts', Moved(u) \cup {n}) = Amounts'[n] + Sum(Amounts', Moved(u))
    <3>1. \A i \in Moved(u) \cup {n} : Amounts'[i] \in Int
      BY <2>3, <2>4, RowsAreSummable
    <3>2. IsFiniteSet(Moved(u) \cup {n})
      BY <1>3, FS_AddElement
    <3> QED BY <2>2, <3>1, <3>2, SumWithout
  <2>6. Sum(Amounts', Moved(u)) = Sum(Amounts, Moved(u))
    BY <1>3, <2>3, SumCongruent
  <2>7. balance'[u] = balance[u] - row.amount /\ balance[u] \in Int
    BY <1>4 DEF Booked, TypeOK
  <2>8. Sum(Amounts, Moved(u))' = row.amount + Sum(Amounts, Moved(u))
    BY <2>1, <2>4, <2>5, <2>6
  <2>9. InitialBalance[u] \in Int
    BY ConstantsAssumption
  <2> QED BY <1>3, <2>4, <2>7, <2>8, <2>9 DEF AddsUp
<1>5. CASE ~(row.user = u /\ MovesBalance(row))
  <2>1. Moved(u)' = Moved(u)
    BY <1>1, <1>2, <1>5 DEF Moved, MovesBalance
  <2>2. \A i \in Moved(u) : tx'[i].amount = tx[i].amount
    BY <1>1, RowsAreSummable
  <2>3. Sum(Amounts, Moved(u))' = Sum(Amounts, Moved(u))
    BY <2>1, <2>2, SameSum
  <2>4. balance'[u] = balance[u]
    BY <1>5 DEF Booked, TypeOK, TxRow
  <2> QED BY <2>3, <2>4 DEF AddsUp
<1> QED BY <1>4, <1>5

\* No interleaving loses an update: increments and decrements are the
\* database's, and each is in one $transaction with the row that records it.
THEOREM BalanceIsWhatTheRowsSay == Spec => []BalanceMatchesRows
<1> DEFINE Adds == \A u \in Users : AddsUp(u)
<1>1. Init => Adds
  <2> SUFFICES ASSUME Init, NEW u \in Users PROVE AddsUp(u)
    OBVIOUS
  <2>1. Moved(u) = {}
    BY DEF Init, Moved
  <2>2. Sum(Amounts, {}) = 0
    BY SumOfNone
  <2> QED BY <2>1, <2>2, ConstantsAssumption DEF Init, AddsUp
<1>2. IInv /\ IInv' /\ Adds /\ [Next]_vars => Adds'
  <2> SUFFICES ASSUME IInv, IInv', [Next]_vars, Adds, NEW u \in Users PROVE AddsUp(u)'
    OBVIOUS
  <2>1. TypeOK /\ TypeOK' /\ AddsUp(u)
    BY DEF IInv
  <2> HIDE DEF Adds
  <2> QED BY <2>1, MoneyStep, KeptAddsUp, BookedAddsUp
<1>3. Adds => BalanceMatchesRows
  BY BalanceOfRows
<1> QED BY <1>1, <1>2, <1>3, Invariance, PTL DEF Spec

-----------------------------------------------------------------------------
(* Overdrafts are bounded.                                                  *)

OnBalance == {"bal_read", "bal_commit"}

\* A balance payment is of the total of its order.
PaysTheTotal(h) ==
  h.pc \in OnBalance => h.order \in Orders /\ h.amount = Total[h.order]

\* What the handlers let through have still to debit.
Owed == [p \in Procs |-> proc[p].amount]
Committed(u) == {p \in Procs : At(p, "bal_commit") /\ proc[p].user = u}

\* What all handlers but one can have been let through with.
Slack == (Cardinality(Procs) - 1) * MaxTotal

Covered(u) == balance[u] >= Sum(Owed, Committed(u)) - Slack

Solvent ==
  /\ \A p \in Procs : PaysTheTotal(proc[p])
  /\ \A u \in Users : Covered(u)

LEMMA MaxTotalBounds == MaxTotal \in Nat /\ \A o \in Orders : Total[o] <= MaxTotal
<1> DEFINE B == {T \in SUBSET Orders :
                  T # {} /\ \A o \in T : \E x \in T : ~(Total[o] >= Total[x])}
<1>1. Orders \notin B
  <2> SUFFICES ASSUME B # {} PROVE FALSE
    OBVIOUS
  <2>1. PICK T \in B : \A U \in B : U \subseteq T => U = T
    <3>1. B \in SUBSET (SUBSET Orders)
      OBVIOUS
    <3> HIDE DEF B
    <3> QED BY <3>1, MinimalSubset, FiniteAssumption
  <2>2. PICK o \in T : TRUE
    OBVIOUS
  <2>3. T \ {o} \notin B
    BY <2>1
  <2>4. \A x \in T : Total[x] \in Int
    BY ConstantsAssumption
  <2>5. CASE T \ {o} = {}
    BY <2>4, <2>5
  <2>6. ASSUME NEW m \in T \ {o}, \A x \in T \ {o} : Total[m] >= Total[x]
        PROVE  FALSE
    BY <2>4, <2>6
  <2> QED BY <2>3, <2>5, <2>6
<1>2. PICK o \in Orders : \A x \in Orders : Total[o] >= Total[x]
  BY <1>1, FiniteAssumption
<1> DEFINE S == {Total[x] : x \in Orders}
<1>3. \E m \in S : \A y \in S : m >= y
  BY <1>2
<1>4. MaxTotal \in S /\ \A y \in S : MaxTotal >= y
  <2> HIDE DEF S
  <2>1. Max(S) \in S /\ \A y \in S : Max(S) >= y
    BY <1>3 DEF Max
  <2> QED BY <2>1 DEF MaxTotal, S
<1> QED BY <1>4, ConstantsAssumption

\* What the handlers other than p have been let through with is within Slack.
LEMMA OthersWithinSlack ==
  ASSUME IInv, Solvent, NEW p \in Procs, NEW u
  PROVE  /\ Sum(Owed, Committed(u) \ {p}) \in Nat
         /\ Sum(Owed, Committed(u) \ {p}) <= Slack
         /\ Slack \in Int
<1> DEFINE T == Committed(u) \ {p}
<1>1. \A q \in Committed(u) : Owed[q] \in 0..MaxTotal
  <2> TAKE q \in Committed(u)
  <2>1. q \in Procs /\ proc[q].pc = "bal_commit"
    BY DEF Committed, At
  <2>2. proc[q].order \in Orders /\ Owed[q] = Total[proc[q].order]
    BY <2>1 DEF Solvent, PaysTheTotal, OnBalance, Owed
  <2> QED BY <2>2, MaxTotalBounds, ConstantsAssumption
<1>2. T \subseteq Procs \ {p}
  BY DEF Committed
<1>3. IsFiniteSet(Procs \ {p}) /\ Cardinality(Procs \ {p}) = Cardinality(Procs) - 1
  BY FiniteAssumption, FS_RemoveElement
<1>4. IsFiniteSet(T) /\ Cardinality(T) <= Cardinality(Procs) - 1
  BY <1>2, <1>3, FS_Subset
<1>5. Cardinality(T) \in Nat /\ Cardinality(Procs) \in Nat
  BY <1>4, FiniteAssumption, FS_CardinalityType
<1>6. Sum(Owed, T) \in 0..(Cardinality(T) * MaxTotal)
  BY <1>1, <1>4, MaxTotalBounds, SumBounded
<1>7. PICK n \in Nat, k \in Nat, m \in Nat :
        n = Cardinality(T) /\ k = Cardinality(Procs) /\ m = MaxTotal
  BY <1>5, MaxTotalBounds
<1>8. n * m <= (k - 1) * m /\ n * m \in Nat /\ (k - 1) * m \in Int
  BY <1>4, <1>7
<1> QED BY <1>6, <1>7, <1>8 DEF Slack

\* What is owed, with and without handler p, before its step and after.
LEMMA OwedMoves ==
  ASSUME IInv, IInv', Solvent, NEW p \in Procs, NEW h \in Handler, Moves(p, h), NEW u
  PROVE  LET rest == Sum(Owed, Committed(u) \ {p}) IN
         /\ Sum(Owed, Committed(u)) =
              rest + IF p \in Committed(u) THEN proc[p].amount ELSE 0
         /\ Sum(Owed, Committed(u))' =
              rest + IF h.pc = "bal_commit" /\ h.user = u THEN h.amount ELSE 0
<1> DEFINE R == Committed(u) \ {p}
<1>1. proc'[p] = h /\ \A q \in Procs \ {p} : proc'[q] = proc[q]
  BY DEF Moves, IInv, TypeOK
<1>2. Committed(u)' = IF h.pc = "bal_commit" /\ h.user = u THEN R \cup {p} ELSE R
  BY <1>1 DEF Committed, At
<1>3. \A q \in R : q \in Procs /\ q # p
  BY DEF Committed
<1>4. IsFiniteSet(R \cup {p}) /\ R \cup {p} \subseteq Procs
  BY FiniteAssumption, FS_Subset DEF Committed
<1>5. \A q \in Procs : Owed[q] = proc[q].amount /\ Owed'[q] = proc'[q].amount
  BY DEF Owed
<1>6. \A q \in Procs : Owed[q] \in Int /\ Owed'[q] \in Int
  <2>1. \A q \in Procs : proc[q] \in Handler /\ proc'[q] \in Handler
    BY DEF IInv, TypeOK
  <2> QED BY <1>5, <2>1 DEF Handler
<1>7. Sum(Owed', R) = Sum(Owed, R) /\ Sum(Owed, R) \in Int
  <2>1. \A q \in R : Owed'[q] = Owed[q]
    BY <1>1, <1>3, <1>5
  <2>2. IsFiniteSet(R)
    BY <1>4, FS_Subset
  <2>3. \A q \in R : Owed[q] \in Int
    BY <1>3, <1>6
  <2> QED BY <2>1, <2>2, <2>3, SumCongruent, SumTyped
<1>8. (R \cup {p}) \ {p} = R /\ p \in R \cup {p}
  OBVIOUS
<1>9. /\ Sum(Owed, R \cup {p}) = Owed[p] + Sum(Owed, R)
      /\ Sum(Owed', R \cup {p}) = Owed'[p] + Sum(Owed', R)
  <2>1. \A q \in R \cup {p} : Owed[q] \in Int /\ Owed'[q] \in Int
    BY <1>4, <1>6
  <2>2. Sum(Owed, R \cup {p}) = Owed[p] + Sum(Owed, (R \cup {p}) \ {p})
    BY <1>4, <1>8, <2>1, SumWithout
  <2>3. Sum(Owed', R \cup {p}) = Owed'[p] + Sum(Owed', (R \cup {p}) \ {p})
    BY <1>4, <1>8, <2>1, SumWithout
  <2> QED BY <1>8, <2>2, <2>3
<1>10. /\ Owed[p] = proc[p].amount /\ proc[p].amount \in Int
       /\ Owed'[p] = h.amount /\ h.amount \in Int
  BY <1>1, <1>5, <1>6
<1>11. Sum(Owed, Committed(u)) =
         Sum(Owed, R) + IF p \in Committed(u) THEN proc[p].amount ELSE 0
  <2>1. CASE p \in Committed(u)
    <3>1. Sum(Owed, Committed(u)) = Sum(Owed, R \cup {p})
      <4>1. Committed(u) = R \cup {p}
        BY <2>1
      <4> QED BY <4>1
    <3> HIDE DEF R
    <3> QED BY <1>7, <1>9, <1>10, <2>1, <3>1
  <2>2. CASE p \notin Committed(u)
    <3>1. Committed(u) = R
      BY <2>2
    <3> QED BY <1>7, <2>2, <3>1
  <2> QED BY <2>1, <2>2
<1>12. Sum(Owed, Committed(u))' =
         Sum(Owed, R) + IF h.pc = "bal_commit" /\ h.user = u THEN h.amount ELSE 0
  <2>1. CASE h.pc = "bal_commit" /\ h.user = u
    <3>1. Committed(u)' = R \cup {p}
      BY <1>2, <2>1
    <3>2. Sum(Owed, Committed(u))' = Sum(Owed', R \cup {p})
      BY <3>1
    <3> QED BY <1>7, <1>9, <1>10, <2>1, <3>2
  <2>2. CASE ~(h.pc = "bal_commit" /\ h.user = u)
    <3>1. Committed(u)' = R
      BY <1>2, <2>2
    <3>2. Sum(Owed, Committed(u))' = Sum(Owed', R)
      BY <3>1
    <3> QED BY <1>7, <2>2, <3>2
  <2> QED BY <2>1, <2>2
<1> QED BY <1>11, <1>12


\* What a step does to the account of u: let its handler through, or move the
\* balance by no more than the handler was let through with.
LEMMA CoveredStep ==
  ASSUME IInv, IInv', Solvent, NEW p \in Procs, NEW h \in Handler, Moves(p, h),
         NEW u \in Users,
         \/ /\ proc[p].pc = "bal_read" /\ h.pc = "bal_commit"
            /\ balance[h.user] >= h.amount
            /\ balance' = balance
         \/ /\ h.pc # "bal_commit"
            /\ balance'[u] >= balance[u]
                 - IF p \in Committed(u) THEN proc[p].amount ELSE 0
  PROVE  Covered(u)'
<1> DEFINE rest   == Sum(Owed, Committed(u) \ {p})
           before == IF p \in Committed(u) THEN proc[p].amount ELSE 0
           after  == IF h.pc = "bal_commit" /\ h.user = u THEN h.amount ELSE 0
<1>1. rest \in Nat /\ rest <= Slack /\ Slack \in Int
  BY OthersWithinSlack
<1>2. Sum(Owed, Committed(u)) = rest + before /\ Sum(Owed, Committed(u))' = rest + after
  BY OwedMoves
<1>3. balance[u] \in Int /\ balance'[u] \in Int /\ before \in Int /\ after \in Int
  BY DEF IInv, TypeOK, Handler
<1>4. balance[u] >= rest + before - Slack
  <2>1. balance[u] >= Sum(Owed, Committed(u)) - Slack
    BY DEF Solvent, Covered
  <2> HIDE DEF rest, before, after
  <2> QED BY <1>1, <1>2, <1>3, <2>1
<1>5. Slack' = Slack
  BY DEF Slack, MaxTotal
<1>6. balance'[u] >= rest + after - Slack
  <2>1. CASE h.pc # "bal_commit"
    <3>1. after = 0 /\ balance'[u] >= balance[u] - before
      BY <2>1
    <3> HIDE DEF rest, before, after
    <3> QED BY <1>1, <1>3, <1>4, <3>1
  <2>2. CASE h.pc = "bal_commit"
    <3>1. before = 0 /\ balance'[u] = balance[u] /\ (after = 0 \/ balance[u] >= after)
      BY <2>2 DEF Committed, At
    <3> HIDE DEF rest, before, after
    <3> QED BY <1>1, <1>3, <1>4, <3>1
  <2> QED BY <2>1, <2>2
<1>7. balance'[u] >= Sum(Owed, Committed(u))' - Slack'
  <2> HIDE DEF rest, before, after
  <2> QED BY <1>1, <1>2, <1>3, <1>5, <1>6
<1> QED BY <1>7 DEF Covered

\* Where a handler goes on, and what it does to the balances, other than by
\* creating an order and paying for it.
LEMMA OffBalance ==
  ASSUME TypeOK, HandlersOK, NEW p \in Procs,
         Continue(p) \/ Abort(p), ~BalanceSuffices(p), ~BalancePayment(p)
  PROVE  /\ proc'[p].pc \notin OnBalance
         /\ \A u \in Users : balance'[u] >= balance[u]
<1>1. proc[p] \in Handler /\ HandlerOK(proc[p]) /\ balance \in [Users -> Int]
  BY DEF TypeOK, HandlersOK
<1>2. \A u \in Users : balance[u] >= balance[u]
  BY <1>1
<1>3. ASSUME Finish(p) PROVE proc'[p].pc \notin OnBalance
  BY <1>3 DEF Finish, TypeOK, Idle, OnBalance
<1>4. ASSUME NEW label, label \notin OnBalance, Goto(p, label)
      PROVE  proc'[p].pc \notin OnBalance
  <2>1. proc'[p].pc = label
    BY <1>1, <1>4 DEF Goto, TypeOK, Handler
  <2> QED BY <1>4, <2>1
<1>5. CASE Abort(p)
  BY <1>2, <1>3, <1>5 DEF Abort
<1>6. CASE BalanceInsufficient(p) \/ CardMissing(p) \/ PaymentFails(p)
             \/ UpdateOrderOnPaymentSuccess(p) \/ WorkerWrite(p)
             \/ RefundRejected(p) \/ CompleteRefund(p)
  BY <1>2, <1>3, <1>6 DEF BalanceInsufficient, CardMissing, PaymentFails,
     UpdateOrderOnPaymentSuccess, WorkerWrite, RefundRejected, CompleteRefund
<1>7. CASE StartProcessing(p) \/ RetryPayment(p) \/ StartRefund(p)
  <2>1. {"pay_wait", "pay_mark", "refund_wait"} \cap OnBalance = {}
    BY DEF OnBalance
  <2> QED BY <1>2, <1>4, <1>7, <2>1 DEF StartProcessing, RetryPayment, StartRefund
<1>8. CASE PaymentSucceeds(p)
  <2>1. "pay_order" \notin OnBalance
    BY DEF OnBalance
  <2> QED BY <1>2, <1>3, <1>4, <1>8, <2>1 DEF PaymentSucceeds
<1>9. CASE UpdateStatusWrite(p) \/ CancelWrite(p)
  <2>1. "refund_find" \notin OnBalance
    BY DEF OnBalance
  <2> QED BY <1>2, <1>3, <1>4, <1>9, <2>1 DEF UpdateStatusWrite, CancelWrite, RefundOrFinish
<1>10. CASE CreatePayment(p) \/ CreateRefund(p)
  <2>1. proc'[p].pc \in {"pay_mark", "refund_mark"}
    BY <1>1, <1>10 DEF CreatePayment, CreateRefund, TypeOK, Handler
  <2> QED BY <1>2, <1>10, <2>1 DEF CreatePayment, CreateRefund, OnBalance
<1>11. CASE FindPaymentToRefund(p)
  <2>1. ASSUME NEW label, NEW i, NEW o,
               proc' = [proc EXCEPT ![p] =
                 [Idle EXCEPT !.pc = label, !.user = Owner[o], !.order = o, !.tx = i,
                              !.amount = Total[o]]],
               label \notin OnBalance
        PROVE  proc'[p].pc \notin OnBalance
    BY <2>1 DEF TypeOK, Idle
  <2>2. "refund_balance" \notin OnBalance /\ "refund_create" \notin OnBalance
    BY DEF OnBalance
  <2> QED BY <1>2, <1>3, <1>11, <2>1, <2>2 DEF FindPaymentToRefund
<1>12. CASE RefundToBalance(p)
  <2>1. proc[p].amount > 0 /\ proc[p].amount \in Int
    BY <1>1, <1>12 DEF RefundToBalance, At, HandlerOK, WithMoney, Handler
  <2>2. balance' = [balance EXCEPT ![proc[p].user] = @ + proc[p].amount] /\ Finish(p)
    BY <1>12 DEF RefundToBalance
  <2>3. \A u \in Users : balance'[u] >= balance[u]
    BY <1>1, <2>1, <2>2
  <2> QED BY <1>3, <2>2, <2>3
<1> QED BY <1>5, <1>6, <1>7, <1>8, <1>9, <1>10, <1>11, <1>12 DEF Continue

LEMMA RequestsOnBalance ==
  ASSUME TypeOK, NEW p \in Procs, Request(p)
  PROVE  /\ UNCHANGED balance
         /\ proc'[p].pc # "bal_commit"
         /\ PaysTheTotal(proc'[p])
         /\ ~At(p, "bal_commit")
<1>1. CASE \E o \in Orders, method \in PaymentMethod : CreateOrder(p, o, method)
  <2>1. PICK o \in Orders, method \in PaymentMethod : CreateOrder(p, o, method)
    BY <1>1
  <2>2. \/ proc'[p] = Payment("pay_create", o)
        \/ proc'[p] = Payment("bal_read", o)
        \/ proc'[p] = Idle
    BY <2>1 DEF CreateOrder, Start, TypeOK, PaymentMethod
  <2>3. UNCHANGED balance /\ ~At(p, "bal_commit")
    BY <2>1 DEF CreateOrder, Start, At
  <2>4. Idle.pc = "idle"
    BY DEF Idle
  <2> QED BY <2>2, <2>3, <2>4, PaymentLocals DEF PaysTheTotal, OnBalance
<1>2. ASSUME NEW h, Start(p, h), h.pc \notin OnBalance
      PROVE  /\ proc'[p].pc # "bal_commit"
             /\ PaysTheTotal(proc'[p])
             /\ ~At(p, "bal_commit")
  BY <1>2 DEF Start, At, TypeOK, PaysTheTotal, OnBalance
<1>3. CASE \E u \in Users, o \in Orders \cup {NoOrder}, a \in PayAmounts :
             RequestPayment(p, u, o, a)
  <2>1. PICK u \in Users, o \in Orders \cup {NoOrder}, a \in PayAmounts :
          RequestPayment(p, u, o, a)
    BY <1>3
  <2> DEFINE h == [Idle EXCEPT !.pc = "pay_create", !.user = u, !.order = o, !.amount = a]
  <2>2. h.pc \notin OnBalance
    BY DEF Idle, OnBalance
  <2>3. Start(p, h) /\ UNCHANGED balance
    BY <2>1 DEF RequestPayment
  <2> HIDE DEF h
  <2> QED BY <1>2, <2>2, <2>3
<1>4. CASE \E o \in Orders, target \in OrderStatus : UpdateStatusRead(p, o, target)
  <2>1. PICK o \in Orders, target \in OrderStatus : UpdateStatusRead(p, o, target)
    BY <1>4
  <2> DEFINE h == [Idle EXCEPT !.pc = "staff_write", !.order = o, !.target = target,
                               !.paid = order[o].paid]
  <2>2. h.pc \notin OnBalance
    BY DEF Idle, OnBalance
  <2>3. Start(p, h) /\ UNCHANGED balance
    BY <2>1 DEF UpdateStatusRead
  <2> HIDE DEF h
  <2> QED BY <1>2, <2>2, <2>3
<1>5. CASE \E o \in Orders : CancelRead(p, o)
  <2>1. PICK o \in Orders : CancelRead(p, o)
    BY <1>5
  <2> DEFINE h == [Idle EXCEPT !.pc = "cancel_write", !.order = o,
                               !.target = "CANCELLED", !.paid = order[o].paid]
  <2>2. h.pc \notin OnBalance
    BY DEF Idle, OnBalance
  <2>3. Start(p, h) /\ UNCHANGED balance
    BY <2>1 DEF CancelRead
  <2> HIDE DEF h
  <2> QED BY <1>2, <2>2, <2>3
<1>6. CASE \E o \in Orders, target \in DOMAIN WorkerMayMoveFrom : WorkerRead(p, o, target)
  <2>1. PICK o \in Orders, target \in DOMAIN WorkerMayMoveFrom : WorkerRead(p, o, target)
    BY <1>6
  <2> DEFINE h == [Idle EXCEPT !.pc = "worker_write", !.order = o, !.target = target]
  <2>2. h.pc \notin OnBalance
    BY DEF Idle, OnBalance
  <2>3. Start(p, h) /\ UNCHANGED balance
    BY <2>1 DEF WorkerRead
  <2> HIDE DEF h
  <2> QED BY <1>2, <2>2, <2>3
<1>7. CASE \E i \in 1..nTx : \E a \in RefundChoices(i) : RequestRefund(p, i, a)
  <2>1. PICK i \in 1..nTx : \E a \in RefundChoices(i) : RequestRefund(p, i, a)
    BY <1>7
  <2>2. PICK a \in RefundChoices(i) : RequestRefund(p, i, a)
    BY <2>1
  <2> DEFINE h == [Idle EXCEPT !.pc = "refund_create", !.user = tx[i].user,
                               !.order = tx[i].order, !.tx = i, !.amount = a]
  <2>3. h.pc \notin OnBalance
    BY DEF Idle, OnBalance
  <2>4. Start(p, h) /\ UNCHANGED balance
    BY <2>2 DEF RequestRefund
  <2> HIDE DEF h
  <2> QED BY <1>2, <2>3, <2>4
<1> QED BY <1>1, <1>3, <1>4, <1>5, <1>6, <1>7 DEF Request

LEMMA SolventStep == IInv /\ IInv' /\ Solvent /\ [Next]_vars => Solvent'
<1> SUFFICES ASSUME IInv, IInv', Solvent, [Next]_vars PROVE Solvent'
  OBVIOUS
<1>1. TypeOK /\ HandlersOK /\ PaymentsPositive
  BY DEF IInv
<1>2. ASSUME NEW p \in Procs, Request(p) \/ Continue(p) \/ Abort(p)
      PROVE  Solvent'
  <2>1. PICK h \in Handler : Moves(p, h)
    <3>1. \E h \in Handler : StepOK(p, h)
      BY <1>1, <1>2, HandlerStep
    <3> QED BY <3>1 DEF StepOK
  <2>2. proc'[p] = h /\ \A q \in Procs \ {p} : proc'[q] = proc[q]
    BY <1>1, <2>1 DEF Moves, TypeOK
  <2>3. proc[p] \in Handler /\ HandlerOK(proc[p]) /\ balance \in [Users -> Int]
    BY <1>1 DEF TypeOK, HandlersOK
  <2>4. PaysTheTotal(h) /\ \A u \in Users : Covered(u)'
    <3>1. CASE BalanceSuffices(p)
      <4>1. h.pc = "bal_commit" /\ h.order = proc[p].order /\ h.user = proc[p].user
            /\ h.amount = proc[p].amount
        BY <1>1, <2>2, <2>3, <3>1 DEF BalanceSuffices, Goto, TypeOK, Handler
      <4>2. proc[p].pc = "bal_read" /\ balance[h.user] >= h.amount /\ balance' = balance
        BY <3>1, <4>1 DEF BalanceSuffices, At
      <4>3. PaysTheTotal(h)
        BY <4>1, <4>2 DEF Solvent, PaysTheTotal, OnBalance
      <4> QED BY <2>1, <4>1, <4>2, <4>3, CoveredStep
    <3>2. CASE BalancePayment(p)
      <4>1. h.pc \notin OnBalance
        BY <1>1, <2>2, <3>2 DEF BalancePayment, Finish, TypeOK, Idle, OnBalance
      <4>2. \A u \in Users : balance'[u] >= balance[u]
                - IF p \in Committed(u) THEN proc[p].amount ELSE 0
        <5>1. proc[p].pc = "bal_commit"
              /\ balance' = [balance EXCEPT ![proc[p].user] = @ - proc[p].amount]
          BY <3>2 DEF BalancePayment, At
        <5>2. \A u \in Users : p \in Committed(u) <=> proc[p].user = u
          BY <5>1 DEF Committed, At
        <5>3. proc[p].amount \in Int
          BY <2>3 DEF Handler
        <5> QED BY <2>3, <5>1, <5>2, <5>3
      <4> QED BY <2>1, <4>1, <4>2, CoveredStep DEF OnBalance, PaysTheTotal
    <3>3. CASE (Continue(p) \/ Abort(p)) /\ ~BalanceSuffices(p) /\ ~BalancePayment(p)
      <4>1. h.pc \notin OnBalance /\ \A u \in Users : balance'[u] >= balance[u]
        BY <1>1, <2>2, <3>3, OffBalance
      <4>2. \A u \in Users : balance'[u] >= balance[u]
                - IF p \in Committed(u) THEN proc[p].amount ELSE 0
        <5> TAKE u \in Users
        <5>1. balance[u] \in Int /\ balance'[u] \in Int /\ proc[p].amount \in Int
          BY <2>3 DEF Handler, IInv, TypeOK
        <5>2. p \in Committed(u) => proc[p].amount > 0
          BY <2>3 DEF Committed, At, HandlerOK, WithMoney
        <5> QED BY <4>1, <5>1, <5>2
      <4> QED BY <2>1, <4>1, <4>2, CoveredStep DEF OnBalance, PaysTheTotal
    <3>4. CASE Request(p)
      <4>1. balance' = balance /\ h.pc # "bal_commit" /\ PaysTheTotal(h)
            /\ ~At(p, "bal_commit")
        BY <1>1, <2>2, <3>4, RequestsOnBalance
      <4>2. \A u \in Users : balance'[u] >= balance[u]
                - IF p \in Committed(u) THEN proc[p].amount ELSE 0
        BY <2>3, <4>1 DEF Committed
      <4> QED BY <2>1, <4>1, <4>2, CoveredStep
    <3> QED BY <1>2, <3>1, <3>2, <3>3, <3>4
  <2>5. \A q \in Procs : PaysTheTotal(proc'[q])
    BY <2>2, <2>4 DEF Solvent
  <2> QED BY <2>4, <2>5 DEF Solvent, PaysTheTotal
<1>3. ASSUME UNCHANGED <<proc, balance>> PROVE Solvent'
  BY <1>3 DEF Solvent, PaysTheTotal, Covered, Owed, Committed, At, Slack, MaxTotal
<1>4. ASSUME NEW i \in 1..nTx, NEW a \in RefundChoices(i), AdminRefund(i, a)
      PROVE  Solvent'
  BY <1>3, <1>4 DEF AdminRefund
<1>5. CASE UNCHANGED vars
  BY <1>3, <1>5 DEF vars
<1> QED BY <1>2, <1>4, <1>5 DEF Next

\* Balance payments that have passed their check may overdraw the account, but
\* by no more than every other handler in flight could have been let through
\* with, and what is still to be debited is reckoned in.
THEOREM OverdraftsAreBounded == Spec => []OverdraftIsBounded
<1>1. Init => Solvent
  <2> SUFFICES ASSUME Init PROVE Solvent
    OBVIOUS
  <2>1. \A p \in Procs : proc[p].pc = "idle"
    BY DEF Init, Idle
  <2>2. \A u : Committed(u) = {}
    BY <2>1 DEF Committed, At
  <2>3. Slack \in Nat
    <3>1. Cardinality(Procs) \in Nat /\ Cardinality(Procs) # 0
      BY FiniteAssumption, FS_CardinalityType, FS_EmptySet
    <3>2. PICK k \in Nat, m \in Nat : k = Cardinality(Procs) - 1 /\ m = MaxTotal
      BY <3>1, MaxTotalBounds
    <3>3. k * m \in Nat
      OBVIOUS
    <3> QED BY <3>2, <3>3 DEF Slack
  <2>4. \A u \in Users : Covered(u)
    <3> TAKE u \in Users
    <3>1. Sum(Owed, Committed(u)) = 0
      BY <2>2, SumOfNone
    <3>2. balance[u] \in Nat
      BY ConstantsAssumption DEF Init
    <3> QED BY <2>3, <3>1, <3>2 DEF Covered
  <2> QED BY <2>1, <2>4 DEF Solvent, PaysTheTotal, OnBalance
<1>2. Solvent => OverdraftIsBounded
  BY DEF Solvent, Covered, OverdraftIsBounded, Sum, Owed, Committed, Slack
<1> QED BY <1>1, <1>2, SolventStep, Invariance, PTL DEF Spec
=============================================================================
