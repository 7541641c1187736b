--------------------------- MODULE OrderPayments ---------------------------
(***************************************************************************)
(* The money side of an order: orders.service.ts, transactions.service.ts, *)
(* the refund endpoints and the cafe worker panel's order buttons.         *)
(*                                                                         *)
(* The backend is one Node process.  A handler runs alone between two      *)
(* awaits and any other handler may run during an await, so each database  *)
(* statement, or $transaction block, is one step here and whatever a       *)
(* handler read before an await is a local that may be stale when it is    *)
(* used.  A member of Procs is a handler in flight: the request that       *)
(* started it, or the card payment that OrdersService.create starts        *)
(* without awaiting it.  A read of a row no other handler writes is merged *)
(* with the step that uses it.  Nothing is locked.                         *)
(***************************************************************************)
EXTENDS Integers, FiniteSets

CONSTANTS
  Users,          \* customers
  Orders,         \* ids of the orders that may be created
  NoOrder,        \* orderId = null of a transaction row
  NoUser,         \* no user: the user of an empty row or an idle handler
  Procs,          \* slots for handlers in flight
  Owner,          \* the customer that creates each order
  Total,          \* totalAmount of each order
  InitialBalance, \* User.balance at the start: 0 by default, never overdrawn
  PayAmounts,     \* amounts given in requests to pay: @Min(0.01)
  RefundAmounts,  \* amounts given in requests to refund: validated by nothing,
                  \* and an amount of 0 is none
  PaymentModes,   \* values PAYMENT_MODE may have in the environment
  MaxRetries,     \* Transaction.maxRetries, written by nobody
  MaxTx,          \* bound: transaction rows
  Aborts          \* TRUE: a handler may die between two of its steps

ASSUME ConstantsAssumption ==
  /\ NoOrder \notin Orders
  /\ NoUser \notin Users
  /\ Owner \in [Orders -> Users]
  /\ Total \in [Orders -> Nat \ {0}]
  /\ InitialBalance \in [Users -> Nat]
  /\ PayAmounts \subseteq Nat \ {0}
  /\ RefundAmounts \subseteq Int \ {0}
  /\ PaymentModes \subseteq {"good", "wait-5", "stop"}
  /\ MaxRetries \in Nat
  /\ MaxTx \in Nat
  /\ Aborts \in BOOLEAN

\* A process has finitely many handlers in flight and its database finitely many
\* orders; with none of either there is nothing to speak of.
ASSUME FiniteAssumption ==
  /\ IsFiniteSet(Orders) /\ Orders # {}
  /\ IsFiniteSet(Procs) /\ Procs # {}

VARIABLES
  order,    \* the orders table: status, paidAt # null, paymentMethod
  balance,  \* User.balance
  tx,       \* the transactions table, by order of creation
  nTx,      \* its number of rows
  proc,     \* the handlers in flight: where they are and their locals
  mode      \* process.env.PAYMENT_MODE, fixed while the process lives

vars == <<order, balance, tx, nTx, proc, mode>>

-----------------------------------------------------------------------------
(* Tables and locals. *)

OrderStatus == {"NONE", "PENDING", "CONFIRMED", "COMPLETED", "CANCELLED"}
PaymentMethod == {"CARD", "BALANCE", "CASH"}
OrderRow == [status : OrderStatus, paid : BOOLEAN, method : PaymentMethod]

TxIds == 1..MaxTx
TxStatus == {"NONE", "PENDING", "PROCESSING", "COMPLETED", "FAILED"}
TxRow == [type     : {"NONE", "PAYMENT", "REFUND"},
          status   : TxStatus,
          provider : {"none", "stripe", "balance"},
          user     : Users \cup {NoUser},
          order    : Orders \cup {NoOrder},
          amount   : Int,
          retries  : Nat,
          original : {0} \cup TxIds]     \* metadata.originalTransactionId

EmptyTx == [type |-> "NONE", status |-> "NONE", provider |-> "none",
            user |-> NoUser, order |-> NoOrder, amount |-> 0,
            retries |-> 0, original |-> 0]

Pc == {"idle", "pay_create", "pay_mark", "pay_wait", "pay_order",
       "bal_read", "bal_commit", "staff_write", "cancel_write", "worker_write",
       "refund_find", "refund_balance", "refund_create", "refund_mark",
       "refund_wait"}

Handler == [pc     : Pc,
            user   : Users \cup {NoUser},
            order  : Orders \cup {NoOrder},
            tx     : {0} \cup TxIds,
            amount : Int,
            target : OrderStatus,        \* the status an update asks for
            paid   : BOOLEAN]            \* order.paidAt as it was read

Idle == [pc |-> "idle", user |-> NoUser, order |-> NoOrder, tx |-> 0,
         amount |-> 0, target |-> "NONE", paid |-> FALSE]

Init ==
  /\ order = [o \in Orders |-> [status |-> "NONE", paid |-> FALSE, method |-> "CARD"]]
  /\ balance = InitialBalance
  /\ tx = [i \in TxIds |-> EmptyTx]
  /\ nTx = 0
  /\ proc = [p \in Procs |-> Idle]
  /\ mode \in PaymentModes

-----------------------------------------------------------------------------
(* Steps of a handler. *)

At(p, label) == proc[p].pc = label

Goto(p, label) == proc' = [proc EXCEPT ![p].pc = label]
Finish(p) == proc' = [proc EXCEPT ![p] = Idle]
Start(p, locals) == At(p, "idle") /\ proc' = [proc EXCEPT ![p] = locals]

\* Bound: a handler that may insert a row starts only while the table has room
\* for it and for every handler in flight, so that no handler is ever stuck.
RoomForOneMore == nTx + Cardinality({p \in Procs : ~At(p, "idle")}) < MaxTx

\* Mutant: the row takes its place but the table does not grow.
InsertWithoutId(row) ==
  /\ nTx < MaxTx
  /\ UNCHANGED nTx
  /\ tx' = [tx EXCEPT ![nTx + 1] = row]

Insert(row) ==
  /\ nTx < MaxTx
  /\ nTx' = nTx + 1
  /\ tx' = [tx EXCEPT ![nTx + 1] = row]

SetTxStatus(i, status) == tx' = [tx EXCEPT ![i].status = status] /\ UNCHANGED nTx
SetOrderStatus(o, status) == order' = [order EXCEPT ![o].status = status]

\* -Math.abs(amount)
Negated(amount) == IF amount > 0 THEN -amount ELSE amount

\* data: { status: CONFIRMED, paidAt, confirmedAt }, whatever the status was.
ConfirmAsPaid(o) ==
  order' = [order EXCEPT ![o].status = "CONFIRMED", ![o].paid = TRUE]

Exists(o) == order[o].status # "NONE"
IsCompletedPayment(i) == tx[i].type = "PAYMENT" /\ tx[i].status = "COMPLETED"

-----------------------------------------------------------------------------
(* Mutants: bugs this code could have had, each of which breaks a property.  *)

\* The balance is not checked before it is debited.
BalanceUnchecked(p) ==
  /\ At(p, "bal_read")
  /\ Goto(p, "bal_commit")
  /\ UNCHANGED <<order, balance, tx, nTx>>

\* The order is confirmed first and the payment row never completed.
OrderPaidBeforeRow(p) ==
  /\ At(p, "pay_wait")
  /\ mode # "stop"
  /\ IF proc[p].order # NoOrder THEN ConfirmAsPaid(proc[p].order) ELSE UNCHANGED order
  /\ Finish(p)
  /\ UNCHANGED <<balance, tx, nTx>>

\* A retry does not count itself.
RetryUncounted(p) ==
  /\ At(p, "pay_wait")
  /\ mode = "stop"
  /\ tx[proc[p].tx].retries < MaxRetries
  /\ SetTxStatus(proc[p].tx, "PENDING")
  /\ Goto(p, "pay_mark")
  /\ UNCHANGED <<order, balance>>

\* The order is not told that its payment succeeded.
SuccessNotPropagated(p) ==
  /\ At(p, "pay_wait")
  /\ mode # "stop"
  /\ SetTxStatus(proc[p].tx, "COMPLETED")
  /\ Finish(p)
  /\ UNCHANGED <<order, balance>>

\* The refund of a cancelled balance order clears paidAt.
RefundUnmarksPaid(p) ==
  /\ At(p, "refund_balance")
  /\ Insert([EmptyTx EXCEPT !.type = "REFUND", !.status = "COMPLETED",
                            !.provider = "balance", !.user = proc[p].user,
                            !.order = proc[p].order, !.amount = -proc[p].amount])
  /\ balance' = [balance EXCEPT ![proc[p].user] = @ + proc[p].amount]
  /\ order' = [order EXCEPT ![proc[p].order].paid = FALSE]
  /\ Finish(p)

\* The refund row is written without its minus sign.
RefundUnsigned(p) ==
  /\ At(p, "refund_balance")
  /\ Insert([EmptyTx EXCEPT !.type = "REFUND", !.status = "COMPLETED",
                            !.provider = "balance", !.user = proc[p].user,
                            !.order = proc[p].order, !.amount = proc[p].amount])
  /\ balance' = [balance EXCEPT ![proc[p].user] = @ + proc[p].amount]
  /\ Finish(p)
  /\ UNCHANGED order

\* A cancelled order's refund is looked up among the payments still pending.
NothingToRefund(o) ==
  {i \in 1..nTx : tx[i].status = "PENDING" /\ tx[i].order = o /\ tx[i].user = Owner[o]}

\* Any payment can be refunded, completed or not.
RefundOfAnyPayment(p, i, amount) ==
  /\ RoomForOneMore
  /\ tx[i].type = "PAYMENT"
  /\ Start(p, [Idle EXCEPT !.pc = "refund_create", !.user = tx[i].user,
                           !.order = tx[i].order, !.tx = i, !.amount = amount])
  /\ UNCHANGED <<order, balance, tx, nTx>>

\* The id of the payment, not of the refund, goes to processRefund.
RefundProcessesPayment(p) ==
  LET paid == tx[proc[p].tx] IN
  /\ At(p, "refund_create")
  /\ proc[p].amount <= paid.amount
  /\ Insert([paid EXCEPT !.type = "REFUND", !.status = "PENDING", !.retries = 0,
                         !.amount = Negated(proc[p].amount),
                         !.original = proc[p].tx])
  /\ Goto(p, "refund_mark")
  /\ UNCHANGED <<order, balance>>

-----------------------------------------------------------------------------
(* OrdersService.create.  The order is always created PENDING; CARD starts *)
(* the payment without awaiting it, BALANCE awaits it, CASH does neither.  *)

Payment(label, o) ==
  [Idle EXCEPT !.pc = label, !.user = Owner[o], !.order = o, !.amount = Total[o]]

CreateOrder(p, o, method) ==
  /\ ~Exists(o)
  /\ method # "CASH" => RoomForOneMore
  /\ order' = [order EXCEPT ![o] =
                 [status |-> "PENDING", paid |-> FALSE, method |-> method]]
  /\ Start(p, CASE method = "CARD"    -> Payment("pay_create", o)
                [] method = "BALANCE" -> Payment("bal_read", o)
                [] method = "CASH"    -> Idle)
  /\ UNCHANGED <<balance, tx, nTx>>

(* OrdersService.initiateBalancePayment: check the balance, then pay in one *)
(* database transaction.                                                    *)

BalanceSuffices(p) ==
  /\ At(p, "bal_read")
  /\ balance[proc[p].user] >= proc[p].amount
  /\ Goto(p, "bal_commit")
  /\ UNCHANGED <<order, balance, tx, nTx>>

BalanceInsufficient(p) ==
  /\ At(p, "bal_read")
  /\ balance[proc[p].user] < proc[p].amount
  /\ Finish(p)
  /\ UNCHANGED <<order, balance, tx, nTx>>

BalancePayment(p) ==
  /\ At(p, "bal_commit")
  /\ Insert([EmptyTx EXCEPT !.type = "PAYMENT", !.status = "COMPLETED",
                            !.provider = "balance", !.user = proc[p].user,
                            !.order = proc[p].order, !.amount = proc[p].amount])
  /\ balance' = [balance EXCEPT ![proc[p].user] = @ - proc[p].amount]
  /\ ConfirmAsPaid(proc[p].order)
  /\ Finish(p)

-----------------------------------------------------------------------------
(* TransactionsService.createPayment and processPayment.                    *)

\* POST /users/payments: any amount, for an order or for none.
RequestPayment(p, u, o, amount) ==
  /\ RoomForOneMore
  /\ o # NoOrder => Exists(o)            \* the foreign key of the row
  /\ Start(p, [Idle EXCEPT !.pc = "pay_create", !.user = u, !.order = o,
                           !.amount = amount])
  /\ UNCHANGED <<order, balance, tx, nTx>>

\* The card may have been deleted: the request is refused, the job just logs.
CardMissing(p) ==
  /\ At(p, "pay_create")
  /\ Finish(p)
  /\ UNCHANGED <<order, balance, tx, nTx>>

CreatePayment(p) ==
  /\ At(p, "pay_create")
  /\ Insert([EmptyTx EXCEPT !.type = "PAYMENT", !.status = "PENDING",
                            !.provider = "stripe", !.user = proc[p].user,
                            !.order = proc[p].order, !.amount = proc[p].amount])
  /\ proc' = [proc EXCEPT ![p].pc = "pay_mark", ![p].tx = nTx + 1]
  /\ UNCHANGED <<order, balance>>

StartProcessing(p) ==
  /\ At(p, "pay_mark")
  /\ SetTxStatus(proc[p].tx, "PROCESSING")
  /\ Goto(p, "pay_wait")
  /\ UNCHANGED <<order, balance>>

PaymentSucceeds(p) ==
  /\ At(p, "pay_wait")
  /\ mode # "stop"
  /\ SetTxStatus(proc[p].tx, "COMPLETED")
  /\ IF tx[proc[p].tx].order # NoOrder THEN Goto(p, "pay_order") ELSE Finish(p)
  /\ UNCHANGED <<order, balance>>

RetryPayment(p) ==
  /\ At(p, "pay_wait")
  /\ mode = "stop"
  /\ tx[proc[p].tx].retries < MaxRetries
  /\ tx' = [tx EXCEPT ![proc[p].tx].status = "PENDING",
                      ![proc[p].tx].retries = @ + 1]
  /\ Goto(p, "pay_mark")
  /\ UNCHANGED <<order, balance, nTx>>

PaymentFails(p) ==
  /\ At(p, "pay_wait")
  /\ mode = "stop"
  /\ tx[proc[p].tx].retries >= MaxRetries
  /\ SetTxStatus(proc[p].tx, "FAILED")
  /\ Finish(p)
  /\ UNCHANGED <<order, balance>>

UpdateOrderOnPaymentSuccess(p) ==
  /\ At(p, "pay_order")
  /\ ConfirmAsPaid(proc[p].order)
  /\ Finish(p)
  /\ UNCHANGED <<balance, tx, nTx>>

-----------------------------------------------------------------------------
(* Staff: OrdersService.updateStatus reads the order, validates what it     *)
(* read, and writes the status in a later statement.                        *)

validTransitions ==
  [s \in OrderStatus |-> CASE s = "PENDING"   -> {"CONFIRMED", "CANCELLED"}
                           [] s = "CONFIRMED" -> {"COMPLETED", "CANCELLED"}
                           [] OTHER           -> {}]

UpdateStatusRead(p, o, target) ==
  /\ target = "CANCELLED" => RoomForOneMore
  /\ target \in validTransitions[order[o].status]
  /\ target = "CONFIRMED" => order[o].method = "CASH" \/ order[o].paid
  /\ target = "COMPLETED" => order[o].paid /\ order[o].status = "CONFIRMED"
  /\ Start(p, [Idle EXCEPT !.pc = "staff_write", !.order = o, !.target = target,
                           !.paid = order[o].paid])
  /\ UNCHANGED <<order, balance, tx, nTx>>

\* A cancelled order is refunded when the row that was READ was paid.
RefundOrFinish(p) ==
  LET o == proc[p].order IN
  IF proc[p].target = "CANCELLED" /\ proc[p].paid /\ order[o].method # "CASH"
  THEN Goto(p, "refund_find")
  ELSE Finish(p)

UpdateStatusWrite(p) ==
  /\ At(p, "staff_write")
  /\ SetOrderStatus(proc[p].order, proc[p].target)
  /\ RefundOrFinish(p)
  /\ UNCHANGED <<balance, tx, nTx>>

(* The customer: OrdersService.cancel, pending orders only.                 *)

CancelRead(p, o) ==
  /\ RoomForOneMore
  /\ order[o].status = "PENDING"
  /\ Start(p, [Idle EXCEPT !.pc = "cancel_write", !.order = o,
                           !.target = "CANCELLED", !.paid = order[o].paid])
  /\ UNCHANGED <<order, balance, tx, nTx>>

CancelWrite(p) ==
  /\ At(p, "cancel_write")
  /\ SetOrderStatus(proc[p].order, "CANCELLED")
  /\ RefundOrFinish(p)
  /\ UNCHANGED <<balance, tx, nTx>>

(* The worker panel: confirmOrder, completeOrder, cancelOrder of            *)
(* CafeWorkerService look at the status alone and refund nothing.           *)

WorkerMayMoveFrom ==
  [CONFIRMED |-> {"PENDING"}, COMPLETED |-> {"CONFIRMED"},
   CANCELLED |-> {"PENDING", "CONFIRMED"}]

WorkerRead(p, o, target) ==
  /\ order[o].status \in WorkerMayMoveFrom[target]
  /\ Start(p, [Idle EXCEPT !.pc = "worker_write", !.order = o, !.target = target])
  /\ UNCHANGED <<order, balance, tx, nTx>>

WorkerWrite(p) ==
  /\ At(p, "worker_write")
  /\ SetOrderStatus(proc[p].order, proc[p].target)
  /\ Finish(p)
  /\ UNCHANGED <<balance, tx, nTx>>

-----------------------------------------------------------------------------
(* Refunds. *)

\* Completed payments of the order made by its owner, for the refund lookup.
OwnersPayments(o) ==
  {i \in 1..nTx : IsCompletedPayment(i) /\ tx[i].order = o /\ tx[i].user = Owner[o]}

\* findFirst ... orderBy createdAt desc; nothing found, nothing refunded.
FindPaymentToRefund(p) ==
  LET o == proc[p].order IN
  /\ At(p, "refund_find")
  /\ IF OwnersPayments(o) = {}
     THEN Finish(p)
     ELSE \E i \in OwnersPayments(o) :
            /\ \A j \in OwnersPayments(o) : j <= i
            /\ proc' = [proc EXCEPT ![p] =
                 [Idle EXCEPT !.pc = IF order[o].method = "BALANCE"
                                     THEN "refund_balance" ELSE "refund_create",
                              !.user = Owner[o], !.order = o, !.tx = i,
                              !.amount = Total[o]]]
  /\ UNCHANGED <<order, balance, tx, nTx>>

RefundToBalance(p) ==
  /\ At(p, "refund_balance")
  /\ Insert([EmptyTx EXCEPT !.type = "REFUND", !.status = "COMPLETED",
                            !.provider = "balance", !.user = proc[p].user,
                            !.order = proc[p].order, !.amount = -proc[p].amount])
  /\ balance' = [balance EXCEPT ![proc[p].user] = @ + proc[p].amount]
  /\ Finish(p)
  /\ UNCHANGED order

\* POST /users/transactions/:id/refund, for a payment of the caller; without
\* an amount in the request, all of it.  Only an amount greater than the
\* payment's is refused: a negative one is not, and loses its sign.
RequestRefund(p, i, amount) ==
  /\ RoomForOneMore
  /\ IsCompletedPayment(i)
  /\ Start(p, [Idle EXCEPT !.pc = "refund_create", !.user = tx[i].user,
                           !.order = tx[i].order, !.tx = i, !.amount = amount])
  /\ UNCHANGED <<order, balance, tx, nTx>>

RefundRejected(p) ==
  /\ At(p, "refund_create")
  /\ proc[p].amount > tx[proc[p].tx].amount
  /\ Finish(p)
  /\ UNCHANGED <<order, balance, tx, nTx>>

CreateRefund(p) ==
  LET paid == tx[proc[p].tx] IN
  /\ At(p, "refund_create")
  /\ proc[p].amount <= paid.amount
  /\ Insert([paid EXCEPT !.type = "REFUND", !.status = "PENDING", !.retries = 0,
                         !.amount = Negated(proc[p].amount),
                         !.original = proc[p].tx])
  /\ proc' = [proc EXCEPT ![p].pc = "refund_mark", ![p].tx = nTx + 1]
  /\ UNCHANGED <<order, balance>>

StartRefund(p) ==
  /\ At(p, "refund_mark")
  /\ SetTxStatus(proc[p].tx, "PROCESSING")
  /\ Goto(p, "refund_wait")
  /\ UNCHANGED <<order, balance>>

\* Refunds always succeed (const success = true).
CompleteRefund(p) ==
  /\ At(p, "refund_wait")
  /\ SetTxStatus(proc[p].tx, "COMPLETED")
  /\ Finish(p)
  /\ UNCHANGED <<order, balance>>

\* SYSTEM_ADMIN: the row is inserted COMPLETED, with a positive amount (others
\* are refused) and no metadata.
AdminRefund(i, amount) ==
  /\ RoomForOneMore
  /\ IsCompletedPayment(i)
  /\ amount \in 1..tx[i].amount
  /\ Insert([tx[i] EXCEPT !.type = "REFUND", !.status = "COMPLETED",
                          !.retries = 0, !.amount = amount, !.original = 0])
  /\ UNCHANGED <<order, balance, proc, mode>>

-----------------------------------------------------------------------------
\* A statement throws or the process dies: the handler is gone, what it wrote
\* stays.  Its catch blocks log and compensate nothing.
Abort(p) ==
  /\ Aborts
  /\ ~At(p, "idle")
  /\ Finish(p)
  /\ UNCHANGED <<order, balance, tx, nTx, mode>>

RefundChoices(i) == RefundAmounts \cup {tx[i].amount}

Request(p) ==
  /\ \/ \E o \in Orders, method \in PaymentMethod : CreateOrder(p, o, method)
     \/ \E u \in Users, o \in Orders \cup {NoOrder}, a \in PayAmounts :
          RequestPayment(p, u, o, a)
     \/ \E o \in Orders, target \in OrderStatus : UpdateStatusRead(p, o, target)
     \/ \E o \in Orders : CancelRead(p, o)
     \/ \E o \in Orders, target \in DOMAIN WorkerMayMoveFrom : WorkerRead(p, o, target)
     \/ \E i \in 1..nTx : \E a \in RefundChoices(i) : RequestRefund(p, i, a)
  /\ UNCHANGED mode

Continue(p) ==
  /\ \/ BalanceSuffices(p)
     \/ BalanceInsufficient(p)
     \/ BalancePayment(p)
     \/ CardMissing(p)
     \/ CreatePayment(p)
     \/ StartProcessing(p)
     \/ PaymentSucceeds(p)
     \/ RetryPayment(p)
     \/ PaymentFails(p)
     \/ UpdateOrderOnPaymentSuccess(p)
     \/ UpdateStatusWrite(p)
     \/ CancelWrite(p)
     \/ WorkerWrite(p)
     \/ FindPaymentToRefund(p)
     \/ RefundToBalance(p)
     \/ RefundRejected(p)
     \/ CreateRefund(p)
     \/ StartRefund(p)
     \/ CompleteRefund(p)
  /\ UNCHANGED mode

Next ==
  \/ \E p \in Procs : Request(p)
  \/ \E p \in Procs : Continue(p)
  \/ \E p \in Procs : Abort(p)
  \/ \E i \in 1..nTx : \E a \in RefundChoices(i) : AdminRefund(i, a)

Spec == Init /\ [][Next]_vars

\* The event loop runs every callback that is ready and the database answers:
\* a handler that can take its next step takes it.  Requests need not come.
FairSpec == Spec /\ \A p \in Procs : WF_vars(Continue(p))
=============================================================================
