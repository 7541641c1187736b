---------------------- MODULE OrderPaymentsProperties ----------------------
(***************************************************************************)
(* What OrderPayments must guarantee, whatever handlers are interleaved    *)
(* and wherever they die, and what it must do when none dies.              *)
(***************************************************************************)
EXTENDS OrderPayments, FiniteSetsExt

\* Every table and every handler's locals have the values the code can write:
\* rows beyond the last one are empty, the others are not.
TypeOK ==
  /\ order \in [Orders -> OrderRow]
  /\ balance \in [Users -> Int]
  /\ tx \in [TxIds -> TxRow]
  /\ nTx \in 0..MaxTx
  /\ proc \in [Procs -> Handler]
  /\ mode \in PaymentModes
  /\ \A i \in TxIds : tx[i].type = "NONE" <=> i > nTx

-----------------------------------------------------------------------------
(* Handlers and the rows they drive.                                        *)

Driving == {"pay_mark", "pay_wait", "refund_mark", "refund_wait"}

RowInProgress(h) ==
  /\ h.tx \in 1..nTx
  /\ tx[h.tx].type = IF h.pc \in {"pay_mark", "pay_wait"} THEN "PAYMENT" ELSE "REFUND"
  /\ tx[h.tx].status = IF h.pc \in {"pay_mark", "refund_mark"}
                       THEN "PENDING" ELSE "PROCESSING"

\* A handler that is processing a row finds it as it left it: nobody else
\* writes a row in progress, so processPayment, retryPayment and processRefund
\* never mark a row twice or move a finished one.
RowsInProgressAreOwned ==
  \A p \in Procs : proc[p].pc \in Driving =>
    /\ RowInProgress(proc[p])
    /\ \A q \in Procs \ {p} : proc[q].pc \in Driving => proc[q].tx # proc[p].tx

-----------------------------------------------------------------------------
(* Orders and payments.                                                     *)

HasCompletedPayment(o) == \E i \in 1..nTx : IsCompletedPayment(i) /\ tx[i].order = o

\* An order is marked paid only when a payment row of that order is COMPLETED,
\* and stays so marked, whichever of processPayment, the balance payment and the
\* handlers that only write the status got there first.
PaidHasPayment == \A o \in Orders : order[o].paid => HasCompletedPayment(o)

\* OrdersService.updateStatus checked a row it read earlier: even so, when its
\* write lands, the order it completes is paid, and the one it confirms is paid
\* or pays in cash.
StaffAdvancesOnlyPaid ==
  [][\A p \in Procs : UpdateStatusWrite(p) =>
       LET o == proc[p].order IN
       /\ order'[o].status = "COMPLETED" => order[o].paid
       /\ order'[o].status = "CONFIRMED" => order[o].paid \/ order[o].method = "CASH"]_vars

\* Every refund is of a COMPLETED payment made earlier by the same user for the
\* same order.  createRefund's name that payment and, unless a request asked for
\* that very amount with a minus sign, are of no more than it; createRefundAdmin's
\* are of no more than it whatever was asked.
Backs(j, row) ==
  /\ IsCompletedPayment(j)
  /\ tx[j].order = row.order
  /\ tx[j].user = row.user
  /\ row.original # 0 =>
       /\ row.original = j
       /\ -row.amount <= tx[j].amount \/ row.amount \in RefundAmounts
  /\ row.amount > 0 => row.amount <= tx[j].amount

RefundsAreBacked ==
  \A i \in 1..nTx : tx[i].type = "REFUND" => \E j \in 1..(i - 1) : Backs(j, tx[i])

-----------------------------------------------------------------------------
(* The balance.                                                             *)

\* A refund credited to the balance by a cancellation: createRefund's rows have
\* metadata and createRefundAdmin's a positive amount.
IsCredit(i) ==
  /\ tx[i].type = "REFUND"
  /\ tx[i].provider = "balance"
  /\ tx[i].original = 0
  /\ tx[i].amount < 0

IsDebit(i) == tx[i].type = "PAYMENT" /\ tx[i].provider = "balance"

\* The balance is what the customer started with, less the balance payments,
\* plus the credits of cancelled orders: no interleaving loses an update.
BalanceMatchesRows ==
  \A u \in Users :
    balance[u] = InitialBalance[u]
      - SumFunctionOnSet([i \in TxIds |-> tx[i].amount],
          {i \in 1..nTx : tx[i].user = u /\ (IsDebit(i) \/ IsCredit(i))})

\* The balance check of initiateBalancePayment is made before the transaction
\* that debits: payments that have passed it may overdraw the account, but by
\* less than what the other handlers in flight have been let through with.
MaxTotal == Max({Total[o] : o \in Orders})

OverdraftIsBounded ==
  \A u \in Users :
    balance[u] >= SumFunctionOnSet([p \in Procs |-> proc[p].amount],
                    {p \in Procs : At(p, "bal_commit") /\ proc[p].user = u})
                  - (Cardinality(Procs) - 1) * MaxTotal

\* The transactions table and the balance implement PaymentLedger.
Ledger == INSTANCE PaymentLedger WITH
  Row <- TxRow, EmptyRow <- EmptyTx, rows <- tx, count <- nTx

ImplementsLedger == Ledger!Spec

-----------------------------------------------------------------------------
(* What must eventually happen while no handler dies.                       *)

\* Every transaction row ends COMPLETED or FAILED: the retries of
\* processPayment are bounded and every processing ends.
RowsSettle ==
  \A i \in TxIds : tx[i].status \in {"PENDING", "PROCESSING"}
                     ~> tx[i].status \in {"COMPLETED", "FAILED"}

\* A completed payment of an order marks the order paid.
CompletedPaymentMarksPaid ==
  \A o \in Orders : HasCompletedPayment(o) ~> order[o].paid

\* When an order is paid only through OrdersService, a cancellation that read
\* it as paid ends with a COMPLETED refund of its total.
IsRefundOf(i, o) ==
  /\ tx[i].type = "REFUND"
  /\ tx[i].status = "COMPLETED"
  /\ tx[i].order = o
  /\ tx[i].amount = -Total[o]

PaidCancelIsRefunded ==
  \A o \in Orders :
    (\E p \in Procs : At(p, "refund_find") /\ proc[p].order = o)
      ~> (\E i \in 1..nTx : IsRefundOf(i, o))

-----------------------------------------------------------------------------
(* What the repository says and the code does not do.                       *)

\* orders.service.ts, validTransitions: CANCELLED has no successor.  A payment
\* that lands on a cancelled order, whoever cancelled it, marks it paid and
\* leaves it cancelled.
PaymentRevivesNoOrder ==
  [][\A o \in Orders :
       order[o].status = "CANCELLED" /\ ~order[o].paid /\ order'[o].paid
         => order'[o].status = "CANCELLED"]_vars

\* orders.service.ts, "Insufficient balance": an order is paid from the balance
\* only if the balance covers it.
BalanceNeverNegative == \A u \in Users : balance[u] >= 0

\* docs/PROGRESS.md: cancelling a paid order creates the refund automatically.
CancelledPaidOrderIsRefunded ==
  \A o \in Orders :
    order[o].status = "CANCELLED" /\ order[o].paid /\ order[o].method # "CASH"
      ~> \E i \in 1..nTx : IsRefundOf(i, o)
=============================================================================
