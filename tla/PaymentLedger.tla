--------------------------- MODULE PaymentLedger ---------------------------
(***************************************************************************)
(* What the transactions table promises, whichever handlers run: rows are  *)
(* only appended; a row moves PENDING, PROCESSING and then COMPLETED or    *)
(* FAILED, and keeps everything else it was written with but its retry     *)
(* count; a payment that is not COMPLETED may go back to PENDING, at most  *)
(* MaxRetries times; and the balance of a user moves only in the step that *)
(* appends the COMPLETED balance row that says by how much.                *)
(***************************************************************************)
EXTENDS Integers

CONSTANTS Users, MaxTx, MaxRetries, Row, EmptyRow, InitialBalance

VARIABLES rows, count, balance

ledger == <<rows, count, balance>>

Init == /\ rows = [i \in 1..MaxTx |-> EmptyRow]
        /\ count = 0
        /\ balance = InitialBalance

\* The row a step appends, and what else the table keeps.
New == rows'[count + 1]

Append ==
  /\ count < MaxTx
  /\ count' = count + 1
  /\ New \in Row
  /\ rows' = [rows EXCEPT ![count + 1] = New]

\* A row still to be processed: no money has moved.
Submit ==
  /\ Append
  /\ New.status = "PENDING"
  /\ New.retries = 0
  /\ UNCHANGED balance

\* A balance row: the debit of a payment or the credit of a refund.
Book ==
  /\ Append
  /\ New.status = "COMPLETED"
  /\ New.provider = "balance"
  /\ New.type = "PAYMENT" <=> New.amount > 0
  /\ balance' = [balance EXCEPT ![New.user] = @ - New.amount]

\* A refund an administrator records by hand: no balance moves.
Record ==
  /\ Append
  /\ New.status = "COMPLETED"
  /\ New.type = "REFUND"
  /\ New.amount > 0
  /\ UNCHANGED balance

NextStatus == [PENDING |-> {"PROCESSING"}, PROCESSING |-> {"COMPLETED", "FAILED"}]

Process(i) ==
  /\ rows[i].status \in DOMAIN NextStatus
  /\ \E status \in NextStatus[rows[i].status] :
       rows' = [rows EXCEPT ![i].status = status]
  /\ UNCHANGED <<count, balance>>

Retry(i) ==
  /\ rows[i].type = "PAYMENT"
  /\ rows[i].status = "PROCESSING"
  /\ rows[i].retries < MaxRetries
  /\ rows' = [rows EXCEPT ![i].status = "PENDING", ![i].retries = @ + 1]
  /\ UNCHANGED <<count, balance>>

Next ==
  \/ Submit
  \/ Book
  \/ Record
  \/ \E i \in 1..count : Process(i) \/ Retry(i)

Spec == Init /\ [][Next]_ledger
=============================================================================
