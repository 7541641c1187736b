----------------------- MODULE GuestWalletProperties -----------------------
(* What GuestWallet must guarantee of deposits, ledger rows and bonuses. *)
EXTENDS GuestWallet

\* Tables and locals have the values the code can write, a bonus belongs to a
\* ledger row, and the job only holds bonuses that exist.
TypeOK ==
  /\ wallet \in [Guests -> Wallet]
  /\ ledger \in Seq(Row)
  /\ DOMAIN bonus \subseteq DOMAIN ledger
  /\ \A i \in DOMAIN bonus : bonus[i] \in Bonus
  /\ request \in [Procs -> Local]
  /\ job.batch \subseteq DOMAIN bonus
  /\ job.id \in {0} \cup DOMAIN bonus
  /\ job.read \in Wallet

\* The deposit and the debt are written as absolute values computed from reads
\* that may be stale.  Even so neither ever becomes negative, in the guest's row
\* or in what the ledger shows, and in the order of commit the last row of a guest
\* shows the deposit the guest has: every handler that writes the deposit leaves,
\* in the same transaction, a row with the value it wrote.
RowsOf(g) == {i \in DOMAIN ledger : ledger[i].guest = g}

LedgerShowsDeposit ==
  /\ \A g \in Guests : wallet[g].deposit >= 0 /\ wallet[g].debt >= 0
  /\ \A i \in DOMAIN ledger : ledger[i].deposit >= 0 /\ ledger[i].debt >= 0
  /\ \A g \in Guests :
       wallet[g].deposit = IF RowsOf(g) = {} THEN InitialDeposit[g]
                           ELSE ledger[Max(RowsOf(g))].deposit

\* Each bonus is credited at most once, whatever the job's run and the refunds
\* of its top-up do to its status: a SCHEDULED one has no row yet, a CREDITED
\* one has a row, and a row is of its amount and of its guest.
CreditsOf(i) == {j \in DOMAIN ledger : ledger[j].type = "LOYALTY_BONUS" /\ ledger[j].ref = i}

BonusCreditedOnce ==
  \A i \in DOMAIN bonus :
    /\ Cardinality(CreditsOf(i)) <= 1
    /\ bonus[i].status = "SCHEDULED" => CreditsOf(i) = {}
    /\ bonus[i].status = "CREDITED" => CreditsOf(i) # {}
    /\ \A j \in CreditsOf(i) :
         ledger[j].amount = bonus[i].amount /\ ledger[j].guest = bonus[i].guest

\* A bonus is earned by the part of a top-up that did not repay a debt, of a
\* top-up that was made: its row and its bonus are written together or not at all.
BonusIsEarned ==
  \A i \in DOMAIN bonus :
    /\ ledger[i].type = "TOP_UP"
    /\ ledger[i].guest = bonus[i].guest
    /\ bonus[i].amount = floorBonus(ledger[i].amount - ledger[i].toDebt, BonusPercent)
    /\ ledger[i].amount - ledger[i].toDebt >= MinTopUp

\* Every refund is of an earlier top-up or booking charge of the same guest and
\* of the same amount.  refundDepositCharge looks for an earlier refund before its
\* transaction, so two cancellations at once refund a charge twice; but once a
\* refund is in, only those already past the check can add one.
Refunding(i) ==
  {p \in Procs : request[p].pc \in {"refund_read", "refund_commit"} /\ request[p].row = i}

RefundsAreBounded ==
  /\ \A j \in DOMAIN ledger : ledger[j].type = "REFUND" =>
       /\ ledger[j].ref \in 1..(j - 1)
       /\ ledger[ledger[j].ref].type \in {"TOP_UP", "VISIT_CHARGE"}
       /\ ledger[ledger[j].ref].guest = ledger[j].guest
       /\ ledger[ledger[j].ref].amount = ledger[j].amount
  /\ \A i \in DOMAIN ledger : ledger[i].type = "VISIT_CHARGE" =>
       Cardinality(RefundsOf(i)) + Cardinality(Refunding(i)) <= Cardinality(Procs)

\* A bonus that is due is credited or cancelled: the job takes bonuses in no
\* order and a bounded number at a time, and leaves none out for ever.
DueBonusesSettle ==
  \A i \in 1..MaxRows : (i \in DOMAIN bonus /\ i \in Due) ~> (i \notin Scheduled)

-----------------------------------------------------------------------------
(* What the repository says and the code does not do.                       *)

\* topUp answers that the deposit was topped up by the amount: its commit adds
\* what did not repay the debt to the deposit the guest has.
TopUpIsAdded ==
  [][\A p \in Procs : TopUpCommit(p) =>
       LET r == request[p] IN
       wallet'[r.guest].deposit = wallet[r.guest].deposit + (r.amount - r.toDebt)]_wvars
=============================================================================
