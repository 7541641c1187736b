---------------------------- MODULE GuestWallet ----------------------------
(***************************************************************************)
(* A guest's deposit and debt: guest-wallet.service.ts, and the job of     *)
(* loyalty-accrual.service.ts that credits the bonuses of top-ups.         *)
(*                                                                         *)
(* Every handler reads the guest first and later writes, in one database   *)
(* transaction, the absolute deposit (and debt) it computed from that      *)
(* read.  READ COMMITTED and no lock: two handlers may compute from the    *)
(* same read.  A transaction that throws, or that PostgreSQL aborts        *)
(* because refundTopUp and accrueOne lock guest and bonus in opposite      *)
(* order, writes nothing: Abort and AccrueFails.                           *)
(***************************************************************************)
EXTENDS Integers, Sequences, FiniteSets, FiniteSetsExt

CONSTANTS
  Guests,
  NoGuest,        \* the guest of an idle handler
  Procs,          \* slots for requests in flight
  Amounts,        \* amounts of top-ups and of bookings
  InitialDeposit, \* NetworkGuest.depositBalance at the start
  InitialDebt,    \* NetworkGuest.debt at the start
  BonusPercent,   \* of the guest's loyalty tier
  MinTopUp,       \* PlatformLoyaltySettings.minTopUpForBonus
  BatchSize,      \* bonuses the job takes in one run
  References,     \* ids of the appointments that charges are linked to
  MaxRows         \* bound: ledger rows

ASSUME WalletAssumption ==
  /\ NoGuest \notin Guests
  /\ Amounts \subseteq Nat \ {0}
  /\ InitialDeposit \in [Guests -> Nat]
  /\ InitialDebt \in [Guests -> Nat]
  /\ BonusPercent \in Nat
  /\ MinTopUp \in Nat
  /\ BatchSize \in Nat \ {0}
  /\ References \subseteq Nat \ {0}
  /\ MaxRows \in Nat
  /\ IsFiniteSet(Procs)

VARIABLES
  wallet,   \* depositBalance and debt of each guest
  ledger,   \* the wallet_ledger_entries table, in order of commit
  bonus,    \* pending_loyalty_bonuses, by the id of their top-up's row
  request,  \* the requests in flight: where they are and what they read
  job       \* the accrual job: the bonuses of its run still to be seen to

wvars == <<wallet, ledger, bonus, request, job>>

-----------------------------------------------------------------------------
(* Tables and locals. *)

RowType == {"TOP_UP", "DEBT_REPAYMENT", "VISIT_CHARGE", "REFUND", "LOYALTY_BONUS"}

Row == [type    : RowType,
        guest   : Guests,
        amount  : Nat,
        deposit : Int,       \* depositAfter
        debt    : Int,       \* debtAfter
        toDebt  : Nat,       \* meta.toDebt of a top-up
        ref     : Nat]       \* referenceId, 0 for none

Wallet == [deposit : Int, debt : Int]

Bonus == [guest  : Guests,
          amount : Nat,
          due    : BOOLEAN,  \* scheduledAt <= now
          status : {"SCHEDULED", "CREDITED", "CANCELLED"}]

RequestPc == {"idle", "topup_read", "topup_commit", "undo_commit",
              "charge_commit", "refund_read", "refund_commit"}

Local == [pc      : RequestPc,
          guest   : Guests \cup {NoGuest},
          amount  : Nat,
          toDebt  : Nat,     \* preview.toDebt
          accrues : BOOLEAN, \* preview.willAccrue
          row     : Nat,     \* the ledger row to be refunded
          read    : Wallet]  \* the guest as it was read

Idle == [pc |-> "idle", guest |-> NoGuest, amount |-> 0, toDebt |-> 0,
         accrues |-> FALSE, row |-> 0, read |-> [deposit |-> 0, debt |-> 0]]

JobIdle == [batch |-> {}, id |-> 0, read |-> [deposit |-> 0, debt |-> 0]]

Init ==
  /\ wallet = [g \in Guests |-> [deposit |-> InitialDeposit[g], debt |-> InitialDebt[g]]]
  /\ ledger = << >>
  /\ bonus = << >>
  /\ request = [p \in Procs |-> Idle]
  /\ job = JobIdle

-----------------------------------------------------------------------------
(* Steps of a handler. *)

At(p, label) == request[p].pc = label

Start(p, locals) == At(p, "idle") /\ request' = [request EXCEPT ![p] = locals]
Finish(p) == request' = [request EXCEPT ![p] = Idle]

Scheduled == {i \in DOMAIN bonus : bonus[i].status = "SCHEDULED"}

\* Bound: a request starts only while the ledger has room for its rows (three
\* for a top-up: its own, the repayment, its bonus), for those of the requests
\* in flight and for the bonuses still to be credited.
RowsAhead(h) == IF h.pc = "idle" THEN 0
                ELSE IF h.pc \in {"topup_read", "topup_commit"} THEN 3 ELSE 1

RoomFor(n) ==
  Len(ledger) + MapThenSumSet(LAMBDA p : RowsAhead(request[p]), Procs)
    + Cardinality(Scheduled \cup {job.id}) + n <= MaxRows

RowOf(type, g, amount, after) ==
  [type |-> type, guest |-> g, amount |-> amount, deposit |-> after.deposit,
   debt |-> after.debt, toDebt |-> 0, ref |-> 0]

-----------------------------------------------------------------------------
(* Mutants: bugs this code could have had, each of which breaks a property.  *)

\* The minimum that earns a bonus is not looked at.
AnyTopUpAccrues(platformEnabled, topUpAmount, source, brandBonusesEnabled) ==
  platformEnabled /\ (source = "CAFE" => brandBonusesEnabled)

\* The refund's row has a negative amount, as the refunds of orders have.
RefundTopUpNegated(p) ==
  LET r == request[p] IN
  /\ At(p, "undo_commit")
  /\ ledger' = Append(ledger, [RowOf("REFUND", r.guest, -ledger[r.row].amount, wallet[r.guest])
                                 EXCEPT !.ref = r.row])
  /\ Finish(p)
  /\ UNCHANGED <<wallet, bonus, job>>

\* The deposit is decremented by the database, the row says what was read.
ChargeDecrements(p) ==
  LET r == request[p] IN
  /\ At(p, "charge_commit")
  /\ wallet' = [wallet EXCEPT ![r.guest].deposit = @ - r.amount]
  /\ ledger' = Append(ledger, RowOf("VISIT_CHARGE", r.guest, r.amount,
                                    [r.read EXCEPT !.deposit = @ - r.amount]))
  /\ Finish(p)
  /\ UNCHANGED <<bonus, job>>

\* An earlier refund of the charge is not looked for.
RefundAgain(p, i) ==
  /\ RoomFor(1)
  /\ ledger[i].type = "VISIT_CHARGE"
  /\ Start(p, [Idle EXCEPT !.pc = "refund_read", !.guest = ledger[i].guest,
                           !.amount = ledger[i].amount, !.row = i])
  /\ UNCHANGED <<wallet, ledger, bonus, job>>

\* The job's query does not filter by status.
AccrualTakesCredited ==
  /\ job = JobIdle
  /\ \E i \in DOMAIN bonus : bonus[i].due /\ job' = [JobIdle EXCEPT !.batch = {i}]
  /\ UNCHANGED <<wallet, ledger, bonus, request>>

\* The bonus is credited and stays SCHEDULED.
CreditUnmarked ==
  LET b == bonus[job.id]
      after == [job.read EXCEPT !.deposit = @ + b.amount]
  IN
  /\ job.id # 0
  /\ wallet' = [wallet EXCEPT ![b.guest].deposit = after.deposit]
  /\ ledger' = Append(ledger, [RowOf("LOYALTY_BONUS", b.guest, b.amount, after)
                                 EXCEPT !.ref = job.id])
  /\ job' = [JobIdle EXCEPT !.batch = job.batch]
  /\ UNCHANGED <<bonus, request>>

Positive(n) == IF n > 0 THEN n ELSE 0
Lesser(m, n) == IF m < n THEN m ELSE n

-----------------------------------------------------------------------------
(* loyalty-calculations.ts *)

floorBonus(amount, percent) == (amount * percent) \div 100

resolveWillAccrue(platformEnabled, topUpAmount, source, brandBonusesEnabled) ==
  /\ platformEnabled
  /\ topUpAmount >= MinTopUp
  /\ source = "CAFE" => brandBonusesEnabled

-----------------------------------------------------------------------------
(* GuestWalletService.topUp *)

\* buildPreview: how much repays the debt, and whether the rest earns a bonus.
\* The settings of platform and brand may be anything at the time.
TopUpPreview(p, g, amount, source) ==
  /\ RoomFor(3)
  /\ \E platformEnabled, brandBonusesEnabled \in BOOLEAN :
       LET toDebt == Lesser(amount, wallet[g].debt) IN
       Start(p, [Idle EXCEPT !.pc = "topup_read", !.guest = g, !.amount = amount,
                   !.toDebt = toDebt,
                   !.accrues = resolveWillAccrue(platformEnabled, amount - toDebt,
                                                 source, brandBonusesEnabled)])
  /\ UNCHANGED <<wallet, ledger, bonus, job>>

\* The guest is read again: the debt may differ from the preview's.
TopUpRead(p) ==
  /\ At(p, "topup_read")
  /\ request' = [request EXCEPT ![p].pc = "topup_commit",
                                ![p].read = wallet[request[p].guest]]
  /\ UNCHANGED <<wallet, ledger, bonus, job>>

TopUpCommit(p) ==
  LET r == request[p]
      toDeposit == r.amount - r.toDebt
      after == [deposit |-> r.read.deposit + toDeposit,
                debt    |-> Positive(r.read.debt - r.toDebt)]
      topUp == [RowOf("TOP_UP", r.guest, r.amount, after) EXCEPT !.toDebt = r.toDebt]
      id == Len(ledger) + 1
      repayment == [RowOf("DEBT_REPAYMENT", r.guest, r.toDebt, after) EXCEPT !.ref = id]
      earned == floorBonus(toDeposit, BonusPercent)
  IN
  /\ At(p, "topup_commit")
  /\ wallet' = [wallet EXCEPT ![r.guest] = after]
  /\ ledger' = IF r.toDebt > 0 THEN ledger \o <<topUp, repayment>>
                               ELSE Append(ledger, topUp)
  /\ bonus' = IF r.accrues /\ earned > 0
              THEN [i \in DOMAIN bonus \cup {id} |->
                      IF i = id THEN [guest |-> r.guest, amount |-> earned,
                                      due |-> FALSE, status |-> "SCHEDULED"]
                                ELSE bonus[i]]
              ELSE bonus
  /\ Finish(p)
  /\ UNCHANGED job

-----------------------------------------------------------------------------
(* GuestWalletService.refundTopUp *)

RefundTopUpRead(p, i) ==
  /\ RoomFor(1)
  /\ ledger[i].type = "TOP_UP"
  /\ i \in DOMAIN bonus => bonus[i].status # "CREDITED"
  /\ Start(p, [Idle EXCEPT !.pc = "undo_commit", !.guest = ledger[i].guest,
                           !.row = i, !.read = wallet[ledger[i].guest]])
  /\ UNCHANGED <<wallet, ledger, bonus, job>>

RefundTopUpCommit(p) ==
  LET r == request[p]
      topUp == ledger[r.row]
      after == [deposit |-> Positive(r.read.deposit - (topUp.amount - topUp.toDebt)),
                debt    |-> r.read.debt + topUp.toDebt]
  IN
  /\ At(p, "undo_commit")
  /\ bonus' = IF r.row \in DOMAIN bonus
              THEN [bonus EXCEPT ![r.row].status = "CANCELLED"] ELSE bonus
  /\ wallet' = [wallet EXCEPT ![r.guest] = after]
  /\ ledger' = Append(ledger, [RowOf("REFUND", r.guest, topUp.amount, after)
                                 EXCEPT !.ref = r.row])
  /\ Finish(p)
  /\ UNCHANGED job

-----------------------------------------------------------------------------
(* GuestWalletService.chargeDepositForBooking *)

ChargeRead(p, g, amount) ==
  /\ RoomFor(1)
  /\ wallet[g].deposit >= amount
  /\ Start(p, [Idle EXCEPT !.pc = "charge_commit", !.guest = g, !.amount = amount,
                           !.read = wallet[g]])
  /\ UNCHANGED <<wallet, ledger, bonus, job>>

\* Only the deposit is written: the row's debtAfter is the debt as it was read.
ChargeCommit(p) ==
  LET r == request[p]
      after == [r.read EXCEPT !.deposit = @ - r.amount]
  IN
  /\ At(p, "charge_commit")
  /\ wallet' = [wallet EXCEPT ![r.guest].deposit = after.deposit]
  /\ ledger' = Append(ledger, RowOf("VISIT_CHARGE", r.guest, r.amount, after))
  /\ Finish(p)
  /\ UNCHANGED <<bonus, job>>

\* linkDepositChargeReference: the row of a charge names its appointment, once.
LinkDepositChargeReference(i, id) ==
  /\ ledger[i].type = "VISIT_CHARGE"
  /\ ledger[i].ref = 0
  /\ ledger' = [ledger EXCEPT ![i].ref = id]
  /\ UNCHANGED <<wallet, bonus, request, job>>

-----------------------------------------------------------------------------
(* GuestWalletService.refundDepositCharge, of the amount that was charged.  *)

RefundsOf(i) == {j \in DOMAIN ledger : ledger[j].type = "REFUND" /\ ledger[j].ref = i}

RefundChargeCheck(p, i) ==
  /\ RoomFor(1)
  /\ ledger[i].type = "VISIT_CHARGE"
  /\ RefundsOf(i) = {}
  /\ Start(p, [Idle EXCEPT !.pc = "refund_read", !.guest = ledger[i].guest,
                           !.amount = ledger[i].amount, !.row = i])
  /\ UNCHANGED <<wallet, ledger, bonus, job>>

RefundChargeRead(p) ==
  /\ At(p, "refund_read")
  /\ request' = [request EXCEPT ![p].pc = "refund_commit",
                                ![p].read = wallet[request[p].guest]]
  /\ UNCHANGED <<wallet, ledger, bonus, job>>

RefundChargeCommit(p) ==
  LET r == request[p]
      after == [r.read EXCEPT !.deposit = @ + r.amount]
  IN
  /\ At(p, "refund_commit")
  /\ wallet' = [wallet EXCEPT ![r.guest].deposit = after.deposit]
  /\ ledger' = Append(ledger, [RowOf("REFUND", r.guest, r.amount, after)
                                 EXCEPT !.ref = r.row])
  /\ Finish(p)
  /\ UNCHANGED <<bonus, job>>

-----------------------------------------------------------------------------
(* LoyaltyAccrualService: every 15 minutes.  A run sees to at most BatchSize *)
(* bonuses, one after the other, and is over before the next one starts.     *)

BonusFallsDue(i) ==
  /\ bonus[i].status = "SCHEDULED"
  /\ ~bonus[i].due
  /\ bonus' = [bonus EXCEPT ![i].due = TRUE]
  /\ UNCHANGED <<wallet, ledger, request, job>>

Due == {i \in Scheduled : bonus[i].due}

\* findMany without an order: any BatchSize of the bonuses that are due.
accruePendingBonuses ==
  /\ job = JobIdle
  /\ Due # {}
  /\ \E batch \in SUBSET Due :
       /\ Cardinality(batch) = Lesser(BatchSize, Cardinality(Due))
       /\ job' = [JobIdle EXCEPT !.batch = batch]
  /\ UNCHANGED <<wallet, ledger, bonus, request>>

\* accrueOne: the bonus and its guest are read; unless it is still SCHEDULED,
\* nothing more happens.
AccrueRead(i) ==
  /\ job.id = 0
  /\ i \in job.batch
  /\ job' = IF bonus[i].status = "SCHEDULED"
            THEN [batch |-> job.batch \ {i}, id |-> i, read |-> wallet[bonus[i].guest]]
            ELSE [job EXCEPT !.batch = @ \ {i}]
  /\ UNCHANGED <<wallet, ledger, bonus, request>>

AccrueCommit ==
  LET b == bonus[job.id]
      after == [job.read EXCEPT !.deposit = @ + b.amount]
  IN
  /\ job.id # 0
  /\ wallet' = [wallet EXCEPT ![b.guest].deposit = after.deposit]
  /\ ledger' = Append(ledger, [RowOf("LOYALTY_BONUS", b.guest, b.amount, after)
                                 EXCEPT !.ref = job.id])
  /\ bonus' = [bonus EXCEPT ![job.id].status = "CREDITED"]
  /\ job' = [JobIdle EXCEPT !.batch = job.batch]
  /\ UNCHANGED request

\* The transaction is rolled back, the error logged, and the run goes on.
AccrueFails ==
  /\ job.id # 0
  /\ job' = [JobIdle EXCEPT !.batch = job.batch]
  /\ UNCHANGED <<wallet, ledger, bonus, request>>

-----------------------------------------------------------------------------
Abort(p) ==
  /\ ~At(p, "idle")
  /\ Finish(p)
  /\ UNCHANGED <<wallet, ledger, bonus, job>>

Request(p) ==
  \/ \E g \in Guests, amount \in Amounts, source \in {"CAFE", "MOBILE"} :
       TopUpPreview(p, g, amount, source)
  \/ \E g \in Guests, amount \in Amounts : ChargeRead(p, g, amount)
  \/ \E i \in DOMAIN ledger : RefundTopUpRead(p, i)
  \/ \E i \in DOMAIN ledger : RefundChargeCheck(p, i)

Continue(p) ==
  \/ TopUpRead(p)
  \/ TopUpCommit(p)
  \/ RefundTopUpCommit(p)
  \/ ChargeCommit(p)
  \/ RefundChargeRead(p)
  \/ RefundChargeCommit(p)

Accrual ==
  \/ accruePendingBonuses
  \/ \E i \in job.batch : AccrueRead(i)
  \/ AccrueCommit

Next ==
  \/ \E p \in Procs : Request(p)
  \/ \E p \in Procs : Continue(p)
  \/ \E p \in Procs : Abort(p)
  \/ \E i \in DOMAIN ledger, id \in References : LinkDepositChargeReference(i, id)
  \/ \E i \in DOMAIN bonus : BonusFallsDue(i)
  \/ Accrual
  \/ AccrueFails

Spec == Init /\ [][Next]_wvars

\* Callbacks that are ready run and the job is started by its clock.  A credit
\* that failed is tried again by a later run, and failures are transient: one
\* that is tried for ever succeeds.
FairSpec ==
  /\ Spec
  /\ \A p \in Procs : WF_wvars(Continue(p))
  /\ WF_wvars(Accrual)
  /\ SF_wvars(AccrueCommit)
=============================================================================
