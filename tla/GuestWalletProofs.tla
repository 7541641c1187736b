-------------------------- MODULE GuestWalletProofs --------------------------
(* Proofs, for any guests, amounts and handlers, of the invariants of the     *)
(* guest's wallet.                                                           *)
EXTENDS GuestWalletProperties, FiniteSetTheorems, TLAPS

-----------------------------------------------------------------------------
(* The inductive invariant.                                                  *)

NotNegative(w) == w.deposit >= 0 /\ w.debt >= 0

\* What a request has read, and the row it is about.
LocalOK(r) ==
  /\ r.pc # "idle" => r.guest \in Guests /\ NotNegative(r.read)
  /\ r.pc \in {"topup_read", "topup_commit"} =>
       r.toDebt <= r.amount /\ (r.accrues => r.amount - r.toDebt >= MinTopUp)
  /\ r.pc = "charge_commit" => r.read.deposit >= r.amount

AboutOK(r) ==
  /\ r.pc = "undo_commit" =>
       r.row \in DOMAIN ledger /\ ledger[r.row].type = "TOP_UP" /\ ledger[r.row].guest = r.guest
  /\ r.pc \in {"refund_read", "refund_commit"} =>
       /\ r.row \in DOMAIN ledger /\ ledger[r.row].type = "VISIT_CHARGE"
       /\ ledger[r.row].guest = r.guest /\ ledger[r.row].amount = r.amount

RequestsOK == \A p \in Procs : LocalOK(request[p]) /\ AboutOK(request[p])

IsCredit(row) == row.type = "LOYALTY_BONUS"

\* The row of a bonus is of a bonus that is no longer SCHEDULED and that the job
\* does not hold.
CreditsOK ==
  /\ \A j \in DOMAIN ledger : IsCredit(ledger[j]) =>
       LET i == ledger[j].ref IN
       /\ i \in DOMAIN bonus /\ i # job.id
       /\ bonus[i].status # "SCHEDULED"
       /\ bonus[i].amount = ledger[j].amount /\ bonus[i].guest = ledger[j].guest
  /\ \A j, k \in DOMAIN ledger :
       IsCredit(ledger[j]) /\ IsCredit(ledger[k]) /\ ledger[j].ref = ledger[k].ref => j = k
  /\ \A i \in DOMAIN bonus : bonus[i].status = "CREDITED" =>
       \E j \in DOMAIN ledger : IsCredit(ledger[j]) /\ ledger[j].ref = i

\* The last row of a guest, if there is one, shows the deposit.
DepositsOK ==
  /\ \A g \in Guests : NotNegative(wallet[g])
  /\ \A i \in DOMAIN ledger : NotNegative(ledger[i])
  /\ \A g \in Guests :
       \/ RowsOf(g) = {} /\ wallet[g].deposit = InitialDeposit[g]
       \/ \E m \in RowsOf(g) : (\A i \in RowsOf(g) : i <= m) /\ wallet[g].deposit = ledger[m].deposit

IInv ==
  /\ TypeOK
  /\ NotNegative(job.read)
  /\ RequestsOK
  /\ DepositsOK
  /\ BonusIsEarned
  /\ CreditsOK
  /\ RefundsAreBounded

-----------------------------------------------------------------------------
(* What every step does.                                                     *)

\* A row of the ledger stays as it is, but that a charge is linked to a booking.
SameRow(old, new) ==
  /\ new.type = old.type /\ new.guest = old.guest /\ new.amount = old.amount
  /\ new.deposit = old.deposit /\ new.debt = old.debt /\ new.toDebt = old.toDebt
  /\ old.type # "VISIT_CHARGE" => new.ref = old.ref

Fresh == DOMAIN ledger' \ DOMAIN ledger

LedgerStep ==
  /\ ledger' \in Seq(Row) /\ Len(ledger') >= Len(ledger)
  /\ \A i \in DOMAIN ledger : SameRow(ledger[i], ledger'[i])

\* The rows that are added are of the guest whose wallet is written.
DepositStep ==
  /\ wallet' \in [Guests -> Wallet]
  /\ \A g \in Guests : NotNegative(wallet'[g])
  /\ \A j \in Fresh : NotNegative(ledger'[j])
  /\ \/ Fresh = {} /\ UNCHANGED wallet
     \/ \E g \in Guests :
          /\ Fresh # {}
          /\ \A other \in Guests \ {g} : wallet'[other].deposit = wallet[other].deposit
          /\ \A j \in Fresh : ledger'[j].guest = g /\ ledger'[j].deposit = wallet'[g].deposit

BonusStep ==
  /\ \A i \in DOMAIN bonus' : bonus'[i] \in Bonus
  /\ DOMAIN bonus \subseteq DOMAIN bonus'
  /\ \A i \in DOMAIN bonus :
       /\ bonus'[i].guest = bonus[i].guest /\ bonus'[i].amount = bonus[i].amount
       /\ bonus'[i].status = "SCHEDULED" => bonus[i].status = "SCHEDULED"
       /\ bonus'[i].status = "CREDITED" =>
            \/ bonus[i].status = "CREDITED"
            \/ \E j \in Fresh : IsCredit(ledger'[j]) /\ ledger'[j].ref = i
  /\ \A i \in DOMAIN bonus' \ DOMAIN bonus :
       /\ i \in Fresh /\ ledger'[i].type = "TOP_UP" /\ ledger'[i].guest = bonus'[i].guest
       /\ bonus'[i].status = "SCHEDULED"
       /\ bonus'[i].amount = floorBonus(ledger'[i].amount - ledger'[i].toDebt, BonusPercent)
       /\ ledger'[i].amount - ledger'[i].toDebt >= MinTopUp
  /\ \A j \in Fresh : IsCredit(ledger'[j]) =>
       LET i == ledger'[j].ref IN
       /\ Fresh = {j} /\ i = job.id /\ i \in DOMAIN bonus /\ job'.id = 0
       /\ bonus'[i].status = "CREDITED"
       /\ bonus[i].amount = ledger'[j].amount /\ bonus[i].guest = ledger'[j].guest

\* The job takes up a bonus that is SCHEDULED, or lays down the one it holds.
JobStep ==
  /\ job'.batch \subseteq DOMAIN bonus' /\ job'.read \in Wallet /\ NotNegative(job'.read)
  /\ \/ job'.id \in {0, job.id}
     \/ job'.id \in DOMAIN bonus /\ bonus[job'.id].status = "SCHEDULED" /\ UNCHANGED <<ledger, bonus>>

RefundingAfter(i) ==
  {p \in Procs : request'[p].pc \in {"refund_read", "refund_commit"} /\ request'[p].row = i}

\* A refund that is added ends a request, and the check that starts one finds none.
RefundStep ==
  /\ \A j \in Fresh : ledger'[j].type = "REFUND" =>
       LET i == ledger'[j].ref IN
       /\ Fresh = {j} /\ i \in DOMAIN ledger
       /\ ledger[i].type \in {"TOP_UP", "VISIT_CHARGE"}
       /\ ledger[i].guest = ledger'[j].guest /\ ledger[i].amount = ledger'[j].amount
       /\ ledger[i].type = "VISIT_CHARGE" =>
            \E p \in Refunding(i) : RefundingAfter(i) = Refunding(i) \ {p}
  /\ \A i \in DOMAIN ledger :
       \/ RefundingAfter(i) \subseteq Refunding(i)
       \/ RefundsOf(i) = {} /\ UNCHANGED ledger

RequestStep ==
  /\ request' \in [Procs -> Local]
  /\ \A p \in Procs : request'[p] = request[p] \/ (LocalOK(request'[p]) /\ AboutOK(request'[p]))

StepOK == LedgerStep /\ DepositStep /\ BonusStep /\ JobStep /\ RefundStep /\ RequestStep

-----------------------------------------------------------------------------
(* Such a step keeps the invariant.                                          *)

LEMMA MaxIs ==
  ASSUME NEW S \in SUBSET Int, NEW m \in S, \A x \in S : x <= m
  PROVE  Max(S) = m
<1> DEFINE IsMax(x) == \A y \in S : x >= y
<1>1. \E x \in S : IsMax(x)
  OBVIOUS
<1>2. Max(S) = CHOOSE x \in S : IsMax(x)
  BY DEF Max
<1> HIDE DEF IsMax
<1>3. Max(S) \in S /\ IsMax(Max(S))
  BY <1>1, <1>2
<1>4. Max(S) >= m /\ Max(S) <= m
  BY <1>3 DEF IsMax
<1>5. Max(S) \in Int /\ m \in Int
  BY <1>3
<1> QED BY <1>4, <1>5

LEMMA DepositsAreShown == ASSUME TypeOK, DepositsOK PROVE LedgerShowsDeposit
<1>1. ASSUME NEW g \in Guests
      PROVE  wallet[g].deposit = IF RowsOf(g) = {} THEN InitialDeposit[g] ELSE ledger[Max(RowsOf(g))].deposit
  <2>1. CASE RowsOf(g) = {}
    BY <2>1 DEF DepositsOK
  <2>2. CASE RowsOf(g) # {}
    <3>1. PICK m \in RowsOf(g) : (\A i \in RowsOf(g) : i <= m) /\ wallet[g].deposit = ledger[m].deposit
      BY <2>2 DEF DepositsOK
    <3>2. RowsOf(g) \subseteq Int
      BY DEF TypeOK, RowsOf
    <3>3. Max(RowsOf(g)) = m
      BY <3>1, <3>2, MaxIs
    <3> QED BY <2>2, <3>1, <3>3
  <2> QED BY <2>1, <2>2
<1> QED BY <1>1 DEF DepositsOK, LedgerShowsDeposit, NotNegative

LEMMA Indices == ASSUME TypeOK, LedgerStep
                 PROVE  /\ DOMAIN ledger = 1..Len(ledger) /\ DOMAIN ledger' = 1..Len(ledger')
                        /\ Len(ledger) \in Nat /\ Len(ledger') \in Nat
                        /\ DOMAIN ledger \subseteq DOMAIN ledger'
                        /\ \A j : j \in Fresh <=> j \in Int /\ j > Len(ledger) /\ j <= Len(ledger')
<1>1. /\ DOMAIN ledger = 1..Len(ledger) /\ DOMAIN ledger' = 1..Len(ledger')
      /\ Len(ledger) \in Nat /\ Len(ledger') \in Nat
  BY DEF TypeOK, LedgerStep
<1>2. Len(ledger') >= Len(ledger)
  BY DEF LedgerStep
<1> QED BY <1>1, <1>2 DEF Fresh

LEMMA TypesKept == ASSUME IInv, StepOK PROVE TypeOK'
<1>1. DOMAIN bonus' \subseteq DOMAIN ledger'
  BY Indices DEF StepOK, BonusStep, Fresh, IInv, TypeOK
<1>2. job'.id \in {0} \cup DOMAIN bonus'
  BY DEF StepOK, BonusStep, JobStep, IInv, TypeOK
<1> QED BY <1>1, <1>2 DEF StepOK, LedgerStep, DepositStep, BonusStep, JobStep, RequestStep, TypeOK

LEMMA DepositsKept == ASSUME IInv, StepOK PROVE DepositsOK'
<1> USE DEF IInv, StepOK
<1>1. \A i \in DOMAIN ledger' : NotNegative(ledger'[i])
  BY Indices DEF LedgerStep, SameRow, DepositStep, Fresh, NotNegative, DepositsOK
<1>2. ASSUME NEW g \in Guests
      PROVE  \/ RowsOf(g)' = {} /\ wallet'[g].deposit = InitialDeposit[g]
             \/ \E m \in RowsOf(g)' : (\A i \in RowsOf(g)' : i <= m) /\ wallet'[g].deposit = ledger'[m].deposit
  <2>1. CASE \A j \in Fresh : ledger'[j].guest # g
    <3>1. RowsOf(g)' = RowsOf(g)
      BY <2>1, Indices DEF RowsOf, LedgerStep, SameRow, Fresh
    <3>2. wallet'[g].deposit = wallet[g].deposit
      BY <2>1 DEF DepositStep
    <3>3. \A m \in RowsOf(g) : ledger'[m].deposit = ledger[m].deposit
      BY DEF RowsOf, LedgerStep, SameRow
    <3> QED BY <3>1, <3>2, <3>3 DEF DepositsOK
  <2>2. CASE \E j \in Fresh : ledger'[j].guest = g
    <3>1. \A j \in Fresh : ledger'[j].guest = g /\ ledger'[j].deposit = wallet'[g].deposit
      BY <2>2 DEF DepositStep
    <3>2. Len(ledger') \in Fresh
      BY <2>2, Indices
    <3>3. RowsOf(g)' \subseteq 1..Len(ledger') /\ Len(ledger') \in RowsOf(g)'
      BY <3>1, <3>2, Indices DEF RowsOf, Fresh
    <3> QED BY <3>1, <3>2, <3>3, Indices
  <2> QED BY <2>1, <2>2
<1> QED BY <1>1, <1>2 DEF DepositsOK, DepositStep

LEMMA EarningsKept == ASSUME IInv, StepOK PROVE BonusIsEarned'
<1> SUFFICES ASSUME NEW i \in DOMAIN bonus'
             PROVE  /\ ledger'[i].type = "TOP_UP" /\ ledger'[i].guest = bonus'[i].guest
                    /\ bonus'[i].amount = floorBonus(ledger'[i].amount - ledger'[i].toDebt, BonusPercent)
                    /\ ledger'[i].amount - ledger'[i].toDebt >= MinTopUp
  BY DEF BonusIsEarned
<1> USE DEF IInv, StepOK
<1>1. CASE i \in DOMAIN bonus
  <2>1. SameRow(ledger[i], ledger'[i])
    BY <1>1 DEF TypeOK, LedgerStep
  <2>2. bonus'[i].guest = bonus[i].guest /\ bonus'[i].amount = bonus[i].amount
    BY <1>1 DEF BonusStep
  <2> QED BY <1>1, <2>1, <2>2 DEF SameRow, BonusIsEarned
<1>2. CASE i \notin DOMAIN bonus
  BY <1>2 DEF BonusStep
<1> QED BY <1>1, <1>2

LEMMA CreditsKept == ASSUME IInv, StepOK PROVE CreditsOK'
<1> USE DEF IInv, StepOK
<1>1. \A j \in DOMAIN ledger : IsCredit(ledger'[j]) <=> IsCredit(ledger[j])
  BY DEF LedgerStep, SameRow, IsCredit
<1>2. \A j \in DOMAIN ledger : IsCredit(ledger[j]) =>
        ledger'[j].ref = ledger[j].ref /\ ledger'[j].amount = ledger[j].amount /\ ledger'[j].guest = ledger[j].guest
  BY DEF LedgerStep, SameRow, IsCredit
<1>3. ASSUME NEW j \in DOMAIN ledger', IsCredit(ledger'[j])
      PROVE  LET i == ledger'[j].ref IN
             /\ i \in DOMAIN bonus' /\ i # job'.id
             /\ bonus'[i].status # "SCHEDULED"
             /\ bonus'[i].amount = ledger'[j].amount /\ bonus'[i].guest = ledger'[j].guest
  <2> DEFINE i == ledger'[j].ref
  <2>1. CASE j \in DOMAIN ledger
    <3>1. /\ i \in DOMAIN bonus /\ i # job.id /\ bonus[i].status # "SCHEDULED"
          /\ bonus[i].amount = ledger'[j].amount /\ bonus[i].guest = ledger'[j].guest
      BY <1>1, <1>2, <1>3, <2>1 DEF CreditsOK
    <3>2. i # 0
      BY <3>1 DEF TypeOK
    <3> HIDE DEF i
    <3>3. i # job'.id
      BY <3>1, <3>2 DEF JobStep
    <3> QED BY <3>1, <3>3 DEF BonusStep, i
  <2>2. CASE j \notin DOMAIN ledger
    <3>1. /\ i \in DOMAIN bonus /\ job'.id = 0 /\ bonus'[i].status = "CREDITED"
          /\ bonus[i].amount = ledger'[j].amount /\ bonus[i].guest = ledger'[j].guest
      BY <1>3, <2>2 DEF BonusStep, Fresh
    <3>2. i # 0
      BY <3>1 DEF TypeOK
    <3> QED BY <3>1, <3>2 DEF BonusStep
  <2> QED BY <2>1, <2>2
<1>4. ASSUME NEW j \in DOMAIN ledger', NEW k \in DOMAIN ledger', IsCredit(ledger'[j]), IsCredit(ledger'[k]),
             ledger'[j].ref = ledger'[k].ref
      PROVE  j = k
  <2>1. CASE j \in DOMAIN ledger /\ k \in DOMAIN ledger
    BY <1>1, <1>2, <1>4, <2>1 DEF CreditsOK
  <2>2. CASE j \in Fresh /\ k \in Fresh
    BY <1>4, <2>2 DEF BonusStep
  <2>3. \A a \in Fresh, b \in DOMAIN ledger :
          ~(IsCredit(ledger'[a]) /\ IsCredit(ledger'[b]) /\ ledger'[a].ref = ledger'[b].ref)
    BY <1>1, <1>2 DEF BonusStep, CreditsOK
  <2> QED BY <1>4, <2>1, <2>2, <2>3 DEF Fresh
<1>5. ASSUME NEW i \in DOMAIN bonus', bonus'[i].status = "CREDITED"
      PROVE  \E j \in DOMAIN ledger' : IsCredit(ledger'[j]) /\ ledger'[j].ref = i
  <2>1. i \in DOMAIN bonus
    BY <1>5 DEF BonusStep
  <2>2. CASE bonus[i].status = "CREDITED"
    BY <1>1, <1>2, <2>1, <2>2, Indices DEF CreditsOK
  <2>3. CASE \E j \in Fresh : IsCredit(ledger'[j]) /\ ledger'[j].ref = i
    BY <2>3 DEF Fresh
  <2> QED BY <1>5, <2>1, <2>2, <2>3 DEF BonusStep
<1> QED BY <1>3, <1>4, <1>5 DEF CreditsOK

LEMMA RequestsKept == ASSUME IInv, StepOK PROVE RequestsOK'
<1> SUFFICES ASSUME NEW p \in Procs PROVE LocalOK(request[p])' /\ AboutOK(request[p])'
  BY DEF RequestsOK
<1> USE DEF IInv, StepOK
<1>1. LocalOK(request'[p]) /\ AboutOK(request'[p])
  BY DEF RequestsOK, RequestStep
<1>2. LocalOK(request[p])'
  BY <1>1 DEF LocalOK, NotNegative
<1>3. AboutOK(request[p])'
  BY <1>1, Indices DEF AboutOK, LedgerStep, SameRow
<1> QED BY <1>2, <1>3

LEMMA Finite ==
  ASSUME TypeOK, NEW i
  PROVE  IsFiniteSet(RefundsOf(i)) /\ IsFiniteSet(Refunding(i))
<1>1. DOMAIN ledger = 1..Len(ledger) /\ Len(ledger) \in Nat
  BY DEF TypeOK
<1>2. IsFiniteSet(DOMAIN ledger)
  BY <1>1, FS_Interval
<1>3. RefundsOf(i) \subseteq DOMAIN ledger /\ Refunding(i) \subseteq Procs
  BY DEF RefundsOf, Refunding
<1> QED BY <1>2, <1>3, FS_Subset, WalletAssumption

LEMMA RefundsKept == ASSUME IInv, StepOK PROVE RefundsAreBounded'
<1> USE DEF IInv, StepOK
<1>1. ASSUME NEW j \in DOMAIN ledger', ledger'[j].type = "REFUND"
      PROVE  /\ ledger'[j].ref \in 1..(j - 1) /\ ledger'[j].ref \in DOMAIN ledger
             /\ ledger'[ledger'[j].ref].type \in {"TOP_UP", "VISIT_CHARGE"}
             /\ ledger'[ledger'[j].ref].guest = ledger'[j].guest
             /\ ledger'[ledger'[j].ref].amount = ledger'[j].amount
  <2>1. CASE j \in DOMAIN ledger
    <3>1. ledger[j].type = "REFUND" /\ ledger'[j].ref = ledger[j].ref
      BY <1>1, <2>1 DEF LedgerStep, SameRow
    <3>2. ledger[j].ref \in 1..(j - 1) /\ ledger[j].ref \in DOMAIN ledger
      BY <2>1, <3>1, Indices DEF RefundsAreBounded
    <3> QED BY <2>1, <3>1, <3>2 DEF RefundsAreBounded, LedgerStep, SameRow
  <2>2. CASE j \in Fresh
    <3>1. /\ ledger'[j].ref \in DOMAIN ledger
          /\ ledger[ledger'[j].ref].type \in {"TOP_UP", "VISIT_CHARGE"}
          /\ ledger[ledger'[j].ref].guest = ledger'[j].guest
          /\ ledger[ledger'[j].ref].amount = ledger'[j].amount
      BY <1>1, <2>2 DEF RefundStep
    <3>2. ledger'[j].ref \in 1..(j - 1)
      BY <2>2, <3>1, Indices
    <3> QED BY <3>1, <3>2 DEF LedgerStep, SameRow
  <2> QED BY <1>1, <2>1, <2>2 DEF Fresh
<1>2. ASSUME NEW i \in DOMAIN ledger', ledger'[i].type = "VISIT_CHARGE"
      PROVE  Cardinality(RefundsOf(i)') + Cardinality(Refunding(i)') <= Cardinality(Procs)
  <2>1. /\ IsFiniteSet(RefundsOf(i)) /\ IsFiniteSet(Refunding(i)) /\ IsFiniteSet(Procs)
        /\ IsFiniteSet(Refunding(i)') /\ Refunding(i)' \subseteq Procs
    BY Finite, TypesKept, FS_Subset, WalletAssumption DEF Refunding
  <2>2. /\ Cardinality(RefundsOf(i)) \in Nat /\ Cardinality(Refunding(i)) \in Nat
        /\ Cardinality(Refunding(i)') \in Nat /\ Cardinality(Procs) \in Nat
        /\ Cardinality(Refunding(i)') <= Cardinality(Procs)
    BY <2>1, FS_CardinalityType, FS_Subset
  <2>3. Refunding(i)' = RefundingAfter(i)
    BY DEF Refunding, RefundingAfter
  <2>4. \A j \in DOMAIN ledger : j \in RefundsOf(i)' <=> j \in RefundsOf(i)
    BY Indices DEF RefundsOf, LedgerStep, SameRow
  <2>5. CASE i \notin DOMAIN ledger
    <3>1. RefundsOf(i)' = {}
      BY <1>1, <2>5 DEF RefundsOf
    <3> QED BY <2>2, <3>1, FS_EmptySet
  <2>6. CASE i \in DOMAIN ledger /\ \E j \in Fresh : j \in RefundsOf(i)'
    <3>1. PICK j \in Fresh : j \in RefundsOf(i)'
      BY <2>6
    <3>2. Fresh = {j} /\ j \notin DOMAIN ledger /\ \E p \in Refunding(i) : RefundingAfter(i) = Refunding(i) \ {p}
      <4>1. ledger'[j].type = "REFUND" /\ ledger'[j].ref = i
        BY <3>1 DEF RefundsOf
      <4>2. ledger[i].type = "VISIT_CHARGE"
        BY <1>2, <2>6 DEF LedgerStep, SameRow
      <4>3. Fresh = {j} /\ \E p \in Refunding(i) : RefundingAfter(i) = Refunding(i) \ {p}
        BY <3>1, <4>1, <4>2 DEF RefundStep
      <4>4. j \notin DOMAIN ledger
        BY <3>1 DEF Fresh
      <4> QED BY <4>3, <4>4
    <3>3. RefundsOf(i)' = RefundsOf(i) \cup {j}
      BY <2>4, <3>1, <3>2 DEF RefundsOf, Fresh
    <3>4. Cardinality(RefundsOf(i)') = Cardinality(RefundsOf(i)) + 1
      BY <2>1, <3>2, <3>3, FS_AddElement DEF RefundsOf
    <3>5. Cardinality(Refunding(i)') = Cardinality(Refunding(i)) - 1
      BY <2>1, <2>3, <3>2, FS_RemoveElement
    <3>6. Cardinality(RefundsOf(i)) + Cardinality(Refunding(i)) <= Cardinality(Procs)
      BY <1>2, <2>6 DEF RefundsAreBounded, LedgerStep, SameRow
    <3> QED BY <2>2, <3>4, <3>5, <3>6
  <2>7. CASE i \in DOMAIN ledger /\ \A j \in Fresh : j \notin RefundsOf(i)'
    <3>1. RefundsOf(i)' = RefundsOf(i)
      BY <2>4, <2>7, Indices DEF RefundsOf, Fresh
    <3>2. CASE RefundingAfter(i) \subseteq Refunding(i)
      <4>1. Cardinality(Refunding(i)') <= Cardinality(Refunding(i))
        BY <2>1, <2>3, <3>2, FS_Subset
      <4>2. Cardinality(RefundsOf(i)) + Cardinality(Refunding(i)) <= Cardinality(Procs)
        BY <1>2, <2>7 DEF RefundsAreBounded, LedgerStep, SameRow
      <4> QED BY <2>2, <3>1, <4>1, <4>2
    <3>3. CASE RefundsOf(i) = {}
      BY <2>2, <3>1, <3>3, FS_EmptySet
    <3> QED BY <2>7, <3>2, <3>3 DEF RefundStep
  <2> QED BY <2>5, <2>6, <2>7
<1> QED BY <1>1, <1>2 DEF RefundsAreBounded

LEMMA StepKeepsInvariant == IInv /\ StepOK => IInv'
BY TypesKept, DepositsKept, EarningsKept, CreditsKept, RequestsKept, RefundsKept DEF IInv, StepOK, JobStep

-----------------------------------------------------------------------------
(* The steps that write no row.                                              *)

LEMMA IdleOK == Idle \in Local /\ LocalOK(Idle) /\ AboutOK(Idle)
BY DEF Idle, Local, RequestPc, Wallet, LocalOK, AboutOK

LEMMA Moves ==
  ASSUME IInv, NEW p \in Procs, NEW h \in Local, request' = [request EXCEPT ![p] = h], LocalOK(h), AboutOK(h)
  PROVE  /\ RequestStep
         /\ h.pc \notin {"refund_read", "refund_commit"} =>
              \A i : RefundingAfter(i) = Refunding(i) \ {p} /\ RefundingAfter(i) \subseteq Refunding(i)
BY DEF IInv, TypeOK, RequestStep, RefundingAfter, Refunding

LEMMA Finishes ==
  ASSUME IInv, NEW p \in Procs, Finish(p)
  PROVE  /\ RequestStep
         /\ \A i : RefundingAfter(i) = Refunding(i) \ {p} /\ RefundingAfter(i) \subseteq Refunding(i)
<1>1. Idle.pc \notin {"refund_read", "refund_commit"}
  BY DEF Idle
<1> QED BY <1>1, IdleOK, Moves DEF Finish

LEMMA NothingWritten ==
  ASSUME IInv, UNCHANGED <<wallet, ledger, bonus>>
  PROVE  LedgerStep /\ DepositStep /\ BonusStep /\ Fresh = {}
<1>1. Fresh = {}
  BY DEF Fresh
<1>2. LedgerStep
  BY DEF IInv, TypeOK, LedgerStep, SameRow
<1>3. DepositStep
  BY <1>1 DEF IInv, TypeOK, DepositStep, DepositsOK
<1>4. BonusStep
  BY <1>1 DEF IInv, TypeOK, BonusStep
<1> QED BY <1>1, <1>2, <1>3, <1>4

LEMMA JobKept == ASSUME IInv, UNCHANGED job, DOMAIN bonus \subseteq DOMAIN bonus' PROVE JobStep
BY DEF IInv, TypeOK, JobStep

LEMMA ReadStep ==
  ASSUME IInv, UNCHANGED <<wallet, ledger, bonus, job>>, RequestStep,
         \A i \in DOMAIN ledger : RefundingAfter(i) \subseteq Refunding(i) \/ RefundsOf(i) = {}
  PROVE  StepOK
<1>1. LedgerStep /\ DepositStep /\ BonusStep /\ Fresh = {}
  BY NothingWritten
<1>2. JobStep
  BY JobKept
<1>3. RefundStep
  BY <1>1 DEF RefundStep
<1> QED BY <1>1, <1>2, <1>3 DEF StepOK

LEMMA TopUpPreviewStep ==
  ASSUME IInv, NEW p \in Procs, NEW g \in Guests, NEW amount \in Amounts, NEW source \in {"CAFE", "MOBILE"},
         TopUpPreview(p, g, amount, source)
  PROVE  StepOK
<1> DEFINE toDebt == Lesser(amount, wallet[g].debt)
<1>1. PICK enabled \in BOOLEAN, bonuses \in BOOLEAN :
        Start(p, [Idle EXCEPT !.pc = "topup_read", !.guest = g, !.amount = amount, !.toDebt = toDebt,
                    !.accrues = resolveWillAccrue(enabled, amount - toDebt, source, bonuses)])
  BY DEF TopUpPreview
<1> DEFINE h == [Idle EXCEPT !.pc = "topup_read", !.guest = g, !.amount = amount, !.toDebt = toDebt,
                    !.accrues = resolveWillAccrue(enabled, amount - toDebt, source, bonuses)]
<1>2. amount \in Nat /\ toDebt \in Nat /\ toDebt <= amount
  BY WalletAssumption DEF Lesser, IInv, TypeOK, Wallet, DepositsOK, NotNegative
<1>3. /\ resolveWillAccrue(enabled, amount - toDebt, source, bonuses) \in BOOLEAN
      /\ resolveWillAccrue(enabled, amount - toDebt, source, bonuses) => amount - toDebt >= MinTopUp
  BY DEF resolveWillAccrue
<1> HIDE DEF toDebt
<1>4. h \in Local
  BY <1>2, <1>3, IdleOK DEF Local, RequestPc
<1>5. LocalOK(h) /\ AboutOK(h)
  BY <1>2, <1>3 DEF Idle, LocalOK, AboutOK, NotNegative
<1>6. request' = [request EXCEPT ![p] = h] /\ h.pc = "topup_read"
  BY <1>1 DEF Start, Idle
<1> HIDE DEF h
<1> QED BY <1>4, <1>5, <1>6, Moves, ReadStep DEF TopUpPreview

LEMMA ChargeReadStep ==
  ASSUME IInv, NEW p \in Procs, NEW g \in Guests, NEW amount \in Amounts, ChargeRead(p, g, amount)
  PROVE  StepOK
<1> DEFINE h == [Idle EXCEPT !.pc = "charge_commit", !.guest = g, !.amount = amount, !.read = wallet[g]]
<1>1. h \in Local
  BY WalletAssumption DEF Idle, Local, RequestPc, IInv, TypeOK
<1>2. LocalOK(h) /\ AboutOK(h)
  BY DEF ChargeRead, Idle, LocalOK, AboutOK, IInv, DepositsOK
<1>3. request' = [request EXCEPT ![p] = h] /\ h.pc = "charge_commit"
  BY DEF ChargeRead, Start, Idle
<1> HIDE DEF h
<1> QED BY <1>1, <1>2, <1>3, Moves, ReadStep DEF ChargeRead

LEMMA RefundTopUpReadStep ==
  ASSUME IInv, NEW p \in Procs, NEW i \in DOMAIN ledger, RefundTopUpRead(p, i)
  PROVE  StepOK
<1> DEFINE h == [Idle EXCEPT !.pc = "undo_commit", !.guest = ledger[i].guest, !.row = i,
                             !.read = wallet[ledger[i].guest]]
<1>1. ledger[i] \in Row /\ i \in Nat
  BY DEF IInv, TypeOK
<1>2. h \in Local
  BY <1>1 DEF Idle, Local, RequestPc, Row, IInv, TypeOK
<1>3. LocalOK(h) /\ AboutOK(h)
  <2>1. h.pc = "undo_commit" /\ h.guest = ledger[i].guest /\ h.row = i /\ h.read = wallet[ledger[i].guest]
    BY DEF Idle
  <2>2. ledger[i].guest \in Guests /\ NotNegative(wallet[ledger[i].guest])
    BY <1>1 DEF Row, IInv, DepositsOK
  <2> HIDE DEF h
  <2> QED BY <2>1, <2>2 DEF RefundTopUpRead, LocalOK, AboutOK
<1>4. request' = [request EXCEPT ![p] = h] /\ h.pc = "undo_commit"
  BY DEF RefundTopUpRead, Start, Idle
<1> HIDE DEF h
<1> QED BY <1>2, <1>3, <1>4, Moves, ReadStep DEF RefundTopUpRead

\* The check that no refund has been made is what starts another.
LEMMA RefundChargeCheckStep ==
  ASSUME IInv, NEW p \in Procs, NEW i \in DOMAIN ledger, RefundChargeCheck(p, i)
  PROVE  StepOK
<1> DEFINE h == [Idle EXCEPT !.pc = "refund_read", !.guest = ledger[i].guest,
                             !.amount = ledger[i].amount, !.row = i]
<1>1. ledger[i] \in Row /\ i \in Nat
  BY DEF IInv, TypeOK
<1>2. h \in Local
  BY <1>1, IdleOK DEF Local, RequestPc, Row
<1>3. LocalOK(h) /\ AboutOK(h)
  BY <1>1 DEF RefundChargeCheck, Idle, LocalOK, AboutOK, Row, NotNegative
<1>4. request' = [request EXCEPT ![p] = h] /\ h.row = i
  BY DEF RefundChargeCheck, Start, Idle
<1> HIDE DEF h
<1>5. \A k \in DOMAIN ledger : RefundingAfter(k) \subseteq Refunding(k) \/ RefundsOf(k) = {}
  BY <1>4 DEF RefundChargeCheck, RefundingAfter, Refunding, IInv, TypeOK
<1> QED BY <1>2, <1>3, <1>4, <1>5, Moves, ReadStep DEF RefundChargeCheck

\* The guest is read again, inside the transaction.
LEMMA SecondReadStep ==
  ASSUME IInv, NEW p \in Procs, TopUpRead(p) \/ RefundChargeRead(p)
  PROVE  StepOK
<1> DEFINE r == request[p]
           next == IF r.pc = "topup_read" THEN "topup_commit" ELSE "refund_commit"
           h == [r EXCEPT !.pc = next, !.read = wallet[r.guest]]
<1>1. r \in Local /\ LocalOK(r) /\ AboutOK(r) /\ r.pc \in {"topup_read", "refund_read"}
  BY DEF TopUpRead, RefundChargeRead, At, IInv, TypeOK, RequestsOK
<1>2. r.guest \in Guests
  BY <1>1 DEF LocalOK
<1>3. h \in Local
  BY <1>1, <1>2 DEF Local, RequestPc, IInv, TypeOK
<1>4. h.pc = next /\ h.read = wallet[r.guest] /\ h.guest = r.guest /\ h.amount = r.amount /\ h.toDebt = r.toDebt
      /\ h.accrues = r.accrues /\ h.row = r.row
  BY <1>1 DEF Local
<1>5. request' = [request EXCEPT ![p] = h]
  BY DEF TopUpRead, RefundChargeRead, At, IInv, TypeOK
<1> HIDE DEF h
<1>6. LocalOK(h)
  BY <1>1, <1>2, <1>4 DEF LocalOK, IInv, DepositsOK
<1>7. AboutOK(h)
  BY <1>1, <1>4 DEF AboutOK
<1>8. \A i : RefundingAfter(i) \subseteq Refunding(i)
  BY <1>1, <1>4, <1>5 DEF RefundingAfter, Refunding, IInv, TypeOK
<1> QED BY <1>3, <1>5, <1>6, <1>7, <1>8, Moves, ReadStep DEF TopUpRead, RefundChargeRead

-----------------------------------------------------------------------------
(* The steps that add rows.                                                  *)

LEMMA RowAdded ==
  ASSUME TypeOK, NEW row \in Row, ledger' = Append(ledger, row)
  PROVE  /\ LedgerStep /\ Fresh = {Len(ledger) + 1}
         /\ ledger'[Len(ledger) + 1] = row
<1>1. ledger \in Seq(Row) /\ Len(ledger) \in Nat
  BY DEF TypeOK
<1>2. ledger' \in Seq(Row) /\ Len(ledger') = Len(ledger) + 1
  BY <1>1
<1>3. \A i \in DOMAIN ledger : ledger'[i] = ledger[i]
  BY <1>1
<1>4. LedgerStep
  BY <1>1, <1>2, <1>3 DEF LedgerStep, SameRow
<1>5. Fresh = {Len(ledger) + 1}
  BY <1>1, <1>2 DEF Fresh
<1> QED BY <1>1, <1>4, <1>5

LEMMA TwoRowsAdded ==
  ASSUME TypeOK, NEW first \in Row, NEW second \in Row, ledger' = ledger \o <<first, second>>
  PROVE  /\ LedgerStep /\ Fresh = {Len(ledger) + 1, Len(ledger) + 2}
         /\ ledger'[Len(ledger) + 1] = first /\ ledger'[Len(ledger) + 2] = second
<1>1. ledger \in Seq(Row) /\ Len(ledger) \in Nat
  BY DEF TypeOK
<1>2. ledger' \in Seq(Row) /\ Len(ledger') = Len(ledger) + 2
  BY <1>1
<1>3. \A i \in DOMAIN ledger : ledger'[i] = ledger[i]
  BY <1>1
<1>4. LedgerStep
  BY <1>1, <1>2, <1>3 DEF LedgerStep, SameRow
<1>5. Fresh = {Len(ledger) + 1, Len(ledger) + 2}
  BY <1>1, <1>2 DEF Fresh
<1> QED BY <1>1, <1>4, <1>5

\* A step that adds one row, which shows the wallet it writes.
LEMMA DepositWritten ==
  ASSUME IInv, NEW g \in Guests, NEW after \in Wallet, NotNegative(after),
         NEW row \in Row, ledger' = Append(ledger, row),
         row.guest = g, row.deposit = after.deposit, row.debt = after.debt,
         \/ wallet' = [wallet EXCEPT ![g] = after]
         \/ wallet' = [wallet EXCEPT ![g].deposit = after.deposit]
  PROVE  DepositStep
<1>1. Fresh = {Len(ledger) + 1} /\ ledger'[Len(ledger) + 1] = row
  BY RowAdded DEF IInv
<1>2. /\ wallet' \in [Guests -> Wallet] /\ NotNegative(wallet'[g]) /\ wallet'[g].deposit = after.deposit
      /\ \A other \in Guests \ {g} : wallet'[other] = wallet[other]
  <2>1. wallet \in [Guests -> Wallet] /\ NotNegative(wallet[g])
    BY DEF IInv, TypeOK, DepositsOK
  <2>2. CASE wallet' = [wallet EXCEPT ![g] = after]
    BY <2>1, <2>2
  <2>3. CASE wallet' = [wallet EXCEPT ![g].deposit = after.deposit]
    <3>1. wallet' = [wallet EXCEPT ![g] = [wallet[g] EXCEPT !.deposit = after.deposit]]
      BY <2>1, <2>3
    <3>2. [wallet[g] EXCEPT !.deposit = after.deposit] \in Wallet
      BY <2>1 DEF Wallet
    <3>3. /\ [wallet[g] EXCEPT !.deposit = after.deposit].deposit = after.deposit
          /\ [wallet[g] EXCEPT !.deposit = after.deposit].debt = wallet[g].debt
      BY <2>1 DEF Wallet
    <3> QED BY <2>1, <3>1, <3>2, <3>3 DEF NotNegative
  <2> QED BY <2>2, <2>3
<1>3. \A other \in Guests : NotNegative(wallet'[other])
  BY <1>2 DEF IInv, DepositsOK
<1> QED BY <1>1, <1>2, <1>3 DEF DepositStep, NotNegative

\* A step that adds no credit and changes no bonus.
LEMMA NoCredit ==
  ASSUME IInv, UNCHANGED <<bonus, job>>, \A j \in Fresh : ~IsCredit(ledger'[j])
  PROVE  BonusStep /\ JobStep
BY JobKept DEF IInv, TypeOK, BonusStep

LEMMA ChargeCommitStep ==
  ASSUME IInv, NEW p \in Procs, ChargeCommit(p)
  PROVE  StepOK
<1> DEFINE r == request[p]
           after == [r.read EXCEPT !.deposit = @ - r.amount]
           row == RowOf("VISIT_CHARGE", r.guest, r.amount, after)
<1>1. r \in Local /\ LocalOK(r) /\ r.pc = "charge_commit"
  BY DEF ChargeCommit, At, IInv, TypeOK, RequestsOK
<1>2. r.guest \in Guests /\ r.read \in Wallet /\ NotNegative(r.read) /\ r.amount \in Nat /\ r.read.deposit >= r.amount
  BY <1>1 DEF LocalOK, Local
<1>3. after \in Wallet /\ NotNegative(after)
  BY <1>2 DEF Wallet, NotNegative
<1>4. /\ row \in Row /\ row.guest = r.guest /\ row.deposit = after.deposit /\ row.debt = after.debt
      /\ row.type = "VISIT_CHARGE"
  BY <1>2, <1>3 DEF RowOf, Row, RowType, Wallet
<1>5. /\ ledger' = Append(ledger, row) /\ wallet' = [wallet EXCEPT ![r.guest].deposit = after.deposit]
      /\ Finish(p) /\ UNCHANGED <<bonus, job>>
  BY DEF ChargeCommit
<1> HIDE DEF after, row
<1>6. LedgerStep /\ Fresh = {Len(ledger) + 1} /\ ledger'[Len(ledger) + 1] = row
  BY <1>4, <1>5, RowAdded DEF IInv
<1>7. DepositStep
  BY <1>2, <1>3, <1>4, <1>5, DepositWritten
<1>8. BonusStep /\ JobStep
  BY <1>4, <1>5, <1>6, NoCredit DEF IsCredit
<1>9. RefundStep
  BY <1>4, <1>5, <1>6, Finishes DEF RefundStep
<1> QED BY <1>5, <1>6, <1>7, <1>8, <1>9, Finishes DEF StepOK

LEMMA RefundChargeCommitStep ==
  ASSUME IInv, NEW p \in Procs, RefundChargeCommit(p)
  PROVE  StepOK
<1> DEFINE r == request[p]
           after == [r.read EXCEPT !.deposit = @ + r.amount]
           row == [RowOf("REFUND", r.guest, r.amount, after) EXCEPT !.ref = r.row]
<1>1. r \in Local /\ LocalOK(r) /\ AboutOK(r) /\ r.pc = "refund_commit"
  BY DEF RefundChargeCommit, At, IInv, TypeOK, RequestsOK
<1>2. r.guest \in Guests /\ r.read \in Wallet /\ NotNegative(r.read) /\ r.amount \in Nat /\ r.row \in Nat
  BY <1>1 DEF LocalOK, Local
<1>3. after \in Wallet /\ NotNegative(after)
  BY <1>2 DEF Wallet, NotNegative
<1>4. /\ row \in Row /\ row.guest = r.guest /\ row.deposit = after.deposit /\ row.debt = after.debt
      /\ row.type = "REFUND" /\ row.amount = r.amount /\ row.ref = r.row
  BY <1>2, <1>3 DEF RowOf, Row, RowType, Wallet
<1>5. /\ ledger' = Append(ledger, row) /\ wallet' = [wallet EXCEPT ![r.guest].deposit = after.deposit]
      /\ Finish(p) /\ UNCHANGED <<bonus, job>>
  BY DEF RefundChargeCommit
<1> HIDE DEF after, row
<1>6. LedgerStep /\ Fresh = {Len(ledger) + 1} /\ ledger'[Len(ledger) + 1] = row
  BY <1>4, <1>5, RowAdded DEF IInv
<1>7. DepositStep
  BY <1>2, <1>3, <1>4, <1>5, DepositWritten
<1>8. BonusStep /\ JobStep
  BY <1>4, <1>5, <1>6, NoCredit DEF IsCredit
<1>9. RefundStep
  <2>1. p \in Refunding(r.row) /\ RefundingAfter(r.row) = Refunding(r.row) \ {p}
    BY <1>1, <1>5, Finishes DEF Refunding
  <2>2. /\ r.row \in DOMAIN ledger /\ ledger[r.row].type = "VISIT_CHARGE"
        /\ ledger[r.row].guest = r.guest /\ ledger[r.row].amount = r.amount
    BY <1>1 DEF AboutOK
  <2> QED BY <1>4, <1>5, <1>6, <2>1, <2>2, Finishes DEF RefundStep
<1> QED BY <1>5, <1>6, <1>7, <1>8, <1>9, Finishes DEF StepOK

LEMMA RefundTopUpCommitStep ==
  ASSUME IInv, NEW p \in Procs, RefundTopUpCommit(p)
  PROVE  StepOK
<1> DEFINE r == request[p]
           topUp == ledger[r.row]
           after == [deposit |-> Positive(r.read.deposit - (topUp.amount - topUp.toDebt)),
                     debt    |-> r.read.debt + topUp.toDebt]
           row == [RowOf("REFUND", r.guest, topUp.amount, after) EXCEPT !.ref = r.row]
<1>1. r \in Local /\ LocalOK(r) /\ AboutOK(r) /\ r.pc = "undo_commit"
  BY DEF RefundTopUpCommit, At, IInv, TypeOK, RequestsOK
<1>2. r.guest \in Guests /\ r.read \in Wallet /\ NotNegative(r.read) /\ r.row \in Nat
  BY <1>1 DEF LocalOK, Local
<1>3. r.row \in DOMAIN ledger /\ topUp \in Row /\ topUp.type = "TOP_UP" /\ topUp.guest = r.guest
  BY <1>1 DEF AboutOK, IInv, TypeOK
<1>4. after \in Wallet /\ NotNegative(after)
  BY <1>2, <1>3 DEF Wallet, NotNegative, Positive, Row
<1>5. /\ row \in Row /\ row.guest = r.guest /\ row.deposit = after.deposit /\ row.debt = after.debt
      /\ row.type = "REFUND" /\ row.amount = topUp.amount /\ row.ref = r.row
  BY <1>2, <1>3, <1>4 DEF RowOf, Row, RowType, Wallet
<1>6. /\ ledger' = Append(ledger, row) /\ wallet' = [wallet EXCEPT ![r.guest] = after]
      /\ bonus' = IF r.row \in DOMAIN bonus THEN [bonus EXCEPT ![r.row].status = "CANCELLED"] ELSE bonus
      /\ Finish(p) /\ UNCHANGED job
  BY DEF RefundTopUpCommit
<1> HIDE DEF after, row
<1>7. LedgerStep /\ Fresh = {Len(ledger) + 1} /\ ledger'[Len(ledger) + 1] = row
  BY <1>5, <1>6, RowAdded DEF IInv
<1>8. DepositStep
  BY <1>2, <1>4, <1>5, <1>6, DepositWritten
<1>9. BonusStep
  <2>1. \A i \in DOMAIN bonus : bonus[i] \in Bonus
    BY DEF IInv, TypeOK
  <2>2. DOMAIN bonus' = DOMAIN bonus
    BY <1>6
  <2>3. \A i \in DOMAIN bonus : /\ bonus'[i] \in Bonus
                                /\ bonus'[i].guest = bonus[i].guest /\ bonus'[i].amount = bonus[i].amount
                                /\ bonus'[i].status \in {bonus[i].status, "CANCELLED"}
    BY <1>6, <2>1 DEF Bonus
  <2> QED BY <1>5, <1>7, <2>2, <2>3 DEF BonusStep, IsCredit
<1>10. JobStep
  BY <1>6, JobKept
<1>11. RefundStep
  BY <1>3, <1>5, <1>6, <1>7, Finishes DEF RefundStep
<1> QED BY <1>6, <1>7, <1>8, <1>9, <1>10, <1>11, Finishes DEF StepOK

LEMMA FloorBonusType == ASSUME NEW amount \in Int, NEW percent \in Nat PROVE floorBonus(amount, percent) \in Int
<1>1. amount * percent \in Int
  OBVIOUS
<1>2. \A n \in Int : n \div 100 \in Int
  OBVIOUS
<1> QED BY <1>1, <1>2 DEF floorBonus

\* The top-up's row, with the repayment's behind it and the bonus it earns.
LEMMA TopUpCommitStep ==
  ASSUME IInv, NEW p \in Procs, TopUpCommit(p)
  PROVE  StepOK
<1> DEFINE r == request[p]
           toDeposit == r.amount - r.toDebt
           after == [deposit |-> r.read.deposit + toDeposit, debt |-> Positive(r.read.debt - r.toDebt)]
           topUp == [RowOf("TOP_UP", r.guest, r.amount, after) EXCEPT !.toDebt = r.toDebt]
           id == Len(ledger) + 1
           repayment == [RowOf("DEBT_REPAYMENT", r.guest, r.toDebt, after) EXCEPT !.ref = id]
           earned == floorBonus(toDeposit, BonusPercent)
           earnedBonus == [guest |-> r.guest, amount |-> earned, due |-> FALSE, status |-> "SCHEDULED"]
<1>1. r \in Local /\ LocalOK(r) /\ r.pc = "topup_commit"
  BY DEF TopUpCommit, At, IInv, TypeOK, RequestsOK
<1>2. /\ r.guest \in Guests /\ r.read \in Wallet /\ NotNegative(r.read) /\ r.amount \in Nat /\ r.toDebt \in Nat
      /\ r.toDebt <= r.amount /\ (r.accrues => toDeposit >= MinTopUp)
  BY <1>1 DEF LocalOK, Local
<1>3. after \in Wallet /\ NotNegative(after)
  BY <1>2 DEF Wallet, NotNegative, Positive
<1>4. Len(ledger) \in Nat /\ DOMAIN ledger = 1..Len(ledger)
  BY DEF IInv, TypeOK
<1>5. /\ topUp \in Row /\ topUp.guest = r.guest /\ topUp.deposit = after.deposit /\ topUp.debt = after.debt
      /\ topUp.type = "TOP_UP" /\ topUp.amount = r.amount /\ topUp.toDebt = r.toDebt
  BY <1>2, <1>3 DEF RowOf, Row, RowType, Wallet
<1>6. /\ repayment \in Row /\ repayment.guest = r.guest /\ repayment.deposit = after.deposit
      /\ repayment.debt = after.debt /\ repayment.type = "DEBT_REPAYMENT"
  <2>1. id \in Nat
    BY <1>4
  <2> HIDE DEF id, after
  <2> QED BY <1>2, <1>3, <2>1 DEF RowOf, Row, RowType, Wallet
<1>7. /\ wallet' = [wallet EXCEPT ![r.guest] = after]
      /\ ledger' = IF r.toDebt > 0 THEN ledger \o <<topUp, repayment>> ELSE Append(ledger, topUp)
      /\ bonus' = IF r.accrues /\ earned > 0
                  THEN [i \in DOMAIN bonus \cup {id} |-> IF i = id THEN earnedBonus ELSE bonus[i]]
                  ELSE bonus
      /\ Finish(p) /\ UNCHANGED job
  BY DEF TopUpCommit
<1>8. earned \in Int
  <2>1. toDeposit \in Int /\ BonusPercent \in Nat
    BY <1>2, WalletAssumption
  <2> QED BY <2>1, FloorBonusType
<1> HIDE DEF after, topUp, repayment, earned
<1>9. /\ LedgerStep /\ id \in Fresh /\ Fresh \subseteq {id, id + 1} /\ ledger'[id] = topUp
      /\ \A j \in Fresh : ledger'[j] \in {topUp, repayment}
  <2>1. CASE r.toDebt > 0
    <3>1. /\ LedgerStep /\ Fresh = {Len(ledger) + 1, Len(ledger) + 2}
          /\ ledger'[Len(ledger) + 1] = topUp /\ ledger'[Len(ledger) + 2] = repayment
      BY <1>5, <1>6, <1>7, <2>1, TwoRowsAdded DEF IInv
    <3>2. Len(ledger) + 2 = id + 1
      BY <1>4
    <3> QED BY <3>1, <3>2
  <2>2. CASE ~(r.toDebt > 0)
    BY <1>5, <1>7, <2>2, RowAdded DEF IInv
  <2> QED BY <2>1, <2>2
<1>10. DepositStep
  <2>1. /\ wallet' \in [Guests -> Wallet] /\ wallet'[r.guest] = after
        /\ \A g \in Guests \ {r.guest} : wallet'[g] = wallet[g]
    BY <1>2, <1>3, <1>7 DEF IInv, TypeOK
  <2>2. \A g \in Guests : NotNegative(wallet'[g])
    BY <1>3, <2>1 DEF IInv, DepositsOK
  <2>3. \A j \in Fresh : /\ NotNegative(ledger'[j])
                         /\ ledger'[j].guest = r.guest /\ ledger'[j].deposit = wallet'[r.guest].deposit
    BY <1>3, <1>5, <1>6, <1>9, <2>1 DEF NotNegative
  <2> QED BY <1>2, <1>9, <2>1, <2>2, <2>3 DEF DepositStep
<1>11. BonusStep
  <2>1. \A i \in DOMAIN bonus : bonus[i] \in Bonus /\ i # id
    BY <1>4 DEF IInv, TypeOK
  <2>2. \A j \in Fresh : ~IsCredit(ledger'[j])
    BY <1>5, <1>6, <1>9 DEF IsCredit
  <2>3. CASE r.accrues /\ earned > 0
    <3>1. earnedBonus \in Bonus
      BY <1>2, <1>8, <2>3 DEF Bonus
    <3>2. /\ DOMAIN bonus' = DOMAIN bonus \cup {id} /\ bonus'[id] = earnedBonus
          /\ \A i \in DOMAIN bonus : bonus'[i] = bonus[i]
      BY <1>7, <2>1, <2>3
    <3>3. earned = floorBonus(ledger'[id].amount - ledger'[id].toDebt, BonusPercent)
      BY <1>5, <1>9 DEF earned
    <3>4. ledger'[id].amount - ledger'[id].toDebt >= MinTopUp /\ ledger'[id].type = "TOP_UP" /\ ledger'[id].guest = r.guest
      BY <1>2, <1>5, <1>9, <2>3
    <3>5. \A i \in DOMAIN bonus' \ DOMAIN bonus : i = id
      BY <3>2
    <3> HIDE DEF id
    <3>6. \A i \in DOMAIN bonus' : bonus'[i] \in Bonus
      BY <2>1, <3>1, <3>2
    <3>7. bonus'[id].guest = r.guest /\ bonus'[id].amount = earned /\ bonus'[id].status = "SCHEDULED"
      BY <3>2
    <3> QED BY <1>9, <2>2, <3>2, <3>3, <3>4, <3>5, <3>6, <3>7 DEF BonusStep
  <2>4. CASE ~(r.accrues /\ earned > 0)
    BY <1>7, <2>1, <2>2, <2>4 DEF BonusStep
  <2> QED BY <2>3, <2>4
<1>12. JobStep
  BY <1>7, <1>11, JobKept DEF BonusStep
<1>13. RefundStep
  BY <1>5, <1>6, <1>7, <1>9, Finishes DEF RefundStep
<1> QED BY <1>7, <1>9, <1>10, <1>11, <1>12, <1>13, Finishes DEF StepOK

LEMMA LinkStep ==
  ASSUME IInv, NEW i \in DOMAIN ledger, NEW id \in References, LinkDepositChargeReference(i, id)
  PROVE  StepOK
<1>1. /\ ledger[i].type = "VISIT_CHARGE" /\ ledger' = [ledger EXCEPT ![i].ref = id]
      /\ UNCHANGED <<wallet, bonus, request, job>>
  BY DEF LinkDepositChargeReference
<1>2. ledger \in Seq(Row) /\ id \in Nat
  BY WalletAssumption DEF IInv, TypeOK
<1>3. /\ [ledger[i] EXCEPT !.ref = id] \in Row
      /\ SameRow(ledger[i], [ledger[i] EXCEPT !.ref = id])
  <2>1. ledger[i] \in Row
    BY <1>2
  <2> QED BY <1>1, <1>2, <2>1 DEF Row, SameRow
<1>4. /\ ledger' \in Seq(Row) /\ Len(ledger') = Len(ledger) /\ DOMAIN ledger' = DOMAIN ledger
      /\ \A j \in DOMAIN ledger : ledger'[j] = IF j = i THEN [ledger[i] EXCEPT !.ref = id] ELSE ledger[j]
  <2>1. ledger' = [ledger EXCEPT ![i] = [ledger[i] EXCEPT !.ref = id]]
    BY <1>1, <1>2
  <2> HIDE DEF Row
  <2> QED BY <1>2, <1>3, <2>1
<1>5. Fresh = {}
  BY <1>4 DEF Fresh
<1>6. LedgerStep
  <2>1. \A j \in DOMAIN ledger : SameRow(ledger[j], ledger[j])
    BY DEF SameRow
  <2> QED BY <1>2, <1>3, <1>4, <2>1 DEF LedgerStep
<1>7. DepositStep /\ BonusStep /\ JobStep
  <2>1. DepositStep
    BY <1>1, <1>5 DEF IInv, TypeOK, DepositStep, DepositsOK
  <2> QED BY <1>1, <1>5, <2>1, NoCredit
<1>8. \A k : RefundingAfter(k) = Refunding(k)
  BY <1>1 DEF RefundingAfter, Refunding
<1>9. RefundStep
  BY <1>5, <1>8 DEF RefundStep
<1>10. RequestStep
  BY <1>1 DEF IInv, TypeOK, RequestStep
<1> QED BY <1>6, <1>7, <1>9, <1>10 DEF StepOK

-----------------------------------------------------------------------------
(* The job.                                                                  *)

LEMMA DueStep ==
  ASSUME IInv, NEW i \in DOMAIN bonus, BonusFallsDue(i)
  PROVE  StepOK
<1>1. UNCHANGED <<wallet, ledger, request, job>> /\ bonus' = [bonus EXCEPT ![i].due = TRUE]
  BY DEF BonusFallsDue
<1>2. Fresh = {}
  BY <1>1 DEF Fresh
<1>3. \A k \in DOMAIN bonus : bonus[k] \in Bonus
  BY DEF IInv, TypeOK
<1>4. DOMAIN bonus' = DOMAIN bonus /\ \A k \in DOMAIN bonus : bonus'[k] \in Bonus /\ bonus'[k].guest = bonus[k].guest
                     /\ bonus'[k].amount = bonus[k].amount /\ bonus'[k].status = bonus[k].status
  BY <1>1, <1>3 DEF Bonus
<1>5. BonusStep
  BY <1>2, <1>4 DEF BonusStep
<1>6. LedgerStep /\ DepositStep
  BY <1>1, <1>2 DEF IInv, TypeOK, LedgerStep, SameRow, DepositStep, DepositsOK
<1>7. JobStep
  BY <1>1, <1>4, JobKept
<1>8. \A k : RefundingAfter(k) = Refunding(k)
  BY <1>1 DEF RefundingAfter, Refunding
<1>9. RefundStep
  BY <1>2, <1>8 DEF RefundStep
<1>10. RequestStep
  BY <1>1 DEF IInv, TypeOK, RequestStep
<1> QED BY <1>5, <1>6, <1>7, <1>9, <1>10 DEF StepOK

\* The job's own steps, but the commit.
LEMMA JobOnlyStep ==
  ASSUME IInv, UNCHANGED <<wallet, ledger, bonus, request>>, JobStep
  PROVE  StepOK
<1>1. LedgerStep /\ DepositStep /\ BonusStep /\ Fresh = {}
  BY NothingWritten
<1>2. \A k : RefundingAfter(k) = Refunding(k)
  BY DEF RefundingAfter, Refunding
<1>3. RefundStep
  BY <1>1, <1>2 DEF RefundStep
<1>4. RequestStep
  BY DEF IInv, TypeOK, RequestStep
<1> QED BY <1>1, <1>3, <1>4 DEF StepOK

LEMMA AccrualBegins ==
  ASSUME IInv, accruePendingBonuses \/ AccrueFails
  PROVE  StepOK
<1>1. JobIdle.id = 0 /\ JobIdle.read \in Wallet /\ NotNegative(JobIdle.read)
  BY DEF JobIdle, Wallet, NotNegative
<1>2. job'.id = 0 /\ job'.read = JobIdle.read /\ job'.batch \subseteq DOMAIN bonus
  BY DEF accruePendingBonuses, AccrueFails, JobIdle, Due, Scheduled, IInv, TypeOK
<1>3. UNCHANGED <<wallet, ledger, bonus, request>>
  BY DEF accruePendingBonuses, AccrueFails
<1>4. JobStep
  BY <1>1, <1>2, <1>3 DEF JobStep
<1> QED BY <1>3, <1>4, JobOnlyStep

LEMMA AccrueReadStep ==
  ASSUME IInv, NEW i \in job.batch, AccrueRead(i)
  PROVE  StepOK
<1>1. i \in DOMAIN bonus /\ bonus[i] \in Bonus /\ job.batch \subseteq DOMAIN bonus
  BY DEF IInv, TypeOK
<1>2. wallet[bonus[i].guest] \in Wallet /\ NotNegative(wallet[bonus[i].guest])
  BY <1>1 DEF Bonus, IInv, TypeOK, DepositsOK
<1>3. UNCHANGED <<wallet, ledger, bonus, request>> /\ job.id = 0
  BY DEF AccrueRead
<1>4. JobStep
  <2>1. CASE bonus[i].status = "SCHEDULED"
    BY <1>1, <1>2, <1>3, <2>1 DEF AccrueRead, JobStep
  <2>2. CASE bonus[i].status # "SCHEDULED"
    <3>1. job' = [job EXCEPT !.batch = @ \ {i}]
      BY <2>2 DEF AccrueRead
    <3> QED BY <1>1, <1>3, <3>1 DEF IInv, TypeOK, JobStep
  <2> QED BY <2>1, <2>2
<1> QED BY <1>3, <1>4, JobOnlyStep

LEMMA AccrueCommitStep ==
  ASSUME IInv, AccrueCommit
  PROVE  StepOK
<1> DEFINE b == bonus[job.id]
           after == [job.read EXCEPT !.deposit = @ + b.amount]
           row == [RowOf("LOYALTY_BONUS", b.guest, b.amount, after) EXCEPT !.ref = job.id]
<1>1. job.id \in DOMAIN bonus /\ b \in Bonus /\ job.id \in Nat
  BY DEF AccrueCommit, IInv, TypeOK
<1>2. b.guest \in Guests /\ b.amount \in Nat /\ job.read \in Wallet /\ NotNegative(job.read)
  BY <1>1 DEF Bonus, IInv, TypeOK
<1>3. after \in Wallet /\ NotNegative(after)
  BY <1>2 DEF Wallet, NotNegative
<1>4. /\ row \in Row /\ row.guest = b.guest /\ row.deposit = after.deposit /\ row.debt = after.debt
      /\ row.type = "LOYALTY_BONUS" /\ row.amount = b.amount /\ row.ref = job.id
  BY <1>1, <1>2, <1>3 DEF RowOf, Row, RowType, Wallet
<1>5. /\ wallet' = [wallet EXCEPT ![b.guest].deposit = after.deposit] /\ ledger' = Append(ledger, row)
      /\ bonus' = [bonus EXCEPT ![job.id].status = "CREDITED"]
      /\ job' = [JobIdle EXCEPT !.batch = job.batch] /\ UNCHANGED request
  BY DEF AccrueCommit
<1> HIDE DEF after, row
<1>6. LedgerStep /\ Fresh = {Len(ledger) + 1} /\ ledger'[Len(ledger) + 1] = row
  BY <1>4, <1>5, RowAdded DEF IInv
<1>7. DepositStep
  BY <1>2, <1>3, <1>4, <1>5, DepositWritten
<1>8. job'.id = 0 /\ job'.read = JobIdle.read /\ job'.batch = job.batch
  BY <1>5 DEF JobIdle
<1>9. BonusStep
  <2>1. \A i \in DOMAIN bonus : bonus[i] \in Bonus
    BY DEF IInv, TypeOK
  <2>2. /\ DOMAIN bonus' = DOMAIN bonus /\ bonus'[job.id].status = "CREDITED"
        /\ \A i \in DOMAIN bonus : /\ bonus'[i] \in Bonus
                                   /\ bonus'[i].guest = bonus[i].guest /\ bonus'[i].amount = bonus[i].amount
                                   /\ i # job.id => bonus'[i].status = bonus[i].status
    BY <1>1, <1>5, <2>1 DEF Bonus
  <2> QED BY <1>1, <1>4, <1>6, <1>8, <2>2 DEF BonusStep, IsCredit
<1>10. JobStep
  BY <1>8, <1>9 DEF JobStep, JobIdle, Wallet, NotNegative, IInv, TypeOK, BonusStep
<1>11. \A k : RefundingAfter(k) = Refunding(k)
  BY <1>5 DEF RefundingAfter, Refunding
<1>12. RefundStep
  BY <1>4, <1>6, <1>11 DEF RefundStep
<1>13. RequestStep
  BY <1>5 DEF IInv, TypeOK, RequestStep
<1> QED BY <1>6, <1>7, <1>9, <1>10, <1>12, <1>13 DEF StepOK

-----------------------------------------------------------------------------
(* The theorems.                                                             *)

LEMMA Initially == Init => IInv
<1> SUFFICES ASSUME Init PROVE IInv
  OBVIOUS
<1>1. ledger = << >> /\ DOMAIN ledger = {} /\ DOMAIN bonus = {} /\ ledger \in Seq(Row)
  BY DEF Init
<1>2. wallet \in [Guests -> Wallet] /\ \A g \in Guests : NotNegative(wallet[g]) /\ wallet[g].deposit = InitialDeposit[g]
  BY WalletAssumption DEF Init, Wallet, NotNegative
<1>3. request \in [Procs -> Local] /\ RequestsOK
  BY IdleOK DEF Init, RequestsOK
<1>4. job.batch = {} /\ job.id = 0 /\ job.read \in Wallet /\ NotNegative(job.read)
  BY DEF Init, JobIdle, Wallet, NotNegative
<1>5. TypeOK
  BY <1>1, <1>2, <1>3, <1>4 DEF TypeOK
<1>6. DepositsOK
  BY <1>1, <1>2 DEF DepositsOK, RowsOf
<1>7. BonusIsEarned /\ CreditsOK
  BY <1>1 DEF BonusIsEarned, CreditsOK
<1>8. RefundsAreBounded
  BY <1>1 DEF RefundsAreBounded
<1> QED BY <1>3, <1>4, <1>5, <1>6, <1>7, <1>8 DEF IInv

LEMMA EveryStep == ASSUME IInv, [Next]_wvars PROVE StepOK
<1>1. CASE UNCHANGED wvars
  <2>1. JobStep
    BY <1>1, JobKept DEF wvars
  <2> QED BY <1>1, <2>1, JobOnlyStep DEF wvars
<1>2. ASSUME NEW p \in Procs, Request(p) PROVE StepOK
  BY <1>2, TopUpPreviewStep, ChargeReadStep, RefundTopUpReadStep, RefundChargeCheckStep DEF Request
<1>3. ASSUME NEW p \in Procs, Continue(p) PROVE StepOK
  BY <1>3, SecondReadStep, TopUpCommitStep, RefundTopUpCommitStep, ChargeCommitStep, RefundChargeCommitStep
     DEF Continue
<1>4. ASSUME NEW p \in Procs, Abort(p) PROVE StepOK
  BY <1>4, Finishes, ReadStep DEF Abort
<1>5. CASE Accrual
  BY <1>5, AccrualBegins, AccrueReadStep, AccrueCommitStep DEF Accrual
<1> QED BY <1>1, <1>2, <1>3, <1>4, <1>5, LinkStep, DueStep, AccrualBegins DEF Next

LEMMA Inductive == IInv /\ [Next]_wvars => IInv'
BY EveryStep, StepKeepsInvariant

LEMMA Invariant == Spec => []IInv
BY Initially, Inductive, PTL DEF Spec

\* The tables and what the requests and the job have read keep their types, and
\* a bonus belongs to a ledger row.
THEOREM TypeCorrect == Spec => []TypeOK
<1>1. IInv => TypeOK
  BY DEF IInv
<1> QED BY Invariant, <1>1, PTL

\* However many requests have computed from the same read, deposit and debt stay
\* natural, and a guest's last row shows the deposit.
THEOREM DepositsShown == Spec => []LedgerShowsDeposit
<1>1. IInv => LedgerShowsDeposit
  BY DepositsAreShown DEF IInv
<1> QED BY Invariant, <1>1, PTL

\* accrueOne credits a bonus once, whatever refunds its top-up meanwhile.
THEOREM BonusesCreditedOnce == Spec => []BonusCreditedOnce
<1>1. IInv => BonusCreditedOnce
  <2> SUFFICES ASSUME IInv, NEW i \in DOMAIN bonus
               PROVE  /\ Cardinality(CreditsOf(i)) <= 1
                      /\ bonus[i].status = "SCHEDULED" => CreditsOf(i) = {}
                      /\ bonus[i].status = "CREDITED" => CreditsOf(i) # {}
                      /\ \A j \in CreditsOf(i) :
                           ledger[j].amount = bonus[i].amount /\ ledger[j].guest = bonus[i].guest
    BY DEF BonusCreditedOnce
  <2>1. \A j \in CreditsOf(i) : j \in DOMAIN ledger /\ IsCredit(ledger[j]) /\ ledger[j].ref = i
    BY DEF CreditsOf, IsCredit
  <2>2. CreditsOf(i) = {} \/ \E j : CreditsOf(i) = {j}
    <3> SUFFICES ASSUME NEW j \in CreditsOf(i) PROVE CreditsOf(i) = {j}
      OBVIOUS
    <3>1. \A k \in CreditsOf(i) : k = j
      BY <2>1 DEF IInv, CreditsOK
    <3> QED BY <3>1
  <2>3. Cardinality(CreditsOf(i)) <= 1
    <3>1. CASE CreditsOf(i) = {}
      <4>1. Cardinality(CreditsOf(i)) = 0
        BY <3>1, FS_EmptySet
      <4> QED BY <4>1
    <3>2. CASE \E j : CreditsOf(i) = {j}
      <4>1. PICK j : CreditsOf(i) = {j}
        BY <3>2
      <4>2. Cardinality({j}) = 1
        BY FS_Singleton
      <4> QED BY <4>1, <4>2
    <3> QED BY <2>2, <3>1, <3>2
  <2>4. bonus[i].status = "SCHEDULED" => CreditsOf(i) = {}
    BY <2>1 DEF IInv, CreditsOK
  <2>5. bonus[i].status = "CREDITED" => CreditsOf(i) # {}
    BY DEF IInv, CreditsOK, CreditsOf, IsCredit
  <2>6. \A j \in CreditsOf(i) : ledger[j].amount = bonus[i].amount /\ ledger[j].guest = bonus[i].guest
    BY <2>1 DEF IInv, CreditsOK
  <2> QED BY <2>3, <2>4, <2>5, <2>6
<1> QED BY Invariant, <1>1, PTL

\* A bonus is of a top-up that was made, and is what its deposited part earns.
THEOREM BonusesAreEarned == Spec => []BonusIsEarned
<1>1. IInv => BonusIsEarned
  BY DEF IInv
<1> QED BY Invariant, <1>1, PTL

\* A charge is refunded twice only by requests that passed the check together.
THEOREM RefundsBounded == Spec => []RefundsAreBounded
<1>1. IInv => RefundsAreBounded
  BY DEF IInv
<1> QED BY Invariant, <1>1, PTL
=============================================================================
