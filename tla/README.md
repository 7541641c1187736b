# Verification of the Time Cafe backend

TLA+ modules, TLC configurations and TLAPS proofs kept beside the NestJS backend
of a network of time cafes. Paths below are relative to the repository
(`src/modules/...` is the application, `prisma/schema.prisma` the database schema,
`docs` the documents).

## The system and what makes it hard

One Node process serves HTTP and Socket.IO requests, a cron job, and PostgreSQL
through Prisma; accounts live in Keycloak as well, files in MinIO. A handler runs
alone between two `await`s, so the interleaving unit is a database statement, or
a `$transaction` block, and whatever a handler read before an `await` may be
stale when it is used. Almost no code locks rows, transactions run at READ
COMMITTED, and the schema has no CHECK on balances. Handlers that die (a thrown
statement, a restart) leave what they wrote: nothing resumes them.

| component | state it keeps | operations | interacts with | what must be right | status, module |
|---|---|---|---|---|---|
| Orders | `Order` rows: status, `paidAt`, method | create, updateStatus, cancel | starts card payments without awaiting them, pays from `User.balance` | paid implies a payment; cancelled and paid is refunded | modelled, `OrderPayments` |
| Transactions | `Transaction` rows | createPayment, processPayment with retries, createRefund, createRefundAdmin | confirms the order on success | a row is processed once and settles; a refund follows a payment | modelled, `OrderPayments`, `PaymentLedger` |
| Customer balance | `User.balance` | top-up (creates a card payment only) | orders debit it, cancellations credit it | equals what rows say; overdraft bounded | partly, `OrderPayments` |
| Payment cards | `PaymentCard` | add, set default, delete | looked up by payments | one default card | modelled, `PaymentCards` |
| Cafe worker panel | order status, `shiftStatus` | confirm, complete, cancel, toggle shift | writes orders next to `orders` | shifts asked to be confirmed as the schedule says | partly, `OrderPayments`, `WorkerSchedule` |
| Guest wallet and bonuses | deposit and debt of `NetworkGuest`, `WalletLedgerEntry`, `PendingLoyaltyBonus` | top-up and its refund, charge and refund of a booking, accrual job | appointments charge it | ledger agrees with the deposit; a bonus credited once | modelled, `GuestWallet` |
| Appointments | `Appointment`, asset reservations | create, update, cancel, confirm, check in | wallet, transactions, rooms | charge and appointment go together; assets lost for a reason | modelled, `Appointments` |
| Order chat | chats, messages, attachments, unread counters, socket rooms | open, send, upload, mark read, settings, typing | orders, workers, gateway | one chat per order; exact counters; attachments stay | modelled, `OrderChat` |
| Network guests | status, phone code, card, user link | create, update, verify, refuse, restore, link | activation gives the loyalty tier | refused stays refused | partly, `Guests` |
| Loyalty settings and tiers | tiers, history | change, deactivate, assign | guests, wallet | no guest in a tier that is off | partly, `Guests` |
| Brands, cafes | brand status, documents, pictures, soft deletion | documents, verify, reject, suspend, move | cafes need an active brand | active implies verified documents; files follow rows; reports add up | modelled, `Brands`, `BrandReports` |
| Accounts | rows in the database and in Keycloak | register, first login, e-mail, delete, webhook | two stores written one after the other | no half account unless a handler died | partly, `Accounts` |
| Menu | categories and items | edit, import, export | orders copy prices | an export restores the menu | modelled, `Menu` |
| Cafe layout | rooms, elements, assets, plan | load, save, occupancy, availability, preview | appointments name rooms | bookings keep their rooms; occupancy adds up | modelled, `Layout`, `PlanPreview` |
| Tasks | templates, completions | edit, complete, uncomplete, summary, statistics | workers | reports add up; an undo undoes what it read | modelled, `Tasks` |
| Reviews | reviews, the cafe's rating | create, change, remove | completed orders | the rating follows the reviews | modelled, `Reviews` |
| Worker schedule | shift templates, opening hours, absences, shift status | edit, toggle | cafe hours | agrees with its definition by instants | modelled, `WorkerSchedule` |
| Regions and system settings | one JSON row | read, merge, write | | other sections survive an update | partly, `Settings` |
| Reception and cafe administration | none of their own | workers, shifts, the cafe's form | the modules above | | partly, `Accounts`, `WorkerSchedule`, `OrderChat` |
| Storage, cafe realtime gateway, activity logs, health, seeds, frontend stub | none that a decision depends on | | | | not modelled, see the end |

`PROJECT.json` lists every component with its status and every hazard at the line
where it bites.

## How the modules are built

* A **component module** has the tables as VARIABLES and one action per step of a
  handler: its first step is the request, with the reads and checks up to the
  first `await` that matters, and each later step is one statement, one
  transaction or one call of a store. A handler in flight sits in a slot of
  `Procs` with its next step (`pc`) and what it has read. `Requests` holds what
  the smaller modules share of this: `Become`, `Goto`, `Finish`, and `Dies`, a
  throw or a restart anywhere, at most `MaxFaults` times.
* A **properties module** (`...Properties`) states the type invariant and what the
  component guarantees. Small modules hold their properties at their end.
* An **MC module** gives constants their values. `MCNetwork` and `MCBackoffice`
  check several components that share no tables in one run: a variable `focus`
  chooses a component, or a group of its operations, in the initial state and
  bounds what it does, so that the run is the union of small instances and not
  their product.
* A **proofs module** has the inductive invariant and the theorems.

The sections "Mutants" hold operators that are bugs the code could have had. No
specification uses them; each is there to show that a property notices it.

The modules, in the order they were planned, most important first: `OrderPayments`
with its abstract `PaymentLedger`; `GuestWallet`; `Appointments`, which composes
the wallet with rooms and assets and is shown to implement it; `OrderChat`;
`Brands`, `Guests`, `Menu`, `Accounts` (run `network`); `Tasks`, `Layout`,
`PlanPreview`, `Reviews`, `PaymentCards`, `Settings`, `WorkerSchedule`,
`BrandReports` (run `backoffice`).

The proofs are kept in one module per run or component: `OrderPaymentsProofs`,
`GuestWalletProofs`, `AppointmentsProofs` and `BookingClaimsProofs`,
`OrderChatProofs`, `NetworkProofs`, `BackofficeProofs`, and `FiniteSums`, the lemmas on
sums over finite sets that three of them need. Every invariant and every action
property of a run, and both refinements, are theorems; the five liveness
properties, `RowsSettle`, `CompletedPaymentMarksPaid`, `PaidCancelIsRefunded`,
`DueBonusesSettle` and `MessagesAreAnnounced`, are model-checked only.

## Runs

| run | module, cfg | states | result |
|---|---|---|---|
| `op_orders` | `MCOrders`, `OrderPayments_orders.cfg` | 520 678 | eight properties hold |
| `op_live` | `MCOrderPayments`, `OrderPayments_live.cfg` | 77 066 | three liveness properties hold |
| `op_cancelled` | `MCOrderPayments`, `OrderPayments_cancelled.cfg` | | `PaymentRevivesNoOrder` violated |
| `op_overdraft` | `MCOrderPayments`, `OrderPayments_overdraft.cfg` | | `BalanceNeverNegative` violated |
| `op_refund` | `MCOrderPayments`, `OrderPayments_refund.cfg` | | `CancelledPaidOrderIsRefunded` violated |
| `gw_wallet` | `MCGuestWallet`, `GuestWallet_wallet.cfg` | 77 302 | five invariants and one liveness property hold |
| `gw_lost` | `MCGuestWallet`, `GuestWallet_lost.cfg` | | `TopUpIsAdded` violated |
| `ap_bookings` | `MCAppointments`, `Appointments_bookings.cfg` | 309 795 | five invariants and the refinement of the wallet hold |
| `ap_double` | `MCAppointments`, `Appointments_double.cfg` | | `NoDoubleBooking` violated |
| `chat` | `MCOrderChat`, `OrderChat_chat.cfg` | 346 126 | four invariants and one liveness property hold |
| `network` | `MCNetwork`, `Network.cfg` | 257 121 | six invariants and one action property hold |
| `backoffice` | `MCBackoffice`, `Backoffice.cfg` | 261 083 | four invariants and one action property hold |

Deadlock checking is off in all of them: requests need not come, and with a full
table of the model the system stops.

## OrderPayments

`OrderPayments` is the state machine, `OrderPaymentsProperties` what it guarantees
and the refinement mapping to `PaymentLedger`, the abstract specification of rows
and balance; `MCOrderPayments` and `MCOrders` are for TLC, `OrderPaymentsProofs` holds
the theorems.

State. `order` has for each order its status, whether `paidAt` is set, and the
method; `tx[1..nTx]` is the transactions table in order of creation; `balance` is
`User.balance`; `mode` is `PAYMENT_MODE`, which is fixed while the process lives;
`proc[p]` is a handler in flight.

| code | actions |
|---|---|
| `OrdersService.create` | `CreateOrder`, then the handler of the payment it starts |
| `initiateBalancePayment` | `BalanceSuffices` or `BalanceInsufficient` (the check), `BalancePayment` (the transaction: row, decrement, order CONFIRMED and paid) |
| `initiateCardPayment`, `createPayment` | `CardMissing`, `CreatePayment` |
| `processPayment`, `retryPayment` | `StartProcessing`, then `PaymentSucceeds`, `RetryPayment` or `PaymentFails` |
| `updateOrderStatusOnPaymentSuccess` | `UpdateOrderOnPaymentSuccess` |
| `OrdersService.updateStatus` | `UpdateStatusRead`, `UpdateStatusWrite`, the refund steps |
| `OrdersService.cancel` | `CancelRead`, `CancelWrite`, the refund steps |
| `CafeWorkerService.confirmOrder`, `completeOrder`, `cancelOrder` | `WorkerRead`, `WorkerWrite` |
| refund of a cancellation | `FindPaymentToRefund`, `RefundToBalance`, or the steps of `createRefund` |
| `createRefund`, `processRefund` | `RequestRefund`, `RefundRejected`, `CreateRefund`, `StartRefund`, `CompleteRefund` |
| `createRefundAdmin` | `AdminRefund` (one step: its read is of a COMPLETED payment, which nothing changes) |
| a throw, a restart | `Abort` |

Abstractions. A read of a row that no other handler can change is merged with the
step that uses it (a handler's own PENDING row, a COMPLETED payment). Cards are
a choice between found and missing. Cash orders have no payment. Access checks,
DTO mapping, logging and realtime pushes change nothing and are left out. Amounts
in requests to pay are positive (`PayAmounts`, `@Min(0.01)`); those of the user's
refund endpoint are validated by nothing and may be negative (`RefundAmounts`):
`transactions.service.ts:226` finds a negative one small enough, `:237` stores minus
its absolute value, and the refund is then of more than the payment it names.
`RefundsAreBacked` bounds a refund by its payment but for an amount that was asked
for with that sign. The administrator's `balanceDelta`, a
read-modify-write of the balance in `users.service.ts`, is left out.

Runs. `op_orders` asks which interleavings of two handlers break an order, its rows
or the balance. Its action constraint `SmallInstance` joins two instances: one order
of 2, with payments of 1 (so that refunds can exceed them), two customers of whom
the second has at most one row, three rows, and handlers that may die anywhere,
refunded by parts or by -3, more than the payment; and up to three orders of one
customer against a balance that covers one, each paid and refunded whole. The two
customers are not symmetric, handlers and orders are: `Symmetry` permutes those.
`op_live` asks whether everything that starts ends: two orders, `MaxRetries` 3 as in
the schema, mode good or stop, no deaths. `op_cancelled` asks whether a payment
leaves a cancelled order cancelled, as `validTransitions` of `orders.service.ts:398`
says of CANCELLED, and TLC answers with an order paid from the balance: it is
cancelled between the check of the balance and the transaction, which then debits
the customer and makes the order confirmed and paid. `op_overdraft` asks whether the
check of `orders.service.ts:833` keeps the balance from going below zero: two
creations both pass it, both debit. `op_refund` asks whether a cancelled paid order
is refunded, as `docs/PROGRESS.md:618` says: the worker panel refunds nothing, and a
cancellation that read the order before its payment does not either.

Why the bounds are enough: every hazard here is between two handlers (a reader and
a writer of one order, two debits of one balance, a payment and a cancellation),
and every handler inserts at most one row; three rows allow a payment, its refund
and a second one of either. What does not depend on the bounds at all is proved.
`RoomForOneMore` keeps a handler from starting when the table of the model could
not take its row, so the bound never leaves a handler stuck.

Fairness. `FairSpec` has weak fairness of `Continue(p)` for each handler: the event
loop runs a callback that is ready and the database answers. Nothing is assumed of
requests, and deaths are off in the runs of liveness, since a dead handler is not
resumed by anything.

Proofs, for every set of orders, customers and handlers, every bound and every mode,
under `ConstantsAssumption` alone: `TypeCorrect`, `RowsOwned`,
`PaidOrdersHavePayments`, `RefundsFollowPayments`, `StaffWritesAreSound` and
`ImplementsTheLedger` (`Spec => ImplementsLedger`). The inductive invariant `IInv`
is `TypeOK`, `HandlersOK`, `NoRowDrivenTwice`, `PaymentsPositive`, `PaidHasPayment`
and `RefundsAreBacked`. The properties are not inductive alone. `PaidHasPayment`
needs that a handler about to confirm an order has settled a payment of that very
order; `RefundsAreBacked` that a handler about to insert a refund names a completed
payment of its user and order, and holds a positive amount or one of
`RefundAmounts`; `StaffAdvancesOnlyPaid` that what `updateStatus` read (`paid`,
`CONFIRMED` requested) is still implied by the order when it writes, which holds
because `paidAt` is never cleared and the method never changes. `HandlersOK` says
this of each place a handler can be at. Every action is shown to satisfy one
statement, `StepOK(p, h)`: it keeps the types; orders and rows only move the allowed
way; a new row is backed; a newly paid order has its payment; the row written is the
handler's own; and the handler's new locals satisfy `HandlerOK`. From `StepOK`
alone, one lemma concludes that `IInv` is preserved, other handlers included,
because what `HandlerOK` says of them only depends on things that never go back.

`BalanceIsWhatTheRowsSay` and `OverdraftsAreBounded` prove the two properties that
sum over sets of rows, for finite sets of handlers and a natural first balance
(`User.balance` is 0 by default, `schema.prisma:62`). A step that inserts a row, or
completes one, changes one term of one sum, and `FiniteSums` says what that does to
the sum. The fold of the community modules is taken apart there without an
induction rule: two folds that differ somewhere differ on a smallest subset, and
that one is not empty. The overdraft needs more than its statement: as long as no
handler is between check and debit the balance is not negative, and the debits of
those that are there bound what it may fall by (`Solvent`, `Slack`).

Only model-checked: the liveness properties.

## GuestWallet

State. `wallet[g]` is a guest's `depositBalance` and `debt`; `ledger` the
`wallet_ledger_entries` in order of commit; `bonus` the `pending_loyalty_bonuses`,
each under the number of its top-up's row (`topUpLedgerId` is unique);
`request[p]` a request in flight with what it has read; `job` the run of the
accrual job: the bonuses still in its batch, the one being credited, and the
guest as it was read.

| code | actions |
|---|---|
| `buildPreview` | `TopUpPreview` (with `resolveWillAccrue`, `floorBonus`) |
| `topUp` | `TopUpRead` (the second read of the guest), `TopUpCommit` (the transaction) |
| `refundTopUp` | `RefundTopUpRead`, `RefundTopUpCommit` |
| `chargeDepositForBooking` | `ChargeRead`, `ChargeCommit` |
| `refundDepositCharge` | `RefundChargeCheck`, `RefundChargeRead`, `RefundChargeCommit` |
| `linkDepositChargeReference` | `LinkDepositChargeReference` |
| `accruePendingBonuses`, its `catch` | `accruePendingBonuses`, `AccrueFails` |
| `accrueOne` | `AccrueRead` (inside the transaction, which does not lock it), `AccrueCommit` |
| `scheduledAt <= now` | `BonusFallsDue` |
| a throw, a deadlock victim | `Abort`, `AccrueFails` |

A transaction whose statements are writes is one step: each writes the guest's
row and holds its lock until it commits, so two of one guest commit one after
the other. `refundTopUp` locks the bonus and then the guest, `accrueOne` the guest
and then the bonus: PostgreSQL aborts one of two that meet, which is `Abort` or
`AccrueFails`.

Abstractions. The kinds of top-up are one. The settings of platform and brand may
have any value whenever they are read. The guest's tier does not change. A booking
is refunded by what it was charged, as its only caller does. A query with its
`include` is one read. Notifications, cards and access checks change nothing the
properties see. One run of the job ends before the next tick of its clock, fifteen
minutes later, and one process runs it.

Runs. `gw_wallet` asks what survives stale reads and absolute writes: one guest
with a deposit of 2 and a debt of 1, amounts of 2, a bonus of all that is added,
the minimum to earn it 2, a batch of one, two requests beside the job, seven rows.
`gw_lost` asks, on the same instance, whether the deposit is topped up by the
amount, as the answer of `topUp` says (`guest-wallet.service.ts:292`): a charge that
commits between the read at `:176` and the write is overwritten.

Handlers of different guests share no row, so one guest is enough for everything
but the `guest` fields, which the proofs cover for any guests. Two requests and the
job are every pair of handlers that can meet. The first top-up repays the debt and
earns nothing, a second one earns a bonus; seven rows hold both with the bonus, a
charge and a refund of each kind. The bound on rows is reserved when a request
starts (`RoomFor`), so it stops no handler half-way.

Fairness. `FairSpec` has weak fairness of each request's callbacks and of the job,
which its clock starts. `AccrueCommit` has strong fairness: a credit may be rolled
back any number of times, but failures are transient and a later run, which the
code does make, succeeds in the end.

What does not hold, and why no property says it: the deposit is not the initial
one plus what the rows add up to (`gw_lost`, and likewise for two charges at
once); a top-up can be refunded twice, since nothing records its refund; a refund
that commits between the job's read and its commit leaves a cancelled bonus that is
credited all the same, marked `CREDITED`.

Proofs, under `WalletAssumption` alone, for any guests, amounts, handlers and
bounds: `TypeCorrect`, `DepositsShown`, `BonusesCreditedOnce`, `BonusesAreEarned` and
`RefundsBounded`, so every invariant of the run. The inductive invariant `IInv` adds
to the five properties: `RequestsOK`, what each request has read and which row it is
about (a stale deposit is still natural, and enough for the charge that was
checked against it; `undo_commit` names a top-up, `refund_commit` a charge of its
guest and amount); `DepositsOK`, which says "the last row of the guest" without
`Max`; and `CreditsOK`, that a row of a bonus is of one that is neither SCHEDULED nor
in the hands of the job, and that no two rows are of one bonus. That last part is
why a bonus is credited once: the job writes a row only for the bonus it holds, and
takes only SCHEDULED ones. An action satisfies six statements (`LedgerStep`,
`DepositStep`, `BonusStep`, `JobStep`, `RefundStep`, `RequestStep`; together `StepOK`),
each about one table, and `StepKeepsInvariant` concludes from them that `IInv` is
kept. For `RefundsAreBounded` the step lemma counts: a new refund comes from a
request that was in `Refunding`, and a request joins `Refunding` only while the
charge has no refund, so the sum stays within the number of slots. `DueBonusesSettle`
is model-checked only.

## Appointments

`Appointments` EXTENDS `GuestWallet`: a booking paid from the deposit takes the steps
of `chargeDepositForBooking` in its own slot, and a cancellation those of
`refundDepositCharge`. A card payment runs to its end inside `createPayment`, which
`OrderPayments` models, and is one step with the status its transaction ends in.

| code | actions |
|---|---|
| `create` | `BookCheck` (room and assets), `ChargeStarts`, `ChargeRefused`, `ChargeLands` or `PayByCard`, `CardMissing`; `Insert`, `Link`, `ReserveRead`, `ReserveCommit` |
| `update` | `UpdateRead`, `UpdateWrite` |
| `cancel` | `CancelRead`, `RefundStarts`, `RefundFound`, `RefundReads`, `RefundLands` or `CardRefund`, `CancelWrite` |
| confirm, check in, cancel of the staff | `StaffRead`, `StaffWrite` |
| a refund that throws (caught), a throw, a restart | `RefundThrows`, `HandlerStops` |

Left out: listings and answers; cafes that are closed and times in the past, which
are refused before anything is written; the price of a room, which is any amount.

What a booking selects is a sequence of ids, as in `create-appointment.dto.ts:77`,
where an id may be repeated: each time counts the reservations made for the ones
before (`Wanted`). `SaveSharedAssets` is the layout editor, which switches assets on
and off; `wasOff` remembers which were ever off, `overtaken` which bookings staff
confirmed or checked in after their refund. Notes are any text a guest types, decide
nothing and are left out.

`ap_bookings` runs two handlers of one guest over one room, one hour, one shared
asset and a deposit that covers one booking: two bookings that compete for the room,
the asset and the deposit are every conflict there is. Its action constraint
`SmallInstance` joins two instances: `OneAsset`, bookings that select the asset once,
moved, cancelled, confirmed and refunded, with one fault anywhere; and `ManyAssets`,
bookings that select it once or twice while it is switched off and on.
`BookingHasItsCharge` ties an appointment to its ledger row across the three
statements that write the two; `ChargeBuysBooking`, `CancelledByGuestIsRefunded` and
`AssetsLostForAReason` are claimed while no handler was cut short: with a death
between charge and insert, money is gone without a booking, since nothing gives it
back. A booking refunded by a cancellation can be active again in one way, which the
property names: a confirmation or a check-in of staff that had read it before.
A booking loses the assets it selected after it was paid for, to other bookings, to
an editor that switched one off, or to itself, when it names an asset more often than
there is of it.
`ImplementsWallet` says that every step is a step of `GuestWallet` or leaves the
wallet alone. `ap_double` shows two active bookings of one room at one time: two
requests pass the check before either inserts, or `update` moves a booking onto
another.

Proofs, under `WalletAssumption` and `AppointmentsAssumption`, for any rooms, times,
assets, guests and handlers: `BookingsTyped`, `BookingsHaveCharges`,
`BookingsImplementTheWallet` and `WalletUnderBookings`. The invariant `AInv` says where
each handler is and what that means (`WhereOK`: before the charge its row names none,
at `charging` the request in its slot is for its guest and amount, at `insert` a row
that pays from the deposit has a charge that nothing is linked to, later its
appointment exists); that no charge is of two bookings, made or about to be
(`ChargesAreDistinct`, without which `Link` could name another's row); and that
bookings made and on their way fit the bound, so the id that is linked is one of
`References`. It is proved together with `IInv` of the wallet: a step of a booking is
shown to be a step of `GuestWallet`, so it keeps `IInv`, and `IInv` gives the types
that the step of the booking needs. The wallet's own theorems then hold of bookings
too, of which `WalletUnderBookings` is the one worth a name.

`BookingClaimsProofs` proves the three claims about runs without a fault:
`ChargesBuyBookings`, `CancellationsAreRefunded` and `AssetsAreLostForAReason`. `CInv`
adds to `AInv` that a handler at `refund_wait` refunds the charge of its booking and
one at `cancel` has seen it refunded, that a refund is of some booking's charge (so a
new booking has none), that a refunded booking is cancelled, about to be, or
`overtaken`, and that at most one handler owes a booking its assets, while no
reservation is of it: what `reserveSharedAssetsForAppointment` counts is then all of
others, and what is refused is `Lacking` from then on, since reservations are only
added and `wasOff` only grows. An action satisfies
`Effects` (what it does to the ledger, the rows, the reservations and the handler's
place), and one lemma per conjunct of `CInv` concludes from `Effects` that it is kept.
The proofs use that a cafe has finitely many assets. `ATypeOK` and every other
property of the run are thus both checked and proved.


## OrderChat

One module for `order-chat.service.ts` and the gateway: chats (unique by order),
messages with the recipients they were sent to, attachments with their files,
`read` (counter and last message read of each actor), typing marks, the cafe's
settings, and the sockets with the rooms they joined. `getOrCreateByOrder` is
`OpenFind`, `OpenCreate` (the unique key decides a race); `sendMessage` is
`SendCheck`, `ResolveRecipients`, `SendCommit` (one transaction: message,
attachments, counters), `emitMessageCreated`; an upload is `UploadStart`,
`UploadCreate`, `UploadStore`, `UploadMark`; settings are a read and a write, or
written for one chat (`RoutingWrite`). `DayPasses` lets attachments expire and
`cleanupExpiredOrphanAttachments` runs at the start of an upload, as in the code.

`chat` uses one order, a customer, two workers, two handlers, two messages and one
attachment. Five foci keep features apart that share no table (counters against
settings and workers that move, pictures, settings, sockets, typing); within one,
everything interleaves. The second message is what a stale reset of a counter
needs, and one attachment is what two messages fight over. Weak fairness of
`ChatContinue(p)` is again that a callback that is ready runs; `MessagesAreAnnounced`
exempts handlers that die.

Proofs, for any users, workers, orders, messages and attachments: `ChatIsTyped`,
`OrderHasOneChat`, `CountersAreExact`, `ClaimedStays` (the four invariants of the run)
and `NoMessageIsAnnouncedTwice`. They assume that no actor is a user and a worker at
once, and that the routings are among those the schema has. `IInv` is the conjunction
of `ChatsOK`, `MessagesOK`, `AttachmentsOK`, `ReadOK` (what a counter counts: messages
after the last one read, of others, sent to this actor), `HandlersOK` (a handler about
to commit a message holds recipients; the attachments it was given may have been
claimed meanwhile, which is why the claim is part of the transaction) and
`AnnouncementsOK` (a message is announced by the one handler that committed it).
`CountersAreExact` counts sets: a new message adds one element to the set of each
recipient, a read empties one, and a handler that read late empties it up to the
message it had seen. `MessagesAreAnnounced` is model-checked only.

Avatars, signed URLs, the stream of a picture and paging are left out.

## The network of cafes (run `network`)

* `Brands`: brands, their documents and pictures beside the files in the bucket, and
  cafes. Each handler reads, checks and writes in a later statement (`VerifyRead`,
  `BrandWrite`; `DocumentStore`, `DocumentInsert`; `DeleteDocumentFile`,
  `DeleteDocumentRow`; `PictureDelete`, `PictureStore`; `CafeCreateRead`,
  `CafeInsert`, ...). `NetworkIsVerified` holds although a document may be deleted
  and a brand suspended between check and write, because `verifyBrand` looks at
  documents that an administrator had verified. A document that is deleted is gone
  from the table and from the bucket (`brands.service.ts:1021`, `:1035`); the model
  keeps its row, marked, as the history that the property speaks of;
  `FilesMatchRows` is claimed while no handler was cut short.
* `Guests`: guests with phone, code, card, tier and user, and the tiers. Phones may
  be written in several ways that `normalizeGuestPhone` makes one. `loose` remembers
  tiers that `updateTier` switched off, and tiers given to a guest by a handler that
  was late: those are what `GuestTierIsActive` exempts. Codes expire, cooldowns end.
* `Menu`: edits hide rows and never delete them; `importMenu` in its two modes is one
  transaction, `exportMenu` two reads, and an edit between them makes the export
  torn, which the property exempts and the code does not notice. A name is blank or
  not (`MenuNames`): `updateCategory` and `updateItem` accept a blank one, `exportMenu`
  exports it and `importMenu` drops it, so an import in replace mode switches such an
  entry off, a category with all its items. `ExportRestoresTheMenu` says that it
  restores everything else and shows nothing else.
* `Accounts`: Keycloak's accounts and the rows of users and workers, with every
  operation that writes both: `createUser` then `CreateRow`, `deleteUser` then
  `softDelete`, `updateEmail`, the sync of a login or a webhook, and Keycloak changed
  by itself. What a sign-in offers is computed by `Offers`, `loginSelect`, `getMe`
  and `refreshToken`. Half accounts after a death, and two rows of one account after
  two first logins at once, are exempt (`faults`, `raced`): the code allows both.

Two brands, two guests, two tiers, three accounts, two documents and two handlers,
one of which may die once, are enough for each hazard: all are between one handler
that read and one that wrote in between.

Proofs (`NetworkProofs`), each under its module's assumption alone.
`VerifiedNetwork`: `IInv` adds that a handler about to activate a brand, or to
insert or move a cafe, has seen its documents, and that verified documents stay in
the table. `FilesFollowRows`: `FilesIInv` says of each handler which file it has
stored or deleted and which row it will write for it, so that while none was cut
short every row has its file and every other file is in the hands of one handler.
`GuestTiersAreActive` and `RefusalIsKept`: the invariant adds what each handler may
still write of a status and of a tier. `ExportRestores`: an export not yet torn has
the categories as they are, and a whole one was taken of some menu; the lemma
`ReplacementShowsTheSame` says that replacing any menu by such a document shows what
that menu showed, but for the entries with a blank name. `AccountsAndRowsAgree`:
`AccountsIInv` adds that a row without its account, or an account without its row,
is in the hands of the one handler that writes the other half, and that e-mails are
non-empty (the assumption on `Emails`: the DTOs validate them). In each part one
lemma per action shows what the step does to tables and handlers, and one lemma that
such a step keeps the invariant.

The type invariants are theorems too (`BrandsAreTyped`, `GuestsAreTyped`, `MenuIsTyped`,
`AccountsAreTyped`), and none of them holds by itself. A row is written from fields a
handler has carried for several steps, so `PartOfBrand` and `PartOfGuest` say what such
a part of a row may be. An item's category exists since no category is ever removed,
and an export carries only such items. The number of pictures stays in its bound
because an upload in progress is counted in advance, and rows and codes since nothing
is inserted without room for it. For this a module assumes that its bounds are natural
numbers, that there are prices, and that there is room for the row of the seed.

`MCNetwork` composes the four modules, and `NetworkInductive` lifts the proofs to it:
the module in focus keeps its inductive invariant, the others are as they began. From
that follow `NetworkIsTyped`, `NetworkKeepsItsPromises` (the five invariants of the
run at once) and `RefusalIsKeptInTheNetwork`.

## The back office (run `backoffice`)

* `Tasks`: templates, completions (unique by template, worker and date), and the two
  reports that are counted over several reads. `UncompleteUndoesWhatItRead`: a late
  undo never removes a later completion.
* `Layout`: editors load everything and save everything in one transaction
  (`Save`, a fold over the payload with the cascades of the schema), bookings of
  rooms, occupancy in two reads, availability of a day. A booking loses its room
  only if some save left the room out (`dropped`).
* `PlanPreview`: the function that draws the box around a plan, checked against
  every plan of up to three elements, in whole pixels: a point on a wall that is
  aslant is interpolated and rounded down. An opening with several spans is as many
  openings. Of walls and furniture the code drops those with a number that is not
  finite; a span is not looked at, and one without `fromPx` or `toPx`, on a wall that is
  shown, makes the whole box NaN: `BoundsCoverThePlan` says that this is the only way
  to lose it.
* `Reviews`, `PaymentCards`, `Settings`: values derived from rows in statements of
  their own. Two handlers at once, or one that dies, do leave an old rating, two
  default cards or a lost setting; the properties claim the rest, and `ratingRaced`,
  `cardsRaced` and `settingsRaced` say when two were in flight.
* `WorkerSchedule`: the functions of `worker-schedule.lib.ts` and
  `cafe-schedule.lib.ts` on days of six hours in weeks of two days, against
  `EffectiveSegments`, the shifts that cover an instant by definition; with night
  shifts, absences, opening hours that change, and the clock. Shifts are read on
  Moscow's clock and `isCafeOpenNow` on the server's (`cafe-open-status.lib.ts:32`,
  `:51`), `ServerOffset` ahead of it, an hour behind in the run: the cafe answers
  that it is open while the server's clock, not Moscow's, shows a time of the shift.
* `BrandReports`: the orders of a brand in a calendar of short months: every order
  is in one day and one month and the percentages add up, except on the days of a
  month on which `setMonth` overflows, where they do not.

`ReportsAddUp` and `DerivedDataAgrees` are conjunctions of one named part per module,
since each part is about its own focus. Two of everything and two handlers again
are every conflict; the clocks are short, with each kind of boundary (midnight, a
night shift, a short month) inside.

Proofs (`BackofficeProofs`), for any cafes, workers, handlers and bounds. The run
explores each component under a `focus` that bounds what its handlers do; a theorem
speaks of the component's whole next-state relation.

* Tasks: `LateUndoSpares`, `SummariesArePossible`, `StatisticsAlwaysAddUp`.
  `TasksIInv` says that a completion has an id of its own and a template that exists
  (templates are only switched off), that the handler of a summary has counted no
  more completions of a worker than templates it read for that worker, and that the
  rows the handler of the statistics holds are such completions. `TasksAssumption`
  says that an update never holds `isActive`, which `UpdateTaskTemplateDto` lacks.
* `SettingsAreKept`, `CardsHaveOneDefault`, `RatingsFollowReviews`: while no two
  handlers met and none died, the one in flight holds what the rows say, and its
  last statement brings rows and derived value together. A rating is a rounded mean
  of values from 0, as `create-review.dto.ts:40` allows.
* Layout: `BookingsStayInTheirRooms`: `LayoutIInv` is a predicate `Good` of the tables
  and the rooms dropped, and what every editor has loaded. Each statement of `Save`
  keeps `Good`, and so does the fold over the rooms of the payload, by the smallest
  prefix that would not. `OccupancyIsCounted`: the slots of the range are split by
  day and room, and `CountedByKey` (`FiniteSums`) says that what is counted by a key
  adds up.
* `PreviewsCoverThePlan`: the box of a plan is a fold over its elements of folds over
  their points. What such a fold computes is a function on the prefixes, the box
  only grows along it, so it holds each point that was pushed, and it is NaN after a
  prefix only if a point of the prefix is (`Breaks`), which only an opening's can be.
  A wall has a length in pixels since the largest number whose square fits exists
  (`RootIsThere`); of walls with one id the last counts, for openings as for the proof.
* Worker schedule: `ShiftsAreAsScheduled`: a template that was saved was checked
  against itself and against the opening hours it was shown; a day of the cafe has
  at most one segment and a segment is shorter than a day, so at an instant only the
  segments of three days can matter, and the cases of those are decided by linear
  arithmetic. The server's clock may be any number of minutes from Moscow's.

* Reports: `ReportsOfBrandsAddUp`. A year is the sum of its months, so the first days
  of the months grow strictly (`FirstDaysGrow`) and a date is in one month
  (`MonthUnique`); the days and months of a report are then disjoint, and together
  are the period. What is shown by day or cafe is a sum by key (`SumByKey`), and each
  percentage is off by at most half a hundredth, which a linear bound adds up over
  the items. Assumed are finitely many cafes and baskets, and a clock of naturals.

These are every part of `ReportsAddUp`, of `DerivedDataAgrees` and, with
`TasksAreTyped`, `LayoutIsTyped`, `SettingsAreTyped`, `CardsAreTyped`,
`ReviewsAreTyped` and `ShiftsAreTyped`, of `BackofficeTypeOK`. `BackofficeIInv` puts
them together for the composed specification of the run: the module in focus keeps
its invariant, and of the others stands what they began with. So
`BackofficeIsTyped`, `AllReportsAddUp` and `DerivedDataAlwaysAgrees` are theorems of
`BackofficeSpec`.

## What the model leaves alone

Fields that are only stored and shown, access checks that only refuse, paging and
search, DTOs, logging, signed links and localised messages change no state another
handler's decision depends on. Passwords, tokens and Keycloak's own sessions are
Keycloak's. Regions are rows edited in one statement.

Not modelled: storage (a wrapper of a client without state; the files beside rows
are the state of `Brands` and `OrderChat`), the cafe realtime gateway (pushes what
was already written, nothing reads it back), activity logs (append-only), health and
version (no state), seeds and migrations (development data, generated SQL), the
frontend stub (two static pages).

Out of the prover's reach: liveness under fairness, and induction over data, since
no prover here instantiates a theorem whose parameter is an operator. Folds over finite
sets and lists are reached another way, by a smallest counterexample among the
subsets of a finite set.

## Other disagreements seen while modelling

Without a run of their own, each at the code where it shows:

* Orders: `completeOrder` and `confirmOrder` of the worker panel look at the status
  and not at `paidAt`, where `docs/PROGRESS.md:605` restricts both to paid orders; a
  top-up never credits the balance, where `docs/PAYMENTS_ARCHITECTURE.md:187` says it
  does.
* Brands: on days 29 to 31, `getBrandOrdersAnalytics` repeats one of its "last 12
  months" and skips another; `getMyBrandReports` calls `getMyBrandStats` without the
  account it was asked for; `verifyBrand` lets an administrator of a suspended or
  rejected brand activate it again, and a suspension keeps `isVerified`; an order by
  distance treats a distance of 0 as unknown.
* Guests: `updateTier` can switch the default tier off; `deactivateTier` may move
  guests to the tier it switches off and writes no history; a phone changed while
  its code is confirmed is verified instead of the old one; the same phone written
  otherwise resets its verification; handing out a card brings a refused guest back.
* Accounts: a worker who signs in by `/auth/login` gets a user row, although
  `workers.service.ts` says one e-mail is for one account type; two first logins at
  once make two rows; deleting a user deletes the Keycloak account of a worker with
  the same one; an administrator's deletion of a user leaves it, and the next login
  makes a new user; a death between the account and its row blocks registration; a
  change of a worker's e-mail does not reach Keycloak.
* Tasks: `completionRate` can exceed 100; `completeTask` checks neither the weekday nor
  the cafe; `updateTemplate` can ask for specific workers and name none.
* Reviews: no operation verifies a review, so the first change by the API makes the
  rating 0 unless the seeds verified one; a deleted review blocks a new one of its
  order.
* Cards: the numbers of "mir" are taken by "mastercard"; two first cards at once are
  both default.
* Menu: an entry renamed to blanks is exported and then switched off by the import of
  its own export.
* Layout: a save that swaps the names of two rooms is refused; a stale editor's save
  deletes rooms it never saw; the preview's box ignores the rotation of furniture, and
  one span without its numbers makes it NaN.
* Chat: `UpdateChatSettingsDto` says "for this order", the switch is the cafe's;
  `notificationMode` of the cafe's settings routes nothing.
* Settings: two updates at once lose one of them, in any section.
* Schedule: a worker whose days are all closed has the cafe's hours; overlaps are
  checked within a weekday only; `isCafeOpenNow` looks at today's row only, in the
  server's time, where shifts are in Moscow's.
