# Formal models of the CRM backend

TLA+ models of the parts of this Django/DRF backend in which requests,
webhooks and scheduled tasks compete for the same rows, checked with TLC on
small instances and, for the properties that matter most, proved with TLAPS for
every value of the constants.

The backend serves many food businesses from one PostgreSQL database. Web
workers serve REST requests and the Stripe webhook; Celery Beat starts daily
tasks; files lie in S3-compatible object storage; mail goes through an external
provider. Nothing is shared between processes but the database. It runs at
READ COMMITTED, so what a handler may assume of a row depends on whether it
holds a lock, and this is what most of the models are about.

## 1. Inventory of the system

| Component | Source | State | Operations | What is hard | Model |
|---|---|---|---|---|---|
| Invoices, payments, refunds | `finance/services.py`, `models.py`, `views.py`, `tasks.py` | invoice status and total; payment and refund rows | create, edit, send, cancel, delete, record payment, record refund, daily overdue task | edit, send and cancel check an unlocked copy; payments and refunds lock; aggregates follow rows that a delete unlinks | `Invoicing` |
| Stock and its ledger | `inventory/` | `current_quantity`, ledger rows | `adjust_stock`, generic create, update and delete | full-column saves of stale rows next to locked adjustments; cascade to the ledger | `Inventory` |
| Loyalty points and orders | `loyalty/services.py`, `tasks.py` | points, tier, ledger rows, orders, thresholds | award, redeem, order, cancel, convert, expire | expiry lists first and expires later, one transaction per grant; runs overlap or die; two compensations of one grant | `Loyalty` |
| Gift cards | `loyalty/services.py`, `views.py` | balance, ledger rows, `sent_at` | sell, reload, redeem, generic update, send by mail | mail and database are not one transaction; full-column saves | `GiftCards` |
| Documents and storage | `documents/services.py`, `storage.py` | row status, stored objects | upload, delete | three separate commits and a storage call that fails, loses its answer or outlives its worker | `Documents` |
| Subscription lifecycle | `finance/webhooks.py`, `core/tasks.py`, `core/models.py` | the Business row, recorded events | webhook handlers, `check_expired_trials` | redelivery, reordering and concurrency of events; a task of three statements, each seeing new commits | `Subscription` |
| Bills | `finance/services.py`, `tasks.py` | bill status, total and payments | create, edit, receive, cancel, delete, pay, daily overdue task | every race of invoices again, in code of its own | `Bills` |
| Estimates and numbering | `finance/services.py`, `views.py` | estimates, invoices made from them, a counter per kind | create, edit, send, accept, convert, delete | a creation that fails after it took a number; conversions and edits that race | `Billing` |
| Tax and totals | `finance/tax.py` | none | `calculate_totals` | five amounts rounded one by one | `Totals` |
| Recurring expansion | `core/recurrence.py`, `finance/recurring.py`, `employees/scheduling.py` | rules, and the shifts, invoices and bills they generate | daily runs, edits of rules and of what they made | runs that overlap, die or are aborted by one rule; months of different length; shifts that were moved | `Recurrence`, `Recurring` |
| Reservations and waitlist | `reservations/` | tables, reservations, waitlist entries | book, convert, staff create/update/delete, transitions, offered times | bookings lock tables, staff lock nothing; two ways to ask whether a table is free | `Reservations`, `Availability` |
| Time tracking | `employees/services.py`, `signals.py` | time entries, breaks, geofence log | clock in and out, breaks, deactivation | creation races with no row to lock; requests let in before a deactivation | `TimeClock`, `Membership` |
| Shifts, swaps, time off | `employees/services.py`, `views.py` | holder of a shift, swap and time-off requests | request, approve, deny, cancel; managers' edits | check and create without a lock; full-column saves of shifts | `Shifts`, `Membership` |
| Payroll | `employees/payroll.py` | pay stubs | hours of a period, split at the weekly threshold | entries still open, weeks cut by a period | `Payroll`, `TimeClock` |
| Tenant permissions | `core/permissions.py`, `core/models.py` | memberships | the check at the head of a request; deactivation in two steps | a request admitted before and served after | `Membership` (in part) |
| Business settings and logo | `settings/` | profile, logo document | replace logo | three stores, no transaction | planned |
| Bank transactions and reports | `finance/reports.py`, `services.py` | a reconciliation flag | reads; set the flag | a stale `PUT` can clear the flag, nothing follows from it | not modelled |
| Marketing, customers, authentication, configuration | `marketing/`, `customers/`, `authentication/`, `config/` | plain rows | CRUD, reads, wiring | little: no state machine | not modelled |

How they interact. Orders of the loyalty component become invoices
(`convert_order_to_invoice`), estimates too, and recurring rules make invoices,
bills and shifts; invoices and estimates draw their numbers from one sequence
table; a deactivated membership reaches into time entries, swaps and time off;
pay stubs read time entries; documents are used by the settings component for
the logo; `Business.is_active`, which webhook and trial task write, is what the
permission layer reads on each request. Everything else shares only the database
and the tenant key. The modules compose where the code does: `Availability`
extends `Reservations`, `TimeClock` extends `Membership` and `Payroll`, `Shifts`
extends `Membership`, `Recurring` extends `Recurrence`, `Billing` extends
`Totals`; `Bills` and the ledger components are mapped to abstract
specifications.

`PROJECT.json` lists each component with its sources under `components`, and
under `hazards` what is hard to test in this code, at the line where it bites.

## 2. How the code is translated

* A service that takes `select_for_update` and checks **after** the lock is one
  atomic action, whoever calls it.
* A handler that fetches a row, checks that copy and writes later is **two**
  actions, `Begin...` (fetch and check) and `Finish...` (write), and anything may
  happen in between. The `request` variable of a module holds what each worker
  is in the middle of. More workers mean more overlap; `Workers` with one
  element is the system in which requests never overlap. (Where modules are proved
  about together their names differ: `BillWorkers`, `FileWorkers`, `ClockWorkers`
  and `CeleryWorkers`; `billRequest`, `serving`.)
* The generic `PUT`/`PATCH` of a viewset saves **every column** of the fetched
  instance, read-only ones included, as they were when fetched.
  `save(update_fields=...)` writes those columns of the row as it is now.
* `save()` without `update_fields` inserts the row if it has gone;
  `save(update_fields=...)` raises then.
* A bulk `.update()` is one atomic statement.
* A rejected request (400, 404, 409) changes nothing and is a disabled action.
* A transaction that keeps a row locked between two statements is two actions
  only where something unlocked may land in between (a booking and the insert of
  its reservation, a number taken and the insert of its document); the lock is
  then part of the state.
* Money, stock and points are small integers, rounding is kept where a property
  is about it (`Totals`, `Payroll`: integers in units fine enough for every exact
  value); times and dates are small naturals; numbers, names and descriptions are
  left out.

History variables, which no guard reads, record why the state is what it is:
`lateEdits`, `lateSaves`, `staleWrites`, `lostAnswers`, `earlyRemovals`,
`overtaken`, `raced`, `restored`, `origin`, `late`, `abandoned`, `disturbed`,
`undone`. They let a property say exactly **where** an intended invariant may
fail: "quantity and ledger agree unless a stale update overwrote this item" is
true of the code for any number of workers, while "quantity and ledger agree" is
not.

## 3. Modules

`X` is a component, `MCX` instantiates it for TLC. The theorems are in the modules
`...Proofs`, which join components where they are alike or meet:

| Proof module | About |
|---|---|
| `Sums` | sums over finite sets, used by two of the others |
| `InvoicingProofs`, `InventoryProofs`, `GiftCardsProofs` | the component they name |
| `SalesProofs` | `Billing` with `Totals`, `Loyalty`, `Bills`: what surrounds an invoice |
| `ExternalsProofs` | `Subscription` and `Documents`: what depends on Stripe and on object storage |
| `ReservationsProofs` | `Reservations` and `Availability` |
| `EmployeesProofs` | `Shifts`, `TimeClock` with `Payroll`, `Recurring` with `Recurrence` |

Modules that are proved about together share no names, so that the specification of
the second and third is `BillingSpec`, `BillsSpec`, `FilesSpec` (of `Documents`), `ClockSpec`
(of `TimeClock`) or `RecurringSpec`, with `BillingInit`, `BillingNext` and so on.

### Invoicing

`status` is `Invoice.status`, with `absent` and `deleted` for no row. `payments`
are the payment rows, each with the sum of its refunds; `paidTotal` and
`refundedTotal` are the aggregates that `paid_total` and `refunded_total` compute.
`CreateInvoice`, `DestroyInvoice`, `RecordPayment`, `RecordRefund` and
`MarkOverdueInvoices` are atomic. `BeginSend/FinishSend`, `BeginCancel/FinishCancel`
and `BeginEdit/FinishEdit` are the services that trust the fetched row;
`update_invoice` does lock, but checks the status on the copy it got before.
`DueDatePasses` is the calendar.

### Inventory, GiftCards, Loyalty and LedgerAccount

`LedgerAccount` is the abstract specification the three share: an account opens
with a balance, every later change of the balance comes with a ledger entry of
the same amount, and no change makes it negative. Each component is shown to
implement it (`KeepsLedger`), under the refinement mapping in its module.

* `Inventory`: `quantity` is the row, `posted` and `entries` the ledger's sum
  and length. `AdjustStock` is `adjust_stock` as a whole. `BeginUpdate` and
  `FinishUpdate` are the generic update. `DestroyItem` drops the ledger with the
  row, as the cascade does. A stale update ends the abstract account: what
  comes after is no longer vouched for.
* `GiftCards`: the same for a card, with expiry (`Tick`), deactivation, and the
  mail: `Begin` with `send`, `Deliver` or `DeliverFails`, `FinishSend`.
* `Loyalty`: `account` are the account rows, `grant` the ledger rows that earn
  points, `taken` what expiration and reversal took of each grant, `order` the
  orders. Requests are atomic here (each locks and then reads). `BeginExpiry`
  evaluates the task's query, `ExpireGrant` handles one grant in a
  transaction of its own, guarded by the unique constraint alone, and `KillRun`
  ends a run half-way.

### Documents

`status` is the row, `stored` the bucket, and `serving` the next call of each
worker: upload is row, `put_object`, mark; delete is `delete_object`, row. Each
call may fail, take effect and lose its answer (`PutFails`, `RemoveFails`), and
the worker may be killed before any of them (`Kill`). A storage call that was given
up, by a failure or a kill, may be on its way still (`late`) and land at any later
time, after other requests for the same document (`PutLands`, `RemoveLands`).

### Subscription

Stripe is external, and as wide as the handlers leave it: `stripe` are the statuses
of the business's subscriptions in the order they were opened, several of them live at
once and each changed at any time, `sent` the events in the order they were made. A
subscription opens with any of `OpeningStatus`, so the "active" that the checkout
handler writes (`webhooks.py:134`) may be wrong from the start. A checkout may be a single
payment without a subscription. An invoice that is paid says nothing of any
subscription, since the handler looks its business up by customer alone
(`webhooks.py:167`): whether one becomes active with it is an event of its own, which
may have come before or never come. `assumed` remembers that the status shown is the
"active" of one of these two handlers, and not what Stripe has told.

`Begin(w, e)` is a delivery to a worker: it may repeat
and come in any order; the insert of the event's row waits for another worker
that has inserted the same event (`Insertable`). `Finish` commits the handler's
write together with the record, `Abort` rolls both back. `Expire`, `Reactivate`
and `Deactivate` are the three statements of `check_expired_trials`; a statement
that matches holds the row's lock until the commit, and thus stands for the rest
of the run. `KillTask` is a run that dies.

### Bills

`bills` and `payments` are the rows; `BeginBill` is a view fetching a bill,
`UpdateBill`, `ReceiveBill`, `CancelBill` and `DestroyBill` what it does with that
copy, `RecordBillPayment` the one service that locks first. `AsInvoice` is an
`INSTANCE` of `Invoicing` under the mapping "received is sent, nothing is
refunded", and `MirrorsInvoice` says that bills implement it, fairness included.

### Billing and Totals

`Totals` is `calculate_totals`, on integers. In `Billing` an estimate or an invoice
carries its lines (`content`) and the amounts stored with them; `nextNumber` are
the sequence rows. Taking a number locks its row (`HeldByAnother`) until the insert
commits or the transaction rolls back, which gives the number back.
A conversion is four steps: `Begin` (the view fetches the estimate), `LockEstimate` (lock
and check again), `NumberConversion` and `ConvertEstimate`.

### Recurrence and Recurring

`Recurrence` is the date stepping of `core/recurrence.py`: `OccurrenceDates` steps as
the code does, `Due` is the reference (a date of the right weekday, phase or day
of the month, within the rule), and `RunCoversWindow` compares the two over every
window a run meets. `Recurring` has `rules`, the `rows` made of them and `runs`, a
run being what it read at its start and where it is. Looking for a row (`LookUp`)
and inserting it (`Create`) are two steps; the constraint refuses the second of
two inserts. Managers edit, stop and delete rules, delete rows, and move shifts.

### Reservations and Availability

`capacity` is a table's (0 while inactive), `rows` the reservations, `entries` the
waitlist, `request` what each worker is serving. `AssignTable` is the body shared by
`book_reservation` and `convert_waitlist_entry` up to its choice of a table, and
keeps the candidates locked until `CommitBooking` inserts. `BeginCreate`,
`BeginUpdate` and `BeginTransition` are the checks of the staff's viewset,
`FinishWrite` and `FinishTransition` the writes. `raced` holds the reservations last
written by a request that something had overtaken. `Availability` adds
`get_available_slots` as a definition over the states of `Reservations`, and
compares it with what a booking would accept.

### Membership, TimeClock and Payroll

`Membership` is the permission check, the save that deactivates and the handler
that resolves what is left dangling: two steps, the second lost for good by a
crash in between. `TimeClock` has `entries` with their breaks, the geofence `logs`
and the `stubs`; the services lock and are one action each, but the request was
let in earlier (`admitted`). `Payroll` is the arithmetic of a stub.

### Shifts

`holder` is who works a shift, `swaps` and `leaves` are the requests. Decisions lock
the request and are one action; `BeginRequestSwap/FinishRequestSwap` and the manager's edit
of a shift are two. `disturbed` holds the swaps that were created past their check
or whose shift was reassigned since.

## 4. Runs

Deadlock checking is off where the bounds or the final states of rows
(cancelled invoices, deleted documents, the end of time) let the system stop; it is
on for `Subscription`, `Reservations`, `Shifts`, `Billing` and `Recurring`, where
there is always another step.

| Run | Instance | Asks |
|---|---|---|
| `Invoicing` | 1 invoice, 3 payment rows, 3 workers, totals 0, 2, 3, amounts 1, 2 | Do refunds, payments and totals agree, and does only a refund undo "paid", however edits, sends and cancellations overlap? Is every sent invoice past its date flagged? |
| `Inventory` | 1 item, 3 workers, column up to 3, 3 ledger entries | Is stock never negative, and does it follow its ledger until a stale update? |
| `Loyalty` | 1 account, 2 grants, 1 order, 2 overlapping runs of the task, 1 crash, 2 sets of thresholds | Is nothing taken twice, the tier that of the points and thresholds at the last change, an order billed once? Is every due grant expired in the end? Is every step one of the abstract ledger? |
| `GiftCards` | 1 card, 2 workers, column up to 2, 3 ledger entries | Is no card overdrawn, none marked sent that was not mailed, and does the balance follow its ledger until a stale update? |
| `Documents` | 2 documents, 3 workers | Which files lose their row, which rows their file, when calls fail, are cut off or land late? |
| `Subscription` | 2 workers, 1 customer, 2 subscriptions, 3 events | Exactly once, what the row shows of Stripe, lock-out for a reason only, of a legacy business by its trial only, and liveness of access. |
| `Bills` | as `Invoicing` | Is every behaviour of bills one of invoices? |
| `Billing` | 1 estimate, 3 invoices, 2 workers, 2 sets of lines, 3 discounts, a rate of 14.975 % | Are numbers consecutive and unique, an estimate billed once and as quoted, and do rounded amounts add up? |
| `Recurring` | 1 rule at a time of 4 kinds, 2 runs, a window of 4 dates that moves on by one day, weeks of 2 days, months of 2, 1 and 3 days | One row for each occurrence? Does a run leave a complete window behind? |
| `Reservations` | 1 table, 2 reservations, 1 waitlist entry, 2 workers, 2 start times, buffers and settings for the offered times | Is no table held twice, no entry converted twice, nothing revived, unless a request was overtaken? Are the offered times those that can be booked? |
| `TimeClock` | 1 member, 2 entries, 1 worker, 5 instants, a period of 4 days in 2 weeks | Is nobody on the clock after their deactivation, does a stub stay true, what does cutting a week change? |
| `Shifts` | 2 members, 1 shift, 2 swaps, 1 time-off request, 2 workers | Whose shift does a pending swap give away, and what is pending for somebody who has left? |

The larger runs have 1.5 million (`Reservations`), 0.8 million (`Subscription`), 0.7
million (`TimeClock`) and 0.6 million (`Shifts`) distinct states.

Every property of these runs has a mutant in `PROJECT.json`: a plausible bug of a
mapped definition (dropped guard, stale sum, swapped order) with which TLC finds
that property violated. The faulty variants stand next to the definitions they
replace and are marked as such.

**Why these bounds.** Rows of different items, cards, invoices and businesses
meet in no statement of the modelled services except the two bulk ones (the
overdue task and the expiry query), so one row with as many workers as can
disturb each other is the interesting case: two workers for a lost update, three
for one that is lost while a third has checked. Three payments are the least for
"pay, refund, pay again"; amounts 1 and 2 against totals 2 and 3 give exact,
partial and excess payments, and total 0 the empty invoice. Two grants and two
runs are the least for runs that disagree about what is left. In `Subscription` three
events are the least for a subscription to be opened, and changed or followed by a
second one, with an event after that which arrives early, late or in parallel; a
subscription opens as "trialing" or "active", and becomes past due or unpaid by an
update. A second customer would only add events that find no business; the
theorems cover any number of customers, subscriptions and events, and any
`OpeningStatus`. Two staff requests, or one and a booking, are the least to hold a table twice, and
two reservations on one table suffice for it; which of several tables is chosen is
the order of names and capacities, which the theorems cover for any number. The
months of `Recurring` include one too short for the rule; a window longer than a
month makes runs overlap. One worker is enough in `TimeClock` because its services
lock before they look: what may come in between is the deactivation, which is an
actor of its own, and the requests admitted before it. `MaxEntries`, `MaxCrashes`,
`MaxSubs`, `MaxEvents`, `Horizon`, `MaxTime`, `LastDay` and the width of a column are
the only bounds in guards (the columns are bounded in the code too); each is named
in its module.

`SYMMETRY` is used where no liveness is checked and nothing orders the values.
`VIEW` merges states that differ only in what no guard and no property of the
run looks at; `MCReservations`, `MCShifts` and `MCTimeClock` say what that is. The
`CONSTRAINT WaitlistAtZero` keeps the waitlist apart from different start times: a
conversion chooses its table as a booking does, so that the two start times need
to meet without a waitlist only.

**Fairness.** `Invoicing`: weak fairness of the overdue task, which Celery Beat
starts every day. `Loyalty`: weak fairness of starting the expiry task and of each
grant on a run's list; a killed run makes `ExpireGrant` disabled and is followed
by a new run, and the number of crashes is bounded. `Subscription`: weak fairness
of a run's first statement, strong fairness of the other two, since a run may die
before it reaches them, but not every run does. `Bills`: as `Invoicing`. No fairness is assumed of
requests, customers, Stripe or deliveries.

### Where the code and what is said of it disagree

These definitions state a sentence of a docstring, a comment or a message. The
code does not keep it; they are no run's property. With the name in the
configuration (`INVARIANT` for a state predicate, `PROPERTY` for `[][...]_vars`) TLC
finds the counterexample.

| Definition | Sentence | What happens |
|---|---|---|
| `Invoicing!PaidNeverCancelled` | "Cannot cancel a fully paid invoice." | the check is on an unlocked copy; a payment in between is lost under the cancellation |
| `Invoicing!OnlyDraftsAreEdited`, `NoOverpayment` | "Only a draft invoice can be edited" | the status is checked before the lock; an edit lands on a paid invoice |
| `Invoicing!OutstandingIsPayable` | after a partial refund the invoice is in "the same state it would be in had it never been fully paid" | payments are compared gross: the balance can never be paid again |
| `Loyalty!TierKeptBySpending` | "tier never drops just because points were spent" | the tier is recomputed against thresholds that may have been raised |
| `GiftCards!BalanceOnlyByLedger` | "balances only via reload/redeem" | a `PATCH` of a stale row restores a spent balance |
| `Documents!NoOrphan` | "no possible orphan" | a delete overtakes the upload of the same document, in its worker or on its way to storage |
| `Subscription!MirrorsStripeStatus` | "Mirrors the Stripe subscription status string." (`core/models.py:48`) | a checkout writes "active" for a subscription that is trialing; a paid invoice of another subscription, or of none, turns "past_due" into "active" |
| `Subscription!LegacyStaysActive` | "Grandfathered accounts that never expire" | the first statement of the task has no `is_legacy` filter |
| `Billing!FailureLeavesGap` | a failed creation leaves a number that "never gets used" (`finance/models.py:123`) | the counter is rolled back with the creation, and the number is used next |
| `Recurring!OneShiftPerOccurrence` | expanding again for a date that already has a shift is a no-op | a shift is found by its start: once moved, its occurrence is made again |
| `Shifts!TargetMustMatch` | a target chosen on approval must match the request's (`employees/services.py:286`) | a target given on approval replaces the one of the request |

The passing properties that carry an exception say where else the code is weaker
than its comments:

* `OverpaidOnlyByLateEdit`, `CancelledIsFinal`: "can be sent" holds of the fetched
  copy only (`finance/services.py:196`).
* `PaidIsCovered` speaks of gross payments: an invoice refunded in part before
  its last payment becomes paid although its net payments are below its
  total.
* `Inventory!KeepsLedger`, `GiftCards!KeepsLedger`: "the two can never disagree"
  (`inventory/services.py:9-13`) does not hold against the generic update, which ends
  the abstract account (`DriftOnlyByStaleUpdate` is the same for a single state).
  `sent_at` of a gift card can be cleared the same way.
* `OrphanOnlyByEarlyRemoval`: besides the delete that overtakes an upload, a
  `failed` row may have its object if the answer of `put_object` was lost or the call
  landed after it was given up ("there is no file in storage for this key at all",
  `documents/services.py:23-24`). Such a call may land after the row has been deleted
  as well.
* `MirrorsUnlessOvertaken`: the status shown is Stripe's only if no event was
  handled before an earlier one, and only once Stripe has told it: until an update or a
  deletion comes, it may be the "active" that a handler takes for granted.
* `LegacyLockedOutByTrialOnly`: a legacy business is locked out when its trial expires
  (the disagreement `LegacyStaysActive`); besides, the deletion handler writes back the
  `is_active` it has read, and so the lock-out over a reactivation in between
  (`finance/webhooks.py:160`).
* `NoDoubleBooking`, `OverUnlessOvertaken`, `ConvertedOnce`: bookings and conversions
  keep the docstring's promise (`reservations/services.py:16-19`), but `table` is
  writable in the staff's serializer, whose check nothing protects: two staff
  writes, or one next to a booking, hold a table twice; a cancelled reservation
  can be seated again; a stale edit of an entry lets it be converted again.
* `InactiveNotWorking`, `DeactivatedHasNothingPending`: a request that the permission
  check let in before the deactivation may open a time entry or a swap after
  the handler has cleared them.
* `SwapTakesFromRequester`: approval does not look whose shift it is by then.
* `SplitNeverAddsOvertime`: a week split between two periods is assessed twice, so
  that paying it in parts can lose overtime, never add it.
* `OccurrenceOnce`, `RunCoversWindow`: a shift moved by a manager blocks the
  occurrence it was moved to and frees its own; a row deleted while its date
  is in the window is made again by the next run.

### Seen while modelling

What the translation brought up and no property is about:

* An invoice whose total is zero can be sent but never paid (`finance/services.py:244`).
  Deleting an item deletes its "append-only" ledger (`inventory/models.py:124`). Any
  paid invoice of its customer reactivates a business whose subscription was deleted or
  is unpaid (`finance/webhooks.py:174`).
* Creating an estimate or invoice without `line_items` ends in a `KeyError`. A price with more
  than two decimals makes the stored total differ from that of the stored lines. A
  discount may be negative. `InvoiceTemplate` is never applied.
* `end_time` of a reservation is computed for new rows only: moving its start leaves
  the old end, and fails if that is earlier (`reservations/serializers.py:240` says
  that `save()` always computes it). The offered times ignore the largest party
  size, a booking ignores the opening hours. Of the statuses of a waitlist entry
  `seated`, `expired` and `cancelled` are never reached.
* Clocking out leaves an open break open, and it is never deducted. Pay stubs of
  overlapping periods pay an entry twice; one made before its period has ended
  leaves the rest of it out.
* One malformed preset aborts a document run for all rules after it; deleting a
  schedule under a run aborts the shift run, while the document run skips it. The
  schedules of a deactivated member are still expanded.
* A swap's target may be inactive; a manager's stale edit of a shift writes back its
  old holder, or inserts a deleted shift again.

## 5. Theorems

Eight proof modules, checked to the last leaf. No bound on workers, rows, tables,
members, events, runs, lines or amounts is assumed beyond the named `ASSUME`s on the
constants:

* amounts of money that are paid, totals, times, dates and buffers are natural
  numbers, durations and units positive; prices and fixed discounts are integers of
  either sign (`ContentsAssumption`), since the serializers set them no least value;
* null values are not rows, and keys of different tables differ;
* `IsFiniteSet(Payments)`, `IsFiniteSet(Entries)` (`PaymentsAssumption`,
  `EntryAssumption`): what is summed up is finite. Nothing else needs finiteness;
* the calendar of `Recurrence` is a finite sequence of months, each at least a day
  long, that reaches beyond the last window (`DatesAssumption`, `WindowAssumption`), and
  a rule for documents has no time of day and the weekday of its start
  (`InputAssumption`), which is how `recurring.py` builds the preset;
* opening hours are those the serializer accepts (`HoursAssumption`);
* a subscription opens with a status of Stripe's that is not "canceled"
  (`OpeningAssumption`).

| Theorem | States |
|---|---|
| `TypeCorrect` of each module, `BillingTypeCorrect`, `BillsTypeCorrect`, `FilesTypeCorrect`, `ClockTypeCorrect`, `RecurringTypeCorrect` | the type invariant of each component |
| `InvoicingProofs!MoneyInvariant` | refunds within payments, no money before an invoice is sent, overpaid only by a late edit, paid is covered |
| `InvoicingProofs!SettledInvoicesStay` | `PaidLeftOnlyByRefund` and `CancelledIsFinal` |
| `InvoicingProofs!SingleWorkerNeverOverpays` | with one worker payments never exceed the total |
| `InventoryProofs!StockInvariant`, `StockKeepsLedger` | stock never negative, drift only by a stale update; refinement of `LedgerAccount` |
| `GiftCardsProofs!CardInvariant`, `CardsKeepLedger` | no overdraft, sent was delivered, drift only by a stale update; refinement of `LedgerAccount` |
| `SalesProofs!NumbersWithoutGap` | the numbers given are those before the counter, each once |
| `SalesProofs!EstimateConvertedOnce`, `InvoiceIsTheQuote` | one invoice per estimate, with the lines and totals it shows |
| `SalesProofs!TotalsAlwaysAddUp` | rounded amounts add up to within a cent, for all lines, discounts and rates |
| `SalesProofs!NeverOverdrawn`, `PointsKeepLedger` | points never negative, grants never over-taken; refinement of `LedgerAccount` |
| `SalesProofs!OrdersBilledOnce`, `TierIsCached` | at most one live invoice for an order; the tier changes with the points only, to what the thresholds of the moment give |
| `SalesProofs!BillsMirrorInvoices` | bills implement `Invoicing!Spec` |
| `ExternalsProofs!FilesAccountedFor`, `SerialNoOrphan` | where orphans come from, uploaded files are there; with one worker, whose uploads land while it waits or never, there are no orphans |
| `ExternalsProofs!EventsAppliedOnce`, `PayingKeepAccess` | exactly once and lock-out for a reason; no step takes access from a paying business |
| `ExternalsProofs!LegacyKeepAccess` | a legacy business loses access when its trial expires, or to a deletion that had read it without |
| `ExternalsProofs!MirrorsStripe` | with every event handled and none overtaken, the row is linked to the latest subscription and shows its status, or an "active" that a handler assumed |
| `ReservationsProofs!NoTableHeldTwice` | no table is held twice unless by an overtaken staff request |
| `ReservationsProofs!OverStaysOver`, `OneReservationPerEntry` | what is over comes back only by an overtaken request; one reservation per waitlist entry |
| `ReservationsProofs!OfferIsBookable` | the times offered are those a booking accepts |
| `EmployeesProofs!NothingPendingAfterDeactivation` | what is pending for a deactivated member was asked for late |
| `EmployeesProofs!SwapsAreTheRequesters` | a pending swap gives away its requester's shift, and is the only one to do so |
| `EmployeesProofs!DeactivatedOffTheClock`, `StubsPayWhatWasWorked` | a deactivated member is off the clock but for a late clock-in; a stub stays true |
| `EmployeesProofs!SplittingAddsNoOvertime` | two stubs for parts of a period pay no more overtime than one, but for rounding |
| `EmployeesProofs!ExpandsTheDue` | the date stepping finds exactly the due dates of a window |
| `EmployeesProofs!OneRowPerOccurrence`, `WindowsAreCovered` | no occurrence twice; what a run has gone past is there |

The arguments:

* **Invoicing.** `MoneyInv` is inductive: `UnsentHasNoMoney` is what makes an edit
  of a draft harmless to `OverpaidOnlyByLateEdit`, and `OverpaidOnlyByLateEdit`
  turns "at least the total" into "exactly" in `PaidIsCovered`. `StatusMove` lists
  the moves of `status` each action can make; `SettledInvoicesStay` reads off it.
  For one worker, `SerialInv` says an invoice under edit is still a draft.
* **Bills.** `AsInvoice` sums the payments of a bill with the fold of the code's
  `aggregate`; `PaidIsSum` makes that the sum of `Sums`, `PaymentAdds` and `PaidSame` say
  what a payment adds and what everything else leaves alone. Then each action maps
  to the action of an invoice (`WritesMap`, `BeginMaps`, `SavesMap`, `DestroyMaps`,
  `PaymentMaps`, `CalendarMaps`); a write to a bill that has gone fails as one to an
  invoice does (`FailureMaps`).
* **Inventory, GiftCards.** What is true of rows in the table must be true of the
  rows fetched, since any of them may be saved later (`Carried`, the second
  half of `NeverNegative`); a key that was never given out has no ledger and no
  stale write (`FreshKeys`, `StaleIsIssued`), so creating a row opens an account.
  In the refinement a stale update closes the account, and any other update is
  a stutter because it writes the value that is there.
* **Loyalty.** `Balanced` (balance equals the posted sum), `Granted` (a referred-to
  grant belongs to an account that exists), `NotYetTaken` (nothing is
  taken of a grant before its expiration or reversal) and `Referenced` (an order refers
  to an invoice exactly while the one made from it exists) strengthen the property;
  `TakenBackBound` is the clamp. `TierIsCached` rests on the same invariant, for the
  account of a grant: `DebitCached`, `AwardCached` and `TakeBackCached` follow the tier
  through each of the three ways to move points.
* **Billing.** `Numbers` says that the rows of a kind have the numbers before the
  counter, each once; `Steps` that a number in hand is the counter's, and what
  else a request holds at its step; `Alone` that no two requests hold the same
  counter or the same estimate; `LockedIsOpen` that nothing happens to an estimate
  while it is locked; `Rows` that an estimate that may be converted has no invoice
  yet and that amounts are those of the lines they are stored with.
* **Totals.** A sum of whole cents over the lines is whole (`SubtotalIsWhole`, by
  induction over the lines as a set of numbers), rounding moves an amount by half a
  cent at most (`Rounded`), keeps order, and commutes with adding whole cents.
* **Documents.** `OneUploader` (one request uploads a document), `UploadInOrder`
  (what an uploader's next call says of row and bucket), `LateInOrder` (no call is late
  before its row is written, nor a put before it is made), and `RemovedBeforeTheRow`:
  once a delete is past storage, no upload is left that could bring the file back, be it
  in a worker or on its way, unless the history says so. `SerialNoOrphan` needs its
  assumption `NoLatePut`: a put that is given up by a killed worker and lands after a
  later delete leaves a file without a row even if there is only one worker.
* **Subscription.** `OneServer` (at most one worker serves an event, and none a
  recorded one) makes `ExactlyOnce` inductive; `ServedProperly` and `SentProperly`
  are what a handler may rely on. `ReadForAReason` says of the rows read what
  `LockedOutForAReason` says of the row, since a deletion writes back what it read;
  `LegacyKeepAccess` rests on what each handler (`FinishSaves`) and each statement of
  the task (`TaskWrites`) does with `is_active`. `Mirrored` carries `MirrorsStripe`. A
  view is what the row shows of Stripe: subscription, customer, status, and whether that
  is assumed; it is `Right` if it names the latest subscription with the status Stripe
  has for it, or with an assumed "active". There is a sequence of views, each made of the
  one before by the next event sent, that ends in a right one (`Told`), which is proved
  step by step of Stripe (`StripeTells`); and while nothing is overtaken the row shows
  the view after as many events as are recorded, which are the first ones sent
  (`Follows`). With all of them recorded that is the last view.
* **Reservations.** `NoDoubleBooking` alone is not inductive: a step that writes a
  row relies on what it saw earlier. `ChoiceHolds` says that a booking's choice is
  clear of every reservation not in `raced`, and `LocksApart` that no other booking
  can have chosen the same table, which is what the table lock is for. `CheckHolds`
  says that a staff check stays true while it is `fresh`. `OverlapIsNear` joins the
  two overlap tests, with and without a buffer. `Owns` (a request for a new row has
  its key to itself; a fresh update repeats the status) carries `OverStaysOver`,
  `Converts` (a conversion holds the entry's lock while the entry is waiting)
  carries `OneReservationPerEntry`.
* **Availability.** `FetchedSuffices`: the day's query misses no reservation that can
  meet a time on the grid, so that both ways of asking see the same rows.
* **Shifts.** `SwapTakesFromRequester` is strengthened by `CheckHolds` (what a swap
  request about to be created has checked is true, unless it has been overtaken)
  and `GivesOwnShift`.
* **TimeClock and Payroll.** `ClockInv` adds the order of times to the two properties:
  an entry, its break and its end lie in order and not after `now`, and a stub not
  either (`RowsInOrder`, `StubsInOrder`). Closed rows are not touched again
  (`RowsKept`), so the sums of a stub stay. Regular hours and overtime are
  sums over weeks (`RegularIsSum`, `OvertimeIsSum`); the parts of a period share at
  most one week, and in every other week they pay what the whole does
  (`OneWeekDiffers`).
* **Recurrence.** Stepping by a divisor from an anchor meets exactly the days
  congruent to it (`SteppedFrom`, `DueInSteps`); months are told apart by their starts
  (`InOneMonth`, `TheMonth`), and a month too short for the rule has no due day.
* **Recurring.** `StartsApart` (a rule's rows of a kind start apart) is what the
  constraints keep, `RowsAsMade` that only a shift moves from where it was made; `RunsInOrder` ties a run's position to
  the dates it has read; `Covered` says that each due date behind that position is
  `Accounted` for, by a row or by a manager's edit, and `StillAccounted` that no step
  takes that back.
* **Sums.** The library's induction theorems take an operator, which the provers
  cannot instantiate. `AllNumbers` is induction for a **set** of numbers, from the
  existence of a least element; with it a sum over a finite set (`SumOver`) is shown
  to exist, to be unique whichever element is taken first, and to add up over parts.

Only model-checked: the liveness properties (`PastDueIsFlagged`, `DueGrantsExpire`,
`PayingIsReactivated`, `LapsedIsLockedOut`) and the fairness in `MirrorsInvoice`, which
the prover does not reach.

Two habits of the modules come from the proofs: a step writes a row with one record
(`[bills EXCEPT ![b] = ...]`) and not field by field with repeated `EXCEPT`s of one
index, and `@` is not nested, because the backends do not normalise either; and what is
summed is a `MapThenSumSet` over a set of keys, which `Sums` can speak of.

## 6. What the models leave out

Number formats and text, pagination, roles and invitations, currency (all amounts
of a business are in one), Stripe's API calls and signature check, the content of
mails and files, distances (a place is inside a fence or not), floor plans,
placeholder taxes of pay stubs, and multi-row effects of plain CRUD.
Administrators who edit rows directly are not modelled, except that `is_legacy` is
whatever they have set. A subscription that the business was linked to by hand, and not by
a checkout, is not in `stripe`. Redelivery of an event that is already recorded changes
nothing and is left out as a step. Two reads that follow one another are one instant in
two places: the handler of a deactivation takes the time (`employees/services.py:376`)
just before it locks the open entries (`:383`), so that an entry or a break begun in
that moment, while the handler waits for the lock at most, is closed with a time that
lies as much before its start;
and `BeginRequestSwap` reads the shift and the
pending requests together, where what comes between the two would put the swap into
`disturbed` anyway.

**Not modelled.** Bank transactions, reports, marketing, customers and vendors:
rows without rules or reads. Authentication and configuration: a library and
wiring. Business settings: planned below.

## 7. Plan

Twelve runs and eight proof modules are in place, and every invariant and every
action property of a run is a theorem. What would deepen them:

1. The logo of `settings/services.py` as a client of `Documents`: a profile that names
   a document while it is replaced.
2. Roles and invitations in `Membership`.
3. The theorems of `InvoicingProofs` restated for bills: they hold through
   `BillsMirrorInvoices`, and say of payments to vendors what they say of customers'.
