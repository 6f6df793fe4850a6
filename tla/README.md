# Eventsli: a verification project

Eventsli sells seats, tables and general tickets for events: an Express API
(`backend/`), a Next.js front end (`frontend/`) and a Postgres database whose
functions (`supabase/migrations/`) hold the rules that must not race. This
directory holds TLA+ models of the parts where orders of events matter, the TLC
configurations that check them on small instances, and TLAPS proofs of the
results that should hold on every instance.

Line references are to the repository; a migration is cited by its timestamp.

## 1. Inventory

| Part | State | Operations | Interacts with |
|---|---|---|---|
| Seat and table stock (migrations `20260829180000` to `20261012090000`) | `seats`, `tables`, `reservations`, `reservation_items`, `tickets`, the derived `tables.status` | `hold_seats`, `hold_table`, `release_reservation`, `expire_stale_reservations`, `fulfill_checkout`, `record_manual_sale`, `save_venue_map`, trigger `sync_table_status_from_seats` | checkout (release, fulfil), scheduler (sweep), organizer's map editor, admin |
| Ticket types and general admission | `ticket_types.quantity`, `sold_count`, items without a seat | `hold_general`, `tier_allocation_exceeded`, `sync_tier_sold_count`, `claimFree` | the same sales functions |
| Promo codes | `promo_redemptions` (one row per hold), `promo_codes.max_uses` | `claim_promo_code`, `release_promo_claim`, apply, remove | checkout (price), sweep, fulfilment |
| Paid checkout (`checkoutController.js`, `checkoutSessions.js`, `paymentController.js`, `openCheckouts.js`) | `reservations.attendee_data` (recorded session, price snapshot, buyer), `webhook_events`, Stripe's sessions | createSession, release, apply and remove, checkoutResult, the webhook, closeOpenCheckouts | stock, Stripe, promo codes |
| Minutes of a hold (`planHold`, `sessionExpiryFor`) | `expires_at`, `created_at`, the session's `expires_at` | plan, extend, open, sweep | checkout, scheduler |
| After the sale (`recordAfterSale`, `record_stripe_refund`, `record_application_fee_refund`, `record_stripe_dispute`) | `orders.refunded_cents` and its fee, ticket status, `ledger_entries` | one function per kind of event | webhook, gate |
| Gate (`useGateQueue.js`, `queuePolicy.js`, `scanService.js`, `check_in_ticket`, `undo_check_in`) | each tablet's queue in memory and in IndexedDB, `scans`, ticket status, `scanner_is_locked` | submit, sync, undo, reload, sign in | tickets, commission lock |
| Commission and invoices | `ledger_entries`, `organizer_invoices` | `raise_commission_invoice`, `settle_invoice`, `mark_overdue` | door sales, gate lock |
| Event lifecycle | `events.status`, `archived_from`, `event_cancellation_requests` | transition table, conditional updates of organizer and admin | stock, checkout |
| Money and pricing (`money.js`, `pricingService.js`) | none: functions of an order | `describeOrder`, `solvePaymentFeeCents`, `stripeCostCents` | checkout, sales, commission |
| Accounts | sessions, lockout counter, one-use codes, PINs | sign-in, revoke, verify, reset | every route |
| Scheduler and leases | `job_leases` | `take_job_lease`, the jobs | sweep, invoices |
| AI launch kit | `ai_generations` | `ai_reserve_generation`, `ai_finish_generation` | none |
| The rest | e-mail, media, places, dashboards, storefront, staff, terms, operations | reads, forms, calls out | none with a protocol of several steps |

`PROJECT.json` lists every part with its status, and the hazards at their lines.

**What is hard here.** Four kinds of actor reach the same rows by different
routes (a buyer at a seat, a buyer at a table, the door, the map editor), with a
sweeper beside them. A payment crosses two systems and several awaits; either
the webhook or the success page may be the one that fulfils it; Stripe repeats,
delays and reorders what it sends. A tablet at the door goes offline, retries
what has already been done, and is reloaded in the middle. Expiry is computed
with one clock and enforced with another.

**What makes each part correct.**

- Stock: one ticket per chair; a hold keeps all it will be charged for until it
  ends; what ends goes back whole; what is paid is final.
- Checkout: a page that can be paid is the recorded one; the order is for the
  amount Stripe took; a payment becomes an order or an operator's case (with one
  hole: a failed write of the case goes unnoticed, section 6).
- Timing: no session outlives its hold; Pay cannot keep a seat for ever.
- After the sale: order, tickets and ledger end where Stripe is, however the
  events arrive.
- Gate: a ticket is admitted once; a tablet shows what the log has; no scan is
  stranded.
- Tiers: the count that holds are checked against keeps up with the tickets; what
  is sold and held stays inside the allocation.
- Codes: no more orders have a discount than the code has uses; a paid order
  keeps its claim.
- Commission: nothing is billed twice or forgiven; only a payment opens a locked
  gate.
- Events: what is on sale passed its checks, but for what may be edited live;
  cancelled is final.
- Jobs and drafts: one worker at a time runs a job and the job never stops; an
  organizer gets no more drafts than allowed.
- Money: the fee a buyer pays for the card is what Stripe takes, to the cent.

## 2. Modules

| Module | Models | Granularity |
|---|---|---|
| `SeatStock` | seats, tables, items, reservations and tickets of one reserved-seating event | one database function per action |
| `SeatPromise` | the abstract promise to buyers: seats are free, held by one, sold to one; a hold is all or nothing; `SeatStock` and `StockTickets` implement it | abstract specification |
| `StockLocks` | the same functions under Postgres' READ COMMITTED | one SQL statement per action |
| `StockTickets` | `StockLocks` with the tickets its sales issue, and how it maps to `SeatPromise` | as `StockLocks` |
| `Checkout` | one hold, the requests of its buyer, its Stripe sessions, the webhook, the success page, an admin stop | one await to the next per action |
| `OneTab` | the same with a buyer who waits for each answer, or one with two tabs, and how it maps to `Purchase` | as `Checkout`, with a condition on the buyer's next step |
| `Purchase` | the abstract promise of checkout: pages are paid, a hold is sold for one paid page or over; `OneTab` implements it | abstract specification |
| `HoldTiming` | the minutes of that hold, on three clocks | one await to the next per action |
| `AfterSale` | refunds, fee refunds and disputes of payments, from Stripe to the ledger | one database function per action |
| `Gate` | tablets, their queues, requests that may outlive their caller, the check-in functions | one request, answer or database function per action |
| `TierStock` | a ticket type's allocation, `sold_count` and the trigger that recounts it | holds and door sales one function per action; what writes tickets, one trigger firing per action |
| `PromoCodes` | the uses of codes: claims, edits of a hold's code, quotes, pages, free orders | one await to the next per action |
| `Commission` | an event's manual sales, its invoices and the lock of its gate | `raise_commission_invoice` in four statements, the rest one function per action |
| `EventLife` | an event's status, archiving, review and the requests to cancel | read and decide, then the conditional write |
| `Leases` | a scheduled job on several workers | one database function per action |
| `Generations` | the allowance of AI drafts | one database function per action |
| `Money` | the price of an order as operators on exact integers | functions |
| `SeatStockProofs` (with `SeatPromise`), `StockLocksProofs`, `TierStockProofs`, `BillingProofs` (`Money`, `PromoCodes`, `Commission`), `RulesProofs` (`HoldTiming`, `EventLife`, `Leases`, `Generations`), `GateProofs`, `AfterSaleProofs`, `CheckoutProofs` | theorems | |
| `MC*` | model values, sets and symmetries for TLC | |

How they fit together: `StockLocks` opens up the steps `SeatStock` takes as
atomic, and both are shown to implement `SeatPromise`. `Checkout` uses of the
stock only that a reservation is active, converted or gone, which is what
`SeatStock` has as `resState`; all its steps together come to one `Purchase`, which
is what the stock's `Buy` stands for. `Checkout` lets a hold lapse only when none of its sessions is open; `HoldTiming` shows that
about the minutes (`NoPayableSessionOnSweptHold`). `AfterSale` starts from a
paid session whose record matches, which is `Checkout`'s matter, and hands a
ticket's status to `Gate`, whose `VoidTicket` is the full refund or lost dispute
and whose two check-in functions `AfterSale` has as `CheckIn` and `UndoCheckIn`.
`SeatStock` has the admin's stop as a change of `eventStatus`, `Checkout` as
`StopEvent` followed by the three steps of `closeOpenCheckouts`; which changes of
status there are and who wins when two meet is `EventLife`. `TierStock` holds what
`SeatStock` leaves out of a hold, `PromoCodes` what `Checkout` does of the price.
`Commission` decides `Gate`'s `locked`. `Leases` says who runs the sweep of
`SeatStock` and `Commission`'s `MarkOverdue`.

Components that share no state are checked in one run: an `MC` module extends
them, and a variable `part` says which one a behaviour runs while the others stay
as they begin. `MCRules` has six of them, `MCSeatStockAnyMap` the stock and the
leases, `MCStockLocks` the stock and the codes. Nothing is composed that way that
interacts.

### SeatStock

`seatStatus` and `seatHolder` are `seats.status` and `held_by_reservation`;
`"absent"` is a row that does not exist. `tableStatus` and `tableHolder` likewise.
`resState` is `reservations.state`, `lapsed` says that `expires_at` is past,
`seatItems` and `tableItems` are the items, `ticketsOf` the seats an order's
tickets name. The trigger runs inside each action through `Synced`, at the point
of the function where it fires: `HoldTable` ends with `held` because the function
writes that after the trigger wrote `sold`; `FulfillCheckout` writes `sold` first
and lets the trigger go over it. Deleting rows in `SaveVenueMap` takes their
items along (ON DELETE CASCADE) and clears the seat of tickets (ON DELETE SET
NULL).

`GrowHeldTables` exists because the code has an open defect (section 6):
`save_venue_map` adds a seat to a table that is held whole. With TRUE the module
is the code. With FALSE it is the code on runs in which nobody does that.
Everything that holds anyway is checked and proved with TRUE.

Left out: a ticket type's allocation (`TierStock`), price and sale window, which
can only refuse a hold or door sale that the model allows to happen or not, and
the `blocked` statuses, which nothing writes.

### StockLocks

A transaction locks, reads, writes seats, runs the trigger once per seat (which
counts the table's seats and then writes the table), and commits. A statement
sees committed rows and its own writes. A writer waits for a locked row; `SKIP
LOCKED` statements do not wait. A circle of waiters loses one (`Abort`). A
trigger that waits for the table's row goes on with the status it counted before.

`StockTickets` adds `ticket`, whose ticket names a seat (the paid hold's, or the door
sale's own), which gives a sold seat an owner: the mapping to `SeatPromise` needs one.
`EachCommitKeepsThePromise` says that a commit is one step of `SeatPromise` and that no
other statement is any, `Abort` included. It leaves out the step that deletes a booked
seat (`DropsBookedSeat`), which is the defect of section 6 and no step of the promise.

### Checkout

`data` is `attendee_data`: the recorded session, the price snapshot, the buyer.
`my[c]` is what request `c` has read and carries across its awaits. `stripe` has
Stripe's sessions with their idempotency keys; `hook` and `acked` are
`webhook_events` and the answers. `Deliver` covers first deliveries, retries and
unprovoked repeats, several at a time. `CallDies`, `WorkerDies`, `RecordFails`,
`FulfilFails` and two UPDATEs whose error is passed over are the faults: the one of
`CloseForgets`, which is only logged, and `mark`'s (`Mark`), which nobody looks at,
so that the answer is the same whether or not the row was written. `unmarked` has
the events that were last acknowledged for a refusal `mark` did not write. `Contact`
is what the idempotency key (`Key`) has of a buyer, who may be signed in or not.
Left out: `claimFree` (`PromoCodes`), sessions
of legacy destination charges, delayed payment methods, the account check.

`OneTab` says what `Checkout` leaves open: whether the buyer's browser sends a second
request while the first is under way. Nothing on the server keeps the two apart, so
the three properties about payments are about a buyer who waits (section 6), while
webhooks, success pages, the admin and the sweep overlap as they like. For either
buyer `EachHoldIsOnePurchase` maps the whole protocol to `Purchase`: released and
expired holds are over, paid sessions are charged pages. `Fulfil` is its `Sell`,
`BuyerPays` its `Pay`; no other step sells or charges anything. What becomes of a
charge when the hold is over is no part of it (`OneTabIsAnswered` is about that).

### HoldTiming

`now` is Stripe's clock. A request plans with the API's, the sweep runs on
Postgres'; each reads `now` give or take `Skew`. `Plan`, `Extend` and `Reread`
are `planHold`, the conditional UPDATE and the second look after it matched no
row; `Create` is refused by Stripe when the session would be too short.

### AfterSale

`stripe` is what happened, `sent` what Stripe has to say about it, in no order.
`Record` is `recordAfterSale`; if there is no order yet it goes to `Fulfil`
first, as `withOrder` does. `Fulfil`, `Quote` and `Convert` are the reads and the
database function of `fulfillFromSession`, with other deliveries in between: the
payment's own may convert the hold before the quote, which then refuses an order
that exists. Each database function runs under the order's row lock and is one step.
`Mark` and `unmarked` are as in `Checkout`. The ledger is a set of keyed entries, because
`ledger_write` makes a second write of a key nothing. Left out: `dispute_status`
and `disputed_cents` (written, never read), account checks.

### Gate

`mem` is a record in the page's memory, `kept` its copy in IndexedDB. A request
(`req`) carries its scans and how far the server is with each; it may be
abandoned (`waiting` FALSE) and still run. `Lookup` and `CheckIn` are the two
halves of `check_in_ticket`, before and after the ticket's row lock. `DbError`
is a call that fails and comes back as the result `error`. Left out: device
registration, forged codes and codes of another event, pruning of settled
records, scans taken while the queue is being loaded.

### TierStock

`tickets` and `held` are the numbers that the code gets by counting rows;
`soldCount` is the column. `Hold` and `DoorSale` check and write under the tier's
row lock in one step. A transaction that writes tickets (`BeginSale`,
`BeginRefund`, `BeginScan`) adds its rows to `pend` and then fires the trigger
once for each (`todo`): the first firing locks the tier's row, `Commit` publishes
all. A firing that finds the row locked has taken its snapshot (`Wait`) and goes
on with that count (`Resume`), which is what READ COMMITTED does with a subquery
of an UPDATE that waited. `late` remembers the tiers whose count may be stale for
that reason; both properties are about the others. Left out: sale windows, the
limit per order, tiers without a quantity.

### PromoCodes

`claim` is the hold's row of `promo_redemptions`, `linked` says that the row has
an order. `StartEdit` is apply or remove up to `closeOpenSession`, `Apply` and
`Remove` the database function after it; a checkout is a `Quote` that carries the
code of its discount (`priced`) to a page or to `ClaimFree`. Nothing in the code
keeps an edit and a quote apart; `mixed` remembers the holds where they
overlapped. A page ends before its hold lapses, which is `HoldTiming`'s matter.

### Commission

The manual channel of the ledger is kept as two sums, what sales credited and what
settlements debited; `Owed` is their difference, as `manual_commission_owed`.
`RaiseCheck`, `RaiseOwed`, `RaiseNumber` and `RaiseInsert` are the four statements
of `raise_commission_invoice`: the open invoice, the debt, the number, the INSERT
with its unique number. `covers` remembers what was earned when the debt was read,
which is the sales the invoice is for. `overlapped` remembers that two calls of it
overlapped.
Left out: the manual lock and its override, waived invoices.

### EventLife

A call reads the event, decides (`Decisions`) and writes WHERE the status is the
one it saw. The event's fields are of two kinds (`Columns`): those of
`LIVE_EDITABLE`, which an organizer may change on sale, and the rest (`MayEdit`).
`content` stands for the rest: an edit makes it unchecked, a submission has checked
it, a publication clears it. What a live edit writes is checked by nobody, and no
property but `ReviewerSeesWhatIsApproved` speaks of it. `sees` has the kinds of which
no edit came since the call read; `crossed` remembers that an edit of what is
reviewed met a submission or two restores overlapped. The checks of a submission are one
condition, which is that the call got there.

### Leases

`lease` and `holder` are the row of `job_leases`. A run is `<<worker, slot>>`,
because a timer starts the job whether or not the worker's earlier run is over,
and the lease is in the worker's name. `outlived` are runs whose lease has ended,
`doubled` says that a worker had two at once.

### Generations

A draft is a row of `ai_generations`: reserved, then succeeded or released.
`Since(Stale)` is what a reservation still counts by, `Since(Window)` the rolling
day. `tardy` remembers drafts that succeeded after they had stopped counting.

### Money

Rates are in hundredths of a percent and amounts in cents, so `PctOf` is exact
where the code multiplies floats and rounds. `QuoteOrder` prices one order through
both charge models of `describeOrder`. The parsing and printing of amounts is left
out.

## 3. Runs

The runs are few, each on one question. `CHECK_DEADLOCK FALSE` is set
everywhere: holds, transactions, requests and faults are finite sets here, so
every instance comes to rest when they are used up.

| Run | Instance | Question |
|---|---|---|
| `seat_stock` | 4 seats on 2 tables, 3 reservations, 1 door sale, at most 2 seats an order, no growing | Is a chair ever sold twice, a hold broken up, or something issued that was not held? Does the stock implement `SeatPromise`? |
| `seat_stock_any_map` | the same with 2 reservations, any map edit, fair sweeper; beside it 3 workers of one job, 2 timers each | What survives every map edit: backed holds, free stock that can be held, paid stock that stays, holds that end. Has a job one leader, and does it go on whoever dies? |
| `seat_sold_twice` | as `seat_stock`, any map edit | violation: the defect in section 6 |
| `stock_locks` | 3 overlapping transactions of any kind, 3 seats, 2 tables; beside it 2 holds, a code of one use and a free code of one use | Are the stock functions as good as atomic, each commit a step of `SeatPromise`, but where a map save deletes a booked seat? Do the calls that lock tables first never wait in a circle? Is a code used no more often than it may be, and does a paid order keep its claim? |
| `dropped_seat` | 4 transactions, one table | violation |
| `checkout` | 2 requests, 2 sessions, 2 prices, 1 buyer, one tab with 2 handlers and 1 fault, or 2 tabs with 1 handler and 1 extension of the hold | Is every payable page of one tab the recorded one, every payment answered (but for a refusal not written), and filed as done only for its own tickets? Whatever overlaps, is a hold one purchase: an order of one paid page for what Stripe took, and, with one tab, one charge? |
| `charged_twice` | 2 overlapping requests of two buyers' details, no fault | violation |
| `gate` | 2 tablets, 1 ticket, 2 scans, 2 requests, batches of 2, 1 fault | Is a ticket admitted once, does a tablet show what the log has, is every scan decided? |
| `gate_lost_scan` | the same | violation |
| `after_sale` | 1 payment of 1 ticket charged 2 units, 1 of them fee; at most 4 events, 2 handlers, 1 fault | Do order, ticket and ledger end where Stripe is? |
| `rules` | six parts: 3 Pay requests, clocks 2 minutes apart; 1 tier of at most 3 places, 3 orders of 1 or 2; 4 subtotals, 2 discounts, every tax, commission and fee on or off; 2 door sales, 2 raises, 2 days; 2 calls and 2 cancellation requests on one event; 2 organizers, 3 drafts, 4 hours | Do sessions end before the hold? Does a tier stay inside its allocation? Is the card fee exact, commission billed once and none forgiven, the gate opened by payment alone? Is what is on sale checked where it may not be edited live, and cancelled final? Is the draft allowance kept? |
| `reviewer_sees` | the event part of `rules` | violation |

**Why these bounds.** *Stock:* the hazards need a table of several seats, so that
it can be half taken and can grow while it is held, another table so that an edit
or a sweep covers several, two buyers who want the same thing, and a third whose
late payment or sweep falls between. The seats of one table, and reservations,
are interchangeable, hence the symmetry; the run with liveness uses none. *Locks:*
a circle takes two transactions; the third is the one whose commit falls between
the count and the write of a trigger. The lost seat needs four: two that leave the
summary stale, one that books, one that deletes. Transaction order is by table id,
so tables are not symmetric. *Checkout:* two sessions and two prices are what it
takes to pay an old page; two handlers make the webhook race the success page. The
two kinds of behaviour split the load: with two tabs, where only the purchase is
claimed, nothing dies (`NoFault`). *Gate:* two scans of one ticket are what
competes for it; a third adds only more of the same. *After the sale:* two units
let refunds be partial and add up to a full one; four events are a payment, two
refunds and one of a dispute or of the fee, or a dispute withdrawn, won and
reinstated. Two cuts of interleavings keep it small, and lose nothing that a handler
could notice: what Stripe does is done between deliveries, because no handler reads
it, and the door acts while every handler is idle or about to record, because only
that step reads a ticket. A third cut is a bound: from the fourth event on one handler
runs at a time. One fault reaches every error path; combinations of several faults are
not covered. *Minutes:* a third request is one that reads before and writes after
both others; the minutes are scaled (session 1, margin 2, hold 3, extension to 4,
cap 7), with the same inequalities between them as the real 30, 5, 35, 40 and 80.
*Tier:* two transactions make one recount wait, the third commits meanwhile. *Codes:*
one use and two holds are the contest for the last use. *Commission:* a second raise
finds the first one's invoice, on its day or on another (the number has the date). *Event:* two calls
are a writer and one that had read before. *Drafts:* a limit of one and a cap of two
are both reached by three drafts. *Leases:* the three workers are one that is slow,
one that took over and one that waits; a worker's second slot is its next timer.
The proofs do without these bounds.

**Mutants.** Each property has a mutant: a plausible bug in a definition that
models code (`..._Suffix`, placed just before the original) under which TLC finds
the property violated in the same run.

**Exceptions in properties.** Some properties are false of the code in situations
the code knows about or that section 6 lists. A variable remembers such a situation
and the property is about the other behaviours: `late` (a tier's last recount had to
wait), `mixed` and `lapsed` (a code edited during its checkout, a hold paid late),
`overlapped` (two raises at once), `crossed` (two restores at once, an edit under a
submission), `doubled` (a worker with two runs of a job), `tardy` (a draft that
succeeded after it had stopped counting), `undone` (a check-in the door reversed),
`tabs` (a buyer with two tabs), `unmarked` (a refusal acknowledged that `mark` failed
to write).

**Fairness.** Assumed only where a schedule in the code provides it.

- `SeatStock!FairSpec`: time passes (`Lapse`) and the sweep runs
  (`scheduler.js` starts it every minute). Buyers, door, admin owe nothing.
- `Leases!LeaseFairness`: leases lapse with time and runs end. That some timer keeps
  firing is strong fairness of all workers' ticks together, because a tick finds
  the lease free only now and then; it holds as long as one process is up, which
  the process manager sees to.
- `Gate!FairSpec`: a tablet with something pending tries again every `RETRY_MS`
  (`useGateQueue.js`), which needs strong fairness because another upload of the
  device can get in between; what reached the server is served; answers arrive
  unless they fail, and faults are bounded, so the network is not down for ever.
- `AfterSale!Fairness`, in `FairSpec` and in the run's `SaleSpec`: Stripe goes on
  sending as long as something is unanswered, and a handler that runs goes on.
  Nothing is assumed about which event comes next.
- The others: safety only.

## 4. Proofs

All are for any number of seats, tables, transactions, requests, orders, devices
and minutes, from the named assumptions about the constants alone.

**`SeatStockProofs`.** `StockInvariant` proves `StockInv` inductive with any map
edit. The properties alone are not inductive: for `HeldSeatsAreBacked` to survive a
release one has to know that items name existing rows and that a reservation not
made has none (`ItemsAreSound`); for `PaidStockIsFinal`, that a ticket's seat is
sold and only a converted hold has tickets (`TicketsAreBacked`). There is one lemma
per action, and under it a step for each conjunct it can disturb; lemmas about
`Synced` say once what the trigger does to the summary. `StockInv` has the summary's
agreement with the seats (`TableStatusAgrees`) as a conjunct, because the functions
trust it; that is no promise of the code, whose trigger breaks it between statements
(`dropped_seat`), and so no theorem of its own. It gives `TypeCorrect`,
`HoldsAreBacked`, `PaidIsFinal` and, with `ItemsAreBacked` (an
item is of an active hold and its seat is taken), `FreeStockStaysHoldable`.

`WholeInvariant` assumes `GrowHeldTables = FALSE` and adds that an active
whole-table hold keeps its table marked `held` (`HeldTablesAreMarked`), which is
what stops the editor, and that active holds are whole. From it follow
`NoSeatSoldTwice`, `HoldsStayWhole` and `PaymentIsExact`. The assumption is needed:
`seat_sold_twice` is the counterexample without it. Under it `SeatStock` implements
`SeatPromise` (`StockKeepsThePromise`), with a seat's owner being its holder while
it is held and the order whose ticket names it once it is sold. Each action maps to
one abstract step or a stutter.

**`StockLocksProofs`.** `LocksInv` says of every transaction under way which locks
it has, what it knows of the rows it will write, and what the trigger has still to
do. What a taker writes stays free until it commits: by the seats' own locks, and in
`hold_table`, which locks none before it writes, because whoever commits a seat of
its table must first have had that table's row for the trigger. That is the argument
of `SeatsAreTakenOnceHolds` and `HeldTablesAreWholeHolds`. `TicketInv` adds who owns
what: a holder is an active hold, the ticket of a sold seat belongs to a call or a hold
that is over, a payment is of one hold. With it each kind of commit is one abstract step
(`Take`, `SellAtDoor`, `Buy`, `GiveBack`, `Redraw`): `EachCommitKeepsThePromiseHolds`,
and `LocksKeepThePromise`: `TicketSpec /\ BookedSeatsAreNeverDropped => Promise!Spec`.
So the stale table summary is the only thing by which the statements, taken apart, are
worse than `SeatStock`'s steps, and `dropped_seat` shows that it is one. (A table that
grows while it is held is `SeatStock`'s matter: no call of `StockLocks` adds a chair.)
In
`TablesFirstNeverCircleHolds` all members of a circle would be waiting for a table,
and each for one that comes after those it has; the member that waits for the last
table contradicts that, and a finite set of tables has a last one.

**`TierStockProofs`.** `TierInv`: an order's uncommitted rows are written or have
their trigger ahead, and who has fired on a tier has its row. `SoldCountHolds`,
`AllocationHoldsAlways`.

**`BillingProofs`.** `Money`: the rounding is within half a cent (`NearestBounds`)
and the fee solved from the total is the fee of the total (`AutoFeeHolds`);
`ShortfallHolds`. `PromoCodes`: `ClaimInv` ties what is priced to what is claimed
(`OrderKeepsItsClaimHolds`), `CountInv` counts the claims that stand
(`UsesWithinLimitHolds`). `Commission`: `BilledInv`: while an
invoice is being raised nothing is unpaid, so nothing is settled and the debt that
was read is still owed (`BilledOnceHolds`). `CoversInv`: what is settled and what an
invoice asks for are together what its sales had earned (`NoSaleIsForgivenHolds`).
`OnlyPaymentReopens`.

**`RulesProofs`.** `TimingInv`: what a request has read was the hold's expiry at
some time and so is not past the present one, a planned extension fits under the
cap, a swept hold's expiry is past on some clock (`SessionsNeverOutliveTheHold`,
`HoldLifeBound`, `SweptHoldsCannotBePaid`, `NeverShortened`). `FinalInv`: a call that
will answer a request has written `cancelled` (`CancelledIsFinalHolds`,
`CancelledStaysHolds`). `CheckedInv`: what each call has decided it may decide, and
what a restore saw is still there; an edit of what is on sale leaves the reviewed
columns alone (`OnSaleWasCheckedHolds`). `HolderLeads`: a run in
its lease is the holder's (`OneLeaderHolds`). `AllowanceInv` with lemmas on the
cardinalities (`AllowanceIsKept`).

**`GateProofs`.** `ShownInv`: a record, its copies in requests and answers, and the
log agree on each scan; `ShownIsRecordedHolds`, `AdmissionsAddUpHolds`. `KnownInv`: what
a tablet has settled or is being answered the log has, the server refused, or is an
error. So an error is the only way to lose a scan (`LostScansAreErrorsHolds`), and
`gate_lost_scan` shows that it is one.

**`AfterSaleProofs`.** `AnsweredInv`: a row is marked clean only by a handler whose
recording took effect, recorded amounts never shrink, and an acknowledged refusal is
on its row or in `unmarked`; `AnsweredMeansRecordedHolds`,
`RefundedTicketsAreVoidHolds`. `BooksInv`: what Stripe has sent is what it moved
(`SentOK`, `StripeOK`), each entry is of an event that was sent and of its amount
(`EntriesOK`), and the entries of a payment sum to what its order has (`SumsOK`). The
sums are folds over finite sets. What a fold does when one entry joins (`SumAdds`) is
proved without an induction theorem, from the smallest set for which it would fail:
strict inclusion of finite sets is well founded, which is first-order. Each recording
adds at most one entry of a new key, so the balance moves as the order does
(`SumsMove`), and when every event sent has counted, the order has what Stripe moved
last. `RefundsAddUpHolds`, `SettledBooksAgreeHolds`. `BooksOnlyMoveForwardHolds`: no
step takes back what an order or the ledger has.

**`CheckoutProofs`.** `ChargeInv`: a request is about to record the session
that was made for the amount it carries, the recorded snapshot is the recorded
session's, and a handler fulfils an active hold with its own session's amount;
`OrderRecordsTheChargeHolds`. `OneTabInv` is about the buyer who waits: only a page
that was handed out is paid, and one is handed out only after it was recorded; while a
request is under way it alone writes the record, so what it read of the recorded
session is still so, and it forgets that session only when it cannot be paid any more.
Hence at most one session of the hold is paid, and it is the recorded one
(`SessionsInv`); the webhook or the success page that fulfils first does so with that
session (`AnswersInv`). `OneTabIsRecognisedHolds`, `OneTabIsFulfilledHolds`,
`OneTabIsAnsweredHolds`, theorems of `TabSpec`, where the hold may be lengthened any
number of times and any number of handlers run beside the request. So such a buyer
pays a hold once (`OneTabIsChargedOnceHolds`). With it every step maps to one step of
`Purchase` or to a stutter, for either buyer: no step but the buyer's changes what is
charged (`PagesStep`), and the hold goes only from active to over or, with a paid page
and its amount, to sold (`HoldStep`). `EachHoldIsOnePurchaseHolds`.

**Only model-checked.** `EveryHoldEnds`, `JobNeverStops`, `EveryScanIsDecided` and
`RefundsAreRecorded` (liveness is out of the prover's reach).

## 5. Plan

Done, in this order: `SeatStock` with its promise and proofs, `StockLocks`,
`Checkout`, `HoldTiming`, `Gate`, `AfterSale`; then `TierStock`, `PromoCodes`,
`Commission`, `EventLife`, `Leases`, `Generations` and `Money`, and proofs of the
safety properties of all of them.

Next, most important first:

1. Ticket transfer against check-in and void, beside `Gate`.
2. The lockout counters of sign-in and PIN, once the first no longer reads and writes
   in two calls.
3. Abstract promises of the door (a ticket in, out or void, by one admission at a time)
   and of the books after a sale, with `Gate` and `AfterSale` shown to implement them, as
   `SeatStock`, `StockTickets` and `OneTab` are.

## 6. Where the code and its documents disagree

With a run:

- **A chair sold twice** (`seat_sold_twice`). A table is held whole; the map
  editor adds a seat, which is on sale at once and is bought; then the table is
  paid for, and `fulfill_checkout` (`20260915120000`:216) issues tickets for every
  seat the table has by then. Known as T-017 (docs/TECH-AUDIT-LOG.md:70).
- **A booked seat deleted** (`dropped_seat`). Two transactions write seats of one
  table; the second trigger counts before it waits for the table's row
  (`20260829190000`:30) and writes back a status that does not know of the
  first one's seat. `save_venue_map` then goes by a stale `available`
  and deletes the table with a seat that is booked, against `20260915120000`:94-95.
- **A second charge filed as handled** (`charged_twice`). Two Pay requests
  overlap; the hold is paid through one session and the other is recorded over it.
  Its payment matches the record, `fulfill_checkout` answers
  `already_fulfilled`, and the row carries no error, against
  `paymentController.js:294-295`.
- **A scan lost in an upload** (`gate_lost_scan`). A failed `check_in_ticket`
  call becomes the result `error` and the upload files it as done, against
  `useGateQueue.js:14-15`.
- **An approval of something else** (`reviewer_sees`). `approve` writes if the event
  is `pending_review` (`approvalController.js:133`), whichever submission that is.
  An event withdrawn by an edit and submitted again while the page is open is
  approved unseen, against `eventController.js:357-358`.

Met while modelling, without a run of their own:

- `mark` drops its UPDATE's error (`paymentController.js:370-375`), and the handlers
  answer 200 all the same (`:296-306`, `:349-350`): a payment or refund that will never
  be applied may be acknowledged with no error on its row, where `:294-295` has "the
  queue an operator works from when a payment did not turn into tickets".
- A refund or dispute that comes while its own payment's delivery is under way may find
  the hold active, wait while the other converts it, and be refused by the quote
  (`checkoutController.js:410-437`): it is filed as `RESERVATION_EXPIRED` and not
  repeated, although its order exists.
- An organizer's edit of an event on sale writes the columns of `LIVE_EDITABLE`
  (`eventRules.js:209-219`) with no check. Both ways to pay are among them, and may be
  switched off: the comment says 'submit catches "none left"'
  (`eventController.js:303-304`), and no submission follows. `OnSaleWasChecked` is about
  the other columns.
- A door sale of single seats locks seats before tables
  (`20260915131000`:434); a release, a sweep and the payment of single seats write
  seats before the trigger locks their tables. That is against README.md:184 and
  following; Postgres aborts one of the circle (T-053). `TablesFirstNeverCircle` is
  about the calls that keep the rule.
- The head of `scheduler.js` (18-20) says an advisory lock makes one worker win and is
  released when it dies; it is a lease (40-50), which lapses.
- The stale table summary of the second point also contradicts the base schema's
  "the two can never disagree" (base_schema:535-536).
- Two overlapping Pay requests leave two payable pages for one hold, against
  `checkoutSessions.js:7`. `OneTabIsRecognised` is therefore about a buyer who
  waits for each answer.
- A code applied and removed again makes Pay compute the idempotency key of the
  session that was expired for it, and Stripe hands that session out again
  (`checkoutSessions.js:247`).
- closeOpenSession expires the recorded session before it forgets it; the
  webhook of that expiry may find it still recorded and release the hold
  (`paymentController.js:314-318`) while its buyer is changing a code.
- claimFree converts a hold without closing a session opened at an earlier price
  (`checkoutController.js:514`).
- A recount of `sold_count` that waited for another transaction's row lock writes
  the count of its own snapshot, which does not have the other's tickets, against
  `20260915131000`:10-12 and 17-18. The next recount repairs it.
- A code with a limit is oversubscribed when a hold is paid after it lapsed, which
  `promoService.js:6-11` accepts, and also when an edit overlaps a checkout of the
  same hold. Changing code A for code B leaves A's `used_count` as it was.
- `raise_commission_invoice` looks for an open invoice and inserts one without a lock
  (`20260830040000`:36-38). Two calls that overlap are kept apart by the invoice
  number alone, which has the date in it: around midnight there are two invoices
  for one debt.
- A worker whose run outlives the lease may take the lease again under its own name and
  run the job twice at once (`scheduler.js:60-61`).
- A request to cancel that is inserted after `cancelEvent` has answered the open one
  stays pending (`eventCancellation.js:66-68`).
- Two overlapping restores: the second finds an event that was archived again and
  writes the target of what it read before.
- With slow workers more drafts than the allowance succeed: a draft stops counting
  after the stale interval and may still succeed.
- A scan verified online overtakes an earlier one of the same ticket that is
  queued, against rule 4 of `queuePolicy.js`, which is about uploads.
- Undoing a check-in after a full refund makes the ticket valid
  (`20260830000000`:176); `RefundedTicketsAreVoid` leaves such tickets out.
- `dispute_status` is whatever event came last. Nothing reads it.
- A ticket's transfer reads its status and then updates WHERE `transfer_count = 0`
  alone (`ticketService.js:169-206`): a ticket admitted or voided in between is still
  transferred.
- Published to completed belongs to "the system" (`eventRules.js:177`), and no job of
  the scheduler does it.

## 7. Not modelled

- Accounts, one-use codes, door PINs and device registration: each is a single
  conditional UPDATE whose WHERE is the whole rule, under one row lock; a module
  would restate the statement. The exception is the failed sign-in counter
  (`authController.js:393`), which is read and written in two calls and known as
  T-019. `Gate` has what a device's token does to the queue.
- Tickets' QR codes are signatures; a transfer is one update (section 6).
- E-mail, media, places, dashboards, storefront, content, staff and terms are reads,
  forms, single rows and calls out, with no protocol of several steps over shared
  state. Prompts and answers of the AI are text.
- The front end other than the gate renders and calls the API; what it can send are
  the inputs of the modules.
- Scripts and migrations are run by hand.
- In modelled parts, what each module leaves out is said with it in section 2.

## 8. Running

```
tlc -workers 2 -config MCSeatStock.cfg MCSeatStock
tlapm SeatStockProofs.tla
```

The longest runs (`after_sale`, `checkout`, `stock_locks`, `rules`) take one to four
minutes, the proofs of a module from half a minute to several minutes.
