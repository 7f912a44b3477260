# Tax My Motor backend: TLA+ models and proofs

The repository is a NestJS server over MongoDB (mongoose). Customers tax a car, suppliers
raise the invoice inside a window, admins settle what goes wrong. The server process is
stateless: every request loads documents, decides on the copies, saves them, and then tells
people. What is hard about it is what one request cannot see: a long history of legal calls
that leaves an order in nobody's hands, and requests that overlap on one document.

`PROJECT.json` lists the components, the runs, the line of the source each definition
models, the hazards and the findings.

## 1. Inventory

Paths are under `src/src/`. "Hard" is what a unit test would hardly reach.

| Component | State it keeps | Operations | Hard, and what makes it correct |
|---|---|---|---|
| **Order lifecycle** `modules/orders/orders.service.ts` | `orders`: supplier, status, invoiceStatus, invoice, flag, dueAt, communicationMethod, V62, bank review, timeline | `placeOrder`, `attachInvoice`, `emailInvoice`, `resendInvoiceEmail`, `markSent`, `reassign`, `flag`, `sendBack`, `complete`, `cancel`, `markV62Printed` | Nine handlers write four related fields by hand. An order waiting for its invoice is always with a supplier on the clock, an admin or the customer; closed stays closed; an invoice is never on file against an unsigned mandate |
| **Direct Debit review** `modules/bank/bank-review.service.ts` | `order.bankReview`: status, fields flagged, notes | `approve`, `requestChanges`, `resubmit` | The loop ends with an admin after `BANK_ROUNDS_BEFORE_FLAG` send-backs; the clock runs for the supplier only |
| **Overdue sweep** `modules/orders/orders.tasks.ts` | a `running` flag in the process | cron every 30 s, `sweepOverdue` | Find, then update by id: what has changed in between is overwritten. A lapse is acted on, and announced once |
| **Alerts** `modules/notifications/` | `notifications`, unique by (order, type) | `raise`, `resolve`, `clearForOrder`, read marks | Written after the order, one call at a time. What has to be acted on is listed, and the list is current |
| **Invoices** `modules/invoices/`, `modules/mail/` | the stored file; `order.invoiceEmail` | upload, email in the background, resend | The email outlives its request; its outcome is written down in the end, unless the database refuses it |
| **Suppliers and routing** `modules/suppliers/` | `suppliers`: status, orderTypes | `create`, `update`, `setStatus`, `assignOrderType`, `releaseOrderType`, `remove`, `routeOrder` | Exclusivity of an order type is kept by two writes; removal counts and then deletes. One holder per type; no open order of a supplier that is gone, but for two races that are named |
| **Vehicle data spend gate** `modules/vehicles/vehicle-data.client.ts` | a day's counter, calls in flight | `fetchPackage`, `claimBudget`, `releaseBudget` | A paid API behind a ceiling: never above it, whatever races, restarts or passes midnight; concurrent lookups of one plate cost one call |
| **Vehicle lookups** `modules/vehicles/vehicles.service.ts` | `vehicle_tax_lookups`: the provider's answers, the view mapped from them, the mapper's version, `fetchedAt` | `checkTax`, `lookup`, `lookupForV62`, and in them `resolve`, `remap`, `addIdentity` | Three writers set different fields of one row with calls of seconds in between. A fresh row costs nothing, a stale one beats an error, an outage of Tax is no absence, a mapping fix reaches every row, a bought identity is kept |
| **Paid extras, payments** `modules/extras/`, `modules/payments/` | `plate_orders`, `vin_purchases`, each with a unique payment; Stripe's intents | `createIntent`, `purchase`, `place`, `verifyPaid`, `setStatus` | Retries, overlaps, a price that changes, failures after the money moved: one payment, one sale, of what was paid for. The tax checkout has no such index |
| **Sessions and accounts** `modules/auth/`, `modules/users/`, `modules/referrals/` | `users` (unique address and referral code), `sessions`, an account's device tokens, free orders | `register`, `createUser`, `updateProfile`, `login`, `refresh`, `logout`, `logoutEverywhere`, `changePassword`, `resetUserPassword`, `registerDevice`, `forgetDevices` | Finds before creates, deletes before creates, reads before saves: one account per address, one good token per sign-in, a phone with one account, an admin's password marked as one, one reward per invitee |
| **Vehicle tax tables and quotes** `modules/vehicles/ved-*.ts`, `mapTaxResponse`, `withTableRates` | none but the row's stored answers | `readVehicleFacts`, `classify`, `needsListPrice`, `calculateVed` over two leaflets | Forty bands, caps, weights and dates; facts left out; answers bought one day and read again on another. A price can be made again from what was kept and a list price that was not bought did not matter (an identity that reaches a row late is the exception to both); nothing is guessed but what is written down as a guess |
| **Pricing and checkout** `modules/pricing/`, `placeOrder`, `modules/orders/v62.builder.ts` | `counters`, `orders`, payment intents | `listOptions`, `price`, `createIntent`, `placeOrder` | Eight calls between the price and the stored order, any of which may fail while rates move: an order costs what was paid for it, has its own number, a form that can be printed, and an alert when nobody has it |
| **Push, realtime** `modules/push/`, `modules/realtime/` | the device tokens above | register, forget; messages are fire-and-forget | Nothing is decided on a message |
| **V62 printing, addresses, serializers, DTOs, guards, config, seed, health** | none of their own | layout, validation, proxying | Not modelled: text, I/O and wiring |

Interactions: `placeOrder` asks the vehicle service for a price, payments for a paid intent
and suppliers for a route, then creates the order and raises its alerts. Supplier and
customer controllers load through `findScoped`, so a supplier only touches an order it
holds. `BankReviewService` works on the same document through `OrdersService`'s window and
flag helpers. The cron calls `sweepOverdue`, which works past the documents with a query and
an update. Alerts, realtime events, pushes and emails always follow the write they report. Quotes,
payments and orders each price the basket anew, from the row that the vehicle service keeps. An
admin's `createUser` and `resetUserPassword` go through the users service, as registration and
the holder's own change of password do.

## 2. Modules

```
OrderRules ── OrderPromises ─┬─ OrderLifecycle ─┬─ MCOrderLifecycle
                             │        ^         └─ OrderLifecycleProofs
                             │        │ implemented by (ImplementsLifecycle)
                             └─ OrderRequests ── OrderRefinement ─┬─ MCOrderRequests
                                                                  └─ OrderRequestsProofs

SupplierRouting ─┬─ MCSupplierRouting                     PaidExtras ─┬─ MCPaidExtras
                 └─ SupplierRoutingProofs                             └─ PaidExtrasProofs

                  SpendGate ─┬─ MCSpendGate
                             └────────────────────┐
                                                  ├─ VehicleDataProofs
ProviderStatus ── VehicleCache ─┬─────────────────┘
                                └─ MCVehicleCache

VedRates ── VedCalculator ── VedQuote ─┬─ MCVedQuote     Accounts ─┬─ MCAccounts
                                       └─ VedQuoteProofs           └─ AccountsProofs

Pricing, V62Form ── Checkout ─┬─ MCCheckout
                              └─ CheckoutProofs
```

* **OrderRules** - one order document as a record, and each handler as an operator on it:
  `CanX(o)` is the check the handler makes, `X(o)` the document it saves, `XAlerts(o, a)`
  the alerts it leaves. `applyFlag`, `restartWindow`, `pauseWindow`, `signOffMandate` are
  operators of the same names. Both state machines use these operators and define none.
* **OrderPromises** - what one order, and one order with its alerts, promise: predicates the
  two machines and the proofs share, each with the comment of the code it comes from.
* **OrderLifecycle** - a collection of orders where each handler is one step (load, check,
  save, alerts). Asynchronous even here: a window passing, the sweep, and the invoice email,
  which ends in `RecordEmail` or, where the write is refused and only logged, in `LoseRecord`.
  This is the abstract specification that OrderRequests implements.
* **OrderRequests** - the same handlers as the server runs them. `Load` takes a copy and
  decides on it, `Save` writes the changed paths, then each alert call is a step. `Merged`
  is mongoose's save (only paths the request changed, appends as pushes) and
  `VersionConflict` its version check, which it makes only when a whole array is replaced:
  here, `bankReview.flagged`. The sweep is `SweepFind`, `SweepMark` (update by id alone) and
  `SweepAnnounce`. With `Overlap = FALSE` a request starts only when nothing is in progress.
* **OrderRefinement** - how the two machines correspond. A request takes effect when it is
  saved: the alert calls it still owes count as made (`SettledAlerts`), its email as on its way
  (`EmailsOwed`), and a numbered window as running or lapsed (`PhaseAt`).
* **SupplierRouting** - the suppliers collection, call by call: `FindTarget`, `PullType` and
  `AddType` are the three calls of `assignOrderType` (which `create` repeats), `CountOpen` and
  `DeleteSupplier` the two of a removal, `Route` and `CreateOrder` the two of a checkout,
  `LoadForReassign` and `SaveReassign` those of a reassignment. Of an order it keeps the
  supplier and the status. `LoadOrder` and `SaveOrder` stand for the other handlers of
  OrderRequests, which save what they decided on the copy they loaded (`Successors`), and
  `SweepFind` and `SweepMark` for the sweep, which updates by id.
* **SpendGate** - the paid lookups of `VehicleDataClient`: the in-flight map, the conditional
  upsert as the two halves MongoDB may interleave (`ClaimSlot` or `ClaimMissed`, then
  `InsertRow` or `RefuseInsert`), the provider's answer or failure, the slot given back, with
  midnight, restarts and database errors anywhere in between.
* **VehicleCache** - one plate's row and the requests about it, await by await: `ReadRow`
  (`resolve`'s find, and its branches), `Remap`, `WriteRow`, `LookForIdentity` and
  `AddIdentity` are the five database calls; `LookedUp`, `Refused`, `Resolved` and `Decide`
  are the returns and throws between them, up through `lookup` and `lookupForV62`. The
  provider's answers are one step for every request that waits for the package, because the
  spend gate collapses them into one call (`OneCallPerKey`). Bought answers are numbered; what
  one says of the vehicle is a choice where the code branches on it. The Tax and the identity
  package each have a register of their own (`Providers`), and the identity package may also keep
  its answer back (`IdentitySays`), which the code makes null. A failure of Tax ends in the
  stale row (`TaxFails`), a database error of `claimBudget` does not (`TaxThrows`). What a package
  sends for a vehicle it has, or has not, is read by **ProviderStatus** (`readStatus`: envelope,
  package blocks, the provider's own verdict). It assumes that the provider does not word a
  problem of its own so that the `NO_SUCH_VEHICLE` pattern matches it ("account not found").
* **PaidExtras** - `purchase` and `place` as one protocol on two collections: `FindExisting`,
  `CheckPayment` (Stripe, then the lookups, any of which may refuse), `Create` against the
  unique index or `LoseRace`, `Mail`, `RecordEmail`. `LoadOrder` and `SaveStatus` are the two
  halves of an admin's `setStatus`. A restart drops every request and may bring other prices.
* **VedRates**, **VedCalculator** - DVLA's two leaflets as data, and `ved-calculator.ts` as
  operators of the same names (`Classify`, `Car`, `Hgv`, ...). A text that a pattern is looked
  for in is the set of patterns that match; a date is the number yyyymmdd.
* **VedQuote** - one vehicle from its first lookup on: `AskTax`, `AskDetails` and
  `AskValuation` are the three packages, each of which may leave facts out, `AddIdentity` (for a
  V62, or for the VIN of a vehicle nobody has priced) and `Remap` the later writers of the row,
  `Midnight` the days in between.
* **Accounts** - every request of the sessions and accounts components, write by write, with
  the process stopping anywhere: `CreateCheck`/`Create`/`Grant`, `ProfileCheck`/`ProfileUpdate`,
  `LoginCheck` or `Rotate` and then `Issue`, `ChangeRead`/`ChangeSave`/`ChangeSignsOut`,
  `ResetRead`/`ResetSave`, `DevicePull`/`DevicePush`. A password is who chose it, and callers
  with a wrong one are refused and left out. Mongoose saves the paths that changed, so a reset
  saves the mark only where it differs from what was read.
* **Pricing**, **V62Form** - what a basket costs, in pence, from a vehicle's rates; the checks
  of a V62 and of a mandate, as the set of boxes that are filled.
* **Checkout** - `placeOrder` from `Begin` (price, mandate, the customer's half of the V62)
  through `LookupForV62`, `Verify`, `RouteOrder`, `Number`, `Create` and one `Raise` per alert,
  with `RatesChange`, `CreateIntent` and `Pay` beforehand, an admin's `Reassign` and `Resolve`
  afterwards, and `Fails` anywhere. The WhatsApp alert is in OrderRules.
* **MCOrderLifecycle**, **MCOrderRequests**, **MCSupplierRouting**, **MCSpendGate**,
  **MCVehicleCache**, **MCPaidExtras**, **MCVedQuote**, **MCAccounts**, **MCCheckout** - instances
  for TLC, symmetries, and the reductions named below.
* **OrderLifecycleProofs**, **OrderRequestsProofs**, **SupplierRoutingProofs**,
  **VehicleDataProofs** (SpendGate and VehicleCache), **PaidExtrasProofs**, **VedQuoteProofs**,
  **AccountsProofs**, **CheckoutProofs** - section 5.

State correspondence:

| Model | Code |
|---|---|
| `order.supplier`, `reassignedFrom`, `status`, `invoiceStatus`, `communicationMethod` | the fields of the same names; `Nobody` is null. `invoice_uploaded` is never written by any handler and is left out |
| `order.invoice` | the supplier whose user uploaded the file, `Nobody` while null |
| `order.bankReview`, `fieldsFlagged`, `sendBacks` | `bankReview.status` (`"none"` on a card order), whether `bankReview.flagged` is empty, the supplier's notes counted by `sendBacks()` up to the first number above the bound |
| `order.flag` | `"none"` for null, `"standing"` while `resolvedAt` is null, otherwise its resolution |
| `order.dueAt` | in OrderLifecycle `"running"`, `"lapsed"` or none; in OrderRequests the number of the window, windows being numbered in the order they start |
| `alerts` | the notifications' types; raising is an upsert, so a set |
| `mailing`, `todo` | `emailInvoice` calls and alert calls still to come |
| `read`, `write`, `stale` | the loaded document, the edited one, and whether `__v` has moved since |
| `suppliers`, `request`, `due` | the collection (`Absent` not created, `Removed` deleted; `"inactive"` is Holiday too, which routes alike), what each request has found so far, and what the sweep has found and not yet marked |
| `usage`, `inFlight`, `caller` (SpendGate) | `vehicle_data_usage`, the client's map, and each lookup's place in `fetchPackage` |
| `row` (VehicleCache) | the document: `raw`, whether `detailsRaw` is there, whether `vehicle` was mapped with it (`vin`), the build that mapped `details` (`readBy`), `mappingVersion`, `fetchedAt`; the register's entry is `onFile` |
| `call` (VehicleCache, PaidExtras) | each request's place in its method, with the local variables it holds across an await |
| `intent`, `sold`, `price` | Stripe's intents with their metadata, the two collections by `paymentIntentId`, the configured fees |
| `provider` (VehicleCache) | outside: of the Tax and of the identity package, whether it has the vehicle, and how its responses can then be read |
| `row`, `asking`, `tax`, `details` (VedQuote) | `raw`, `detailsRaw`, `valuationRaw` and `details.ved` of the row, and the local variables of `resolve` between its calls; `row.on`, `row.asked` and `row.late` are for the properties |
| `account`, `live`, `holders` | the users, their sessions' refresh tokens, and each device token's accounts |
| `request` (Accounts, Checkout) | each request's place in its method, with what it read |
| `ved`, `intent`, `orders`, `counter`, `alerts` | the rates a lookup finds, Stripe's intents, the orders in order of creation, the `orderNumber` counter, each order's notifications |
| `billed`, `strays`, `broughtBy`, `reopened`, `unrecorded`, `late`, `bills`, `paidAt`, `solo`, `after`, `mailed`, `setBy`, `signIn`, `since`, `signIns`, `signOuts`, `raced`, `alone`, `lost`, `overtaken` | no state of the code: the calls charged, the slots given back to another day's row, who gave an order its supplier and whether it was opened again, the orders an outcome of an email was refused for, the rows whose identity came after their price, what was paid for and when, which requests overlapped or were retries, the receipts that left, who chose a password, which sign-in a token descends from and how many sign-outs it has seen, the orders whose request stopped or was overtaken, for the properties to speak of |

Abstracted: names, prices, texts, the timeline's entries, the mandate's values, and the
timestamps that only record a step the status already shows.

## 3. Runs

One order is enough in both order machines: no handler reads or writes another order, and
the sweep treats each order it finds alike. The proofs are for any set of orders.

| Run | Question | Bounds |
|---|---|---|
| `lifecycle` | Do the order, its mandate, flag, window and alerts ever disagree, after any sequence of calls? Is a lapsed window always acted on, and the outcome of an email always recorded? | 2 suppliers (one to reassign to and back), `RoundsBeforeFlag` 3 as in the code |
| `requests_serial` | Do load, save and alert steps, without overlap, implement the one-step lifecycle? | 4 windows, every kind of purchase |
| `requests_overlap` | What survives any overlap of two requests and the sweep? | 2 requests (an overlap is a pair), 2 windows (the first one and a fresh one), 1 round |
| `routing` | Can a type have two holders, or an order a supplier that is gone? | 3 suppliers (the giver, the taker and a bystander), 2 types, one order, one admin, one customer and one other handler at a time, and the sweep |
| `spend_gate` | Can a day's lookups pass the limit, be paid twice, go uncounted or wait for ever? | 3 callers of 2 keys (one joins, one competes), `Limit` 2 (the last slot and one before it), `LastDay` 2 (one midnight) |
| `vehicle_cache` | Is a plate ever paid for again while its answer is kept and fresh, an old mapping served, a row torn between two readings, a failure told as an absence, or a bought identity not served? | 2 requests (an overlap is a pair), `TTL` 1 in `MaxTime` 2 (one expiry, with a request before and after it), `MaxVersion` 2 (one deployment), `MaxBills` 2 (the answer and its refresh) |
| `paid_extras` | Can one payment give two sales, or a sale that is not what was paid for? Can a retry be refused, or a change of status be lost? | 3 requests (two racing and a third retrying, or two admins and the receipt) on 1 payment, since nothing relates two; 2 customers, 2 registrations, 2 prices (the right one and another), 2 statuses, `MaxHistory` 3 |
| `ved_quote` | Is anything priced wrongly on a boundary, guessed without saying so, or priced otherwise when it is read again? | Some 390 vehicles, one on each side of the leaflets' bands, weights and dates, some of them with packages that contradict each other or heavy with no Euro status on record; each field of VehicleDetails left out on its own; 5 list prices around the two thresholds; 3 days around the end of a supplement and of a year |
| `accounts` | Can requests that overlap, or stop half-way, break an address, a token, a reward, a mark or a phone? | 3 accounts (two that collide or invite, and a third) with 3 addresses, 1 phone (nothing relates two), 2 requests at a time, `MaxRequests` 4, `MaxCrashes` 1 |
| `checkout` | Can an order differ from what was paid for it, share a number, have a form nobody can print, or wait unseen? | 3 requests (two checkouts and an admin), 1 payment and 2 customers (somebody else's payment), 1 supplier or none, 3 rate tables, 3 baskets, `MaxCheckouts` 2 |

Bounds by name: `RoundCap` stops counting send-backs above the only value they are compared
with; `MaxWindows` bounds the windows started, through `Load`'s guard; `Workers` the
requests in progress; `LastDay` the midnights; `MaxTime`, `MaxVersion` and `MaxBills` the
ticks, deployments and Tax answers of VehicleCache; `MaxHistory` the changes of one plates
order's status; `MaxRequests` and `MaxCrashes` the requests begun and the restarts of Accounts;
`MaxCheckouts` the order numbers given. Requests, callers, customers and registrations are symmetric where a run says
so: no property of those runs is a liveness property, and none names a member of these sets. `Purchases` is `AllPurchases` or
`LongPurchases` (the two that go the longest way: Direct Debit over WhatsApp, card with V62
over WhatsApp).

`requests_overlap` reduces the graph twice. `SavedRequestsFinish` runs a saved request to
its end at once, and the view `AllButAlerts` does not tell alerts apart. Both are sound for
the properties of that run, because no guard reads the alerts or the email's outcome and
none of its properties does. `WindowLapses` assumes a request is shorter than a window:
a copy loaded before a window was stored is not saved after that window has lapsed
(the code's window is minutes, a request seconds).

The type invariants, `FlagsAndWindowsAwaitInvoice` and `ReviewLoopSound` are proved (section 5)
and not run. Of what the passing runs check, all but the three liveness properties is proved as
well.

What the properties say, and the hazard each is for, is in the comments beside them. The
ones worth reading first:

* `NoOrderParked` - an order awaiting its invoice has a window, a flag or a mandate with the
  customer. Otherwise no sweep, alert or list would ever bring it up.
* `InvoicesAreEarned` - an invoice stands on a signed-off mandate and is the holder's own.
* `ReviewLoopSound`, `LoopSurvivesOverlap` - a loop past its bound has been shown to an
  admin, one request at a time and with overlaps: there the version check is what keeps it.
* `ClockStoppedUnlessReassigned` - the clock runs on a flagged order or on the customer's
  turn only after a reassignment.
* `AlertsTrackOrders` - what has to be acted on is listed and the list is current, for every
  alert but the overdue one, which is only guaranteed to be there.
* `ClosedIsTerminal`, `AssignedForGood`, `LapseAnnouncedOnce` - what no step may do.
* `OneHolderPerType`, `OnlyNamedRacesOrphan` - what the two-write and count-then-delete
  protocols of `SuppliersService` keep when admins do not overlap, while checkouts, the sweep and
  other handlers do.
* `RowWithinLimit`, `CountedButForMidnight` - together the ceiling: what is charged or may
  yet be on a day is at most the limit, plus the slots wrongly given back to that day.

* `ServedByThisBuild`, `RowStaysWhole` - a deployment's mapping reaches every answer; and
  three writers of one row leave it of one reading while they do not overlap.
* `PaidOnceWhenKept`, `FailuresToldApart`, `BoughtIdentityServed` - what a paid answer is good
  for, with the exact exceptions the code has: requests that overlapped, a row written over; and
  an outage of Tax is never told as "no such vehicle", nor as anything where an answer is kept.
* `OnePaymentOneSale`, `SoldAsPaid`, `RetryGetsTheSale` - what a customer may count on after
  paying, through retries, overlaps, failed writes, restarts and changes of price. A read that
  fails is left out of PaidExtras: it stores nothing and the customer retries.
* `NoChangeIsLost` - two admins and the late receipt save one document without losing each
  other's change, and its status is the last of them.
* `UnaskedListPriceIsMoot`, `RereadingKeepsThePrice` - what was not bought could not have
  mattered, on that day or a later one; what was bought is kept, so that a price can be made again.
* `OnlyNamedGuesses`, `MoreIsNeverCheaper` - the definition `Guessed` is the whole list of what
  the calculator does without, for records that agree (`Agree`); and across every band a bigger vehicle never pays less.
* `OneTokenPerSignIn`, `AdminPasswordsAreMarked`, `PhoneIsHandedOver` - two-write protocols that
  hold for any overlap, or for what did not overlap, as each says.
* `PaidForWhatItCosts`, `UnassignedAlertsTrack` - of an order and its payment, and of an order
  and its alert, with several awaits in between.

Fairness. In OrderLifecycle (`MCFairSpec`): weak fairness of `SweepOverdue`, because the cron
fires every 30 seconds and a failed sweep is logged and retried by the next, and of
`RecordEmail \/ LoseRecord`, because the mail transport has timeouts and `emailInvoice` goes on
to record either outcome, in a write that succeeds or is refused and logged. Nothing makes it
succeed, so the run keeps which orders had a record refused (`unrecorded`). In SpendGate: weak
fairness of each caller's `Spend`, because the fetch is aborted after `requestTimeoutMs` and a
database call returns or throws, which are steps of `Spend` alike. A database that hangs for
good and, in OrderLifecycle, a process that stops are excluded. People, midnight and the
passing of a window are under no obligation.

Deadlock is checked in `vehicle_cache`, `paid_extras` and `checkout`, where somebody can always
ask again. It is not in the others: a closed order is a legal end, and so are a supplier list
nobody changes, a day without lookups, the last day of VedQuote and the last request of Accounts.

## 4. What the runs found

Each `Finding*.cfg` checks one property that a comment of the code states, and TLC shows a
shortest behaviour that breaks it. Both are of overlapping requests.

1. `swept_when_closed` - `sweepOverdue` updates by id what it found earlier: an order
   invoiced in between goes from `invoice_sent` ("Terminal.") to `overdue`. (One reassigned in
   between is overdue in a window just started.)
2. `signed_out` - a login or a refresh that has passed its check when a password change, or
   `logoutEverywhere`, deletes every session stores its own afterwards: that device is not
   signed out.

Some departures have no run of their own. The wording or the hypothesis of a property that
holds marks where each one ends:

* `ClockStoppedUnlessReassigned`: `reassign` asks neither about a flag nor whose turn the
  mandate is, so that a flagged order, or one with the customer, gets a running window.
* `AlertsTrackOrders` excepts `supplier_overdue` from being current: an upload, or a mandate
  coming back, takes an order off overdue and leaves the alert.
* `BoughtIdentityServed` excepts a refreshed row: the identity a V62 order bought is written
  over with null when Tax prices the vehicle anew, and the next V62 order buys it again.
* `LoopSurvivesOverlap` says nothing of the flag: one decided before an upload and saved after
  it stands on an invoiced order, which an admin can then cancel.
* `OnlyNamedGuesses`: `calculateVed` "refuses rather than guesses", but for the guesses that
  the definition `Guessed` lists; the comments of the code own up to most of them. One it does
  not own up to came out of the proof: a lorry with neither a Euro status nor a date of first
  registration is charged as if it were older than Euro VI, whatever its date. And it is said
  of records that agree: where the wording says "car" of a motor caravan, or the two packages
  disagree on the CO2 or the year, the fact that was left out decided between them.
* `AdminPasswordsAreMarked` is of accounts whose change and reset of the password did not
  overlap. Where they did, the password may be the admin's and not be marked: the change saves
  `mustChangePassword: false` and the reset, which read true, does not save it again.
* `PhoneIsHandedOver` is of a registration that no other of the phone overlapped. Two that
  overlap pull and pull, then push and push, and both accounts hold the phone until the next.
* `RewardsMatchInvitees` excepts a stop between the account and the reward: nothing grants it
  later. And a reward is never spent: `consumeFreeOrder` has no caller, though the schema says
  of free orders that one is "spent on the next order placed" (`user.schema.ts:80`).
* `PaidForWhatItCosts` does not say that a payment pays for one order. A checkout retried after
  its answer was lost passes `verifyPaid` again and places a second order on the same payment.
* `UnassignedAlertsTrack` excepts an order reassigned before its checkout raised the alert: the
  reassignment resolves what is not there yet, and the alert then stands.
* `ClosedIsTerminal` excepts the V62 of a cancelled order: `markV62Printed` is the one action
  without `assertLive`.
* `OnlyNamedRacesOrphan` excepts the order of a checkout that had routed when its supplier was
  removed, and a closed order, which the count leaves out, that is opened again later: by a sweep
  that found it before it was closed (finding 1), or by the save of a handler that had loaded it.
* `EmailOutcomeRecorded` excepts an order for which the database refused an outcome:
  `emailInvoice` promises that "a failure is written down as a failure", but catches the failure
  of that very write and only logs it (`orders.service.ts:614-619`).
* `FailuresToldApart` calls `assumed-absent` a 404 for a plate that Tax has no record of while the
  identity package, which might have one, was not asked or did not answer. `fetchOptional` makes
  its outage, or its spent budget, null, and `fetchTaxAndIdentity` then throws Tax's "not found".
  `vehicles.service.ts:178-180` says of such a provider that it is "a 503, never a 404", and so
  do lines 225-229. A stale row is not served then either.
* `UnaskedListPriceIsMoot`, `OnlyNamedGuesses` and `RereadingKeepsThePrice` except a row whose
  identity came late. `addIdentity` does not ask whether the row was priced: a lookup whose
  identity package was down keeps a row without a price, and the VIN check of the same plate
  (`vin.service.ts:59`) then adds the identity alone. The row stays without a price until the next
  mapping, which prices it, for a car in the window of the supplement, at the standard rate without
  its list price (`Overlooked`): too low where that is above the threshold.
* `OneHolderPerType` is checked and proved for one admin at a time. Two, giving one type to
  two suppliers, both pull and then both add: the type has two holders.
* `NoOrderParked` is of requests that do not overlap. An admin's `sendBack` and the
  customer's `resubmit`, overlapping, each leave the clock to the other, and the order waits
  with no window.
* `CountedButForMidnight` excepts the slots `releaseBudget` gives back to the new day's row
  when the call was claimed from the old one's.
* `RowWithinLimit` says nothing of refusals. The first two lookups of a day both find no row
  and race to insert it, and the loser's duplicate-key error is read as a spent budget
  (MongoDB retries such an upsert by itself only when the query is of equalities, and
  `calls: { $lt }` is not one).
* `PaidOnceWhenKept` is of requests that do not overlap. One that read no row before another
  wrote it, and asks Tax after the other's call has settled, pays again inside the TTL.

## 5. Proofs

**OrderLifecycle**, for any orders, suppliers and number of rounds, from the named
assumptions on the constants (`Nobody` is no supplier, `NoDeadline` no deadline, `Absent` no
order, the two phases of a deadline, `RoundsBeforeFlag` a natural number):

* `InvHolds` - `Spec => []Inv`, `Inv` being the type invariant, the state invariants of the
  `lifecycle` run, `FlagsAndWindowsAwaitInvoice` and `ReviewLoopSound`.
* `ConsistentHolds`, `NothingParked`, `InvoicesAreEarnedHolds`, `ClockHolds`, `AlertsHold` - the
  run's five invariants, `OrdersConsistent`, `NoOrderParked`, `InvoicesAreEarned`,
  `ClockStoppedUnlessReassigned` and `AlertsTrackOrders`; `TypeHolds`, `FlagsAndWindowsHold` and
  `ReviewLoopHolds` are the others.
* `ClosedStaysClosed` - `Spec => ClosedIsTerminal`.

No single invariant is inductive. A flag stands only on an order with a supplier because
only a held order is flagged *or* escalated, and escalation happens on the mandate's way
round (`SentBackBySupplier`); `AlertsTrackOrders` needs the statuses to agree; `NoOrderParked`
needs the flag to await an invoice; `RecordEmail` changes an order, so an email in progress
must belong to one (the last conjunct of `TypeOK`). Their conjunction `Inv` is inductive.

The argument has two layers. One lemma per handler says that its operator keeps `Sound(o, a)`,
all the promises of one order and its alerts. The second layer
shows that `Inv` is `Sound` of every placed order (`InvByOrder`), that storing a sound order
keeps it (`StoreKeeps`), and goes through the actions.

**SupplierRouting**, for any suppliers, types, orders and checkouts:

* `TypeHolds` - with any number of admins.
* `ExclusiveForOneAdmin` - `OneHolderPerType`, from the hypothesis that there is one admin
  (section 4 says what happens with two). The strengthening is `PulledBeforeAdded`: while a
  hand-over stands between its two writes, nobody but its own target holds the type.
* `CountCoversReassignments` - `OnlyNamedRacesOrphan`, from the same hypothesis and for any
  number of checkouts, handlers and orders the sweep has found. The strengthening adds that a
  removal past its count still faces no open order of that supplier but those of the two named
  races (`CountStillGood`), and that a reassignment in progress has a target that exists
  (`TargetsExist`). A write that decided on an earlier state either leaves an order as open or
  closed as it was, or marks it as opened again (`OpenOrdersKept`).

**OrderRequests**, for any number of requests at once, suppliers, rounds, windows and purchases.
From the same assumptions as OrderLifecycle, windows being numbered (`WindowAssumption`):

* `LoopAlwaysSurvives` - `LoopSurvivesOverlap`; `AnnouncedOnceAlways` - `LapseAnnouncedOnce`;
  `AssignedForGoodAlways` - `AssignedForGood`; `RequestsTypeCorrect`. With or without overlaps.
  None is inductive, since what a request will save was decided on a copy. The invariant
  `OverlapInv` (`OverlapInvHolds`) keeps what the copies are worth:
  - `RequestsDecide`: what is about to be saved was decided on what was read, by a handler
    (`Decided` says what no handler ever decides: `DecisionFacts`, from a lemma for each of them);
  - `CurrentCopies`: a copy no save has overtaken agrees with the order on all that the review
    loop asks, so that the version check lets only such a copy change the loop;
  - `WindowsOutlast`: a window that has lapsed was stored before any request in progress loaded,
    so no save puts back a window whose lapse was announced (`ToldIsOverdue`);
  - `AssignmentKept`: no copy in hand is of an order from before it had a supplier, once it has,
    that would write the status back.
* `RequestsImplementLifecycle` - `ImplementsLifecycle`, from the hypothesis that nothing overlaps
  (`~Overlap`). This is the refinement `requests_serial` checks, step by step: a load, an alert
  call, a sweep's find and its announcement are stutters, the save is the handler's one step, the
  sweep's mark is `SweepOverdue`, and recording an email's outcome is `RecordEmail`. It needs
  that a copy in hand is the stored order and its decision still stands, and that an email is
  the last of the calls (`SerialInv`, `SerialInvHolds`). Three kinds of lemma carry it: each
  handler's document in the phase of its window is the document of the one-step handler, its calls
  made one by one come to the one-step handler's alerts (`Comes`, by the last call about each
  alert, so that no induction over the calls is needed), and making the first of several calls
  leaves what they come to as it is.

**SpendGate**, for any callers, keys and days and any positive limit:

* `GateInvHolds` - the invariant that the other three rest on, with the type.
* `LimitHolds` - `RowWithinLimit`: every write that raises a row starts below the limit.
* `OneCallHolds` - `OneCallPerKey`, inductive by its three parts together: a spending call is
  the one its entry names, an entry names a spending call, and whoever waits has an entry.
* `CountHolds` - `CountedButForMidnight`, by counting the calls that hold a slot: a step
  takes at most one caller into that set, with the row raised, or takes one out, with at most
  one charge or one slot given back; a restart charges a part of it and empties it.

**VehicleCache**, for any requests, TTL and number of deployments, from the named
assumptions on the bounds (`NoRow` is no row, at least one version and one tick of TTL):

* `InvHolds`, and from it `TypeHolds` and `ServedByThisBuildHolds`. `ServedByThisBuild` is not
  inductive: what a request is told was read from a row or held since before an await. `Inv`
  adds that a row's stamp is the build that mapped it and none to come (`Stamped`), and that
  a request waiting for Tax holds a row of the running build, while one about to remap or to
  add an identity still has a row to update (`HeldBy`).

* `PaidOnce`, `RowsStayWhole`, `FailuresAreToldApart`, `BoughtIdentitiesServed` - the run's four
  action properties, from a second invariant (`AloneHolds`). They speak of requests
  that nobody overlaps, and `AloneInv` says what that is worth: such a request is the only one in
  progress (`Sole`); what it read of the row before an await is still so after it, and an expired
  row is why it asks Tax (`Sees`); what it has in hand is the last answer paid for, dated no
  earlier than it was paid (`Keeps`, `Dated`). That a package says "no such vehicle"
  only where it has none is a lemma about `ReadStatus` for every payload of one or two package
  blocks (`NoSuchVehicle`), and holds with overlaps too. `FailuresAreToldApart` carries it through
  both packages (`TwoRegisters`): a request waits for the identity package without a Tax answer
  only after Tax said so.

**PaidExtras**, for any requests, payments, customers, registrations, prices and statuses,
from the assumptions that the prices are numbers and the first status is one:

* `OnePaymentOneSaleHolds`, `SoldAsPaidHolds`, and `TypeHolds`. The unique index is of one
  collection and there are two, so it is not enough by itself. What makes it enough is that
  a request past its check is paid for (`Checked`): its goods are the payment's own, as are
  those of any sale there is, so that the two are in one collection. `Checked` also keeps the
  price of a request about to create equal to the amount paid, because prices change only
  with a restart; `Mailer` and `OneMailer` keep the receipt to one.
* `NoChangeIsEverLost` - `NoChangeIsLost`: every writer of a sale, an admin's save and the
  receipt's record, leaves a history that the old one is a prefix of (`Becomes`), and the status
  is its last entry (`HistoryInv`).
* `RetriesGetTheSale` - `RetryGetsTheSale`: a request that began after the sale is still looking,
  and will find it, because a sale is never taken away (`AfterInv`). It is not sent to the check
  of the payment or of the price.

**VedQuote**, for any vehicles, silences, list prices and days, from the types of those
constants:

* `PriceIsReproducible` - `RereadingKeepsThePrice`. Each writer stores the price its answers
  give, except `AddIdentity`, which leaves the price alone: a row that has a price and no identity
  has it from the Tax package (`PricedWithoutIdentity`), whose rate decides whatever the identity
  says. A row that has neither is the exception.
* `NoListPriceMissed` - `UnaskedListPriceIsMoot`. What is left, once the identities
  added late to a car in the window are set aside, was not needed on the row's day. The step from the day of the lookup to every
  later day is a lemma about the calculator: when the list price is not needed on a day it is not
  needed later, and where it is not needed no clause of `CalculateVed` reads it.
* `MorePaysNoLess` - `MoreIsNeverCheaper`, of any two vehicles and not only of those of the run.
  A lemma per kind compares what two readings pay, and needs three facts of the tables: a bigger
  size falls in the same band or a later one (`BandsInOrder`), every table ends in a band for all
  sizes and rises (`Rises`, one lemma per table), and where a fact takes a vehicle from one table
  to another - a heavier motorcycle, a car whose CO2 is not on record - the dearest rate of the
  one is below the cheapest of the other. It assumes that no size is above `Unbounded`, which stands for
  the code's `Infinity` (`SizesAssumption`).
* `GuessesAreNamed` - `OnlyNamedGuesses`. Whatever is stored is part of what the vehicle's packages
  say, or silence (`SaidInv`). Reading a part gives the vehicle's kind, CO2 and year or does not
  know them, where the records agree (`KindOfPart`, `OrOfPart`), and a lemma per kind shows that
  the calculator then refuses or gives the vehicle's own price (`NothingGuessed`). That a guess at
  a Euro standard errs high is `EuroGuessErrsHigh`. The first attempt failed at the lorry of
  section 4: `Guessed` did not list it, no vehicle of the run showed it, and both do now.
* `TypeCorrect`, and `SpecInv` for the invariant they share.

The order of the calculator's `if`s matters: an electric motorcycle over 450 kg, or a vehicle with a
special taxation class and a category, satisfies two conditions and the first decides. In TLA+ a
`CASE` with two true guards is either of them, so these are written with `IF ... ELSE IF`, and
`CASE` is kept for alternatives that exclude each other.

**Accounts**, for any accounts, addresses, phones and requests at a time (`None` is no account,
the bounds are numbers):

* `TokensAreUsedOnce` - the sign-in a token descends from has a number that no other sign-in
  had, and the token is gone before its successor is on its way.
* `AddressesAreUnique` - by the unique index: every write of an address looks at what is stored.
* `RewardsAreEarned` - `RewardsMatchInvitees`, by counting: the step that creates an invitee's
  account adds one to the invitees and one to the rewards owed, the step that grants takes one
  from those owed and gives one, and a crash only forgets what is owed. It needs that inviters
  exist, since an account is never deleted, and that both sets are finite, which is proved from
  the initial accounts on and not assumed.
* `MarksAreRight` - a save leaves the mark as it finds it where it would set what was read.
  `MarkInv` says that, away from races, what it read is then still so.
* `PhonesChangeHands` - a registration that is alone still faces the empty list it left.

**Checkout**, for any requests, payments, customers, suppliers, baskets, forms, fees and rates in
whole pence (`RatesAssumption`, `FeesAssumption`; `NoForm` is no form, `Nobody` no supplier and
`NoPayment` no payment):

* `NumbersAreUnique` - `OneOrderPerNumber`: the counter is ahead of every number that is on an
  order or on a checkout about to be stored, and no two of these share one (`NumbersGiven`).
* `OrdersCostWhatWasPaid` - `PaidForWhatItCosts`. A checkout holds from `Begin` on a price whose
  parts add up and whose instalments come within six pence of it, since `Rounded` is off by at
  most half a penny of twelve (`PriceIsSound`); past `Verify` its payment is its customer's, has
  succeeded and is of that price, and intents that succeeded are never written again. Rates that
  move in between move neither.
* `FormsPrint` - `PrintableForms`: what passes `V62Problem` has every box that DVLA asks for, typed
  or from the account.
* `UnassignedAlertsHold` - `UnassignedAlertsTrack`: an alert that does not stand yet, or still does,
  is owed by a checkout or a reassignment in progress. The invariant adds that an order which got
  a supplier while its checkout still has the alert to raise has a reassignment that resolves it
  later, or is one of the exceptions already (`AlertsAccounted`).

Model-checked only, and why:

* `LapsedWindowIsActedOn`, `EmailOutcomeRecorded` and `EveryCallerAnswered` are liveness under
  fairness, which needs ENABLED and is out of the prover's reach.
* `ImplementsLifecycle` is of the steps; that the refinement keeps the fairness OrderLifecycle
  assumes is neither proved nor run.

Nothing is proved of what the calculator computes against a reference definition, as there is none:
the leaflets are its data, and the properties are about how its bands fit together.

## 6. Not modelled yet, and the plan

In order, most important first:

1. In OrderRequests: a process stopping between a save and its alerts, and the order in which
   two emails' outcomes land.
2. Checkout with SupplierRouting's own routing, and the free order once the code spends it.

Left out for good: wording, layout and PDF drawing, serializers, DTO validation, guards,
configuration, file storage, push and realtime delivery, the seeder, health checks. They
keep no state that a property here could be about.
