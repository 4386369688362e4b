# D BOT: a verification project

D BOT sells VPN services over Telegram. Customers buy from a bot or from its
Mini App, pay by wallet, card receipt or cryptocurrency, and receive a client on
a remote panel (3x-ui, PasarGuard, MikroTik). Resellers run their own customers
on the owner's panels and are billed by traffic (PAYG) or from a prepaid pool of
gigabytes (volume). The owner runs the shop from a web panel. This directory
models the parts of the program that move money, quota and orders, and the
browser side of the Mini App's checkout and of the web panel; it checks them with
TLC and proves the most important results with TLAPS.

Contents: [inventory](#inventory), [what makes it hard](#what-makes-it-hard),
[modules](#modules-and-the-code), [runs](#runs), [what the runs found](#what-the-runs-found),
[proofs](#proofs), [what is not modelled](#what-is-not-modelled), [plan](#plan).

To repeat a run: `tlc -config orders_card.cfg MCOrders`; a proof:
`tlapm Frontend_proofs.tla`.

## Inventory

Two processes share one PostgreSQL database (READ COMMITTED) and one Redis: the
bot (`app/main.py`: aiogram handlers and APScheduler jobs) and the API
(`app/api/main.py`: one uvicorn process, FastAPI handlers and `worker_loop`).
Both are asyncio programs: a handler runs without interruption between two
`await`s, and any number of handlers are suspended at theirs. What protects shared
rows is `SELECT ... FOR UPDATE`; what protects nothing is an object loaded
without it and written back later (`expire_on_commit=False`, so it is not even
refreshed after a commit).

The third part runs in a browser tab: `frontend/` (React, Next.js) is the web
panel and the Mini App. A tab is one thread, but its requests are served and
answered in any order or lost, its handlers resume in a component that has
changed or gone, and its only memory across a reload is `sessionStorage`.

| Component | State | Operations | Talks to | Must be true |
| --- | --- | --- | --- | --- |
| Retail orders | `orders.status`, `receipt_file_id`, `client_services` | checkout, buy, renew, upload receipt, approve, reject, cancel, provision, recover | wallet, discount codes, panels, referral | delivered once; a paid order stays paid; a queued order settles |
| Buyer's wallet | `users.wallet_balance` | checkout, chat purchase, renewal, top-up, commission | orders, panel metering, conversion | moves by exactly what was bought, topped up and earned; no overdraft |
| Discount codes | `discount_codes.used_count`, `discount_usages` | validate, mark used, release | orders | never used more often than its limits; reserved as long as its order lives |
| Referral commission | the referrer's wallet | `apply_purchase_commission` | orders | credited once, and nothing else is lost |
| Reseller PAYG ledger | `reseller_accounts`, `reseller_usage_meters`, `reseller_billing_entries`, `reseller_wallet_receipts` | record a reading, settle, switch mode, change tariff, credit, review receipt | panels, services, Mini App | traffic is billed once, at the tariff in force; the wallet balances |
| Reseller GB pool | `total_bytes`, `reserved_bytes`, per-service reservation | create, renew, disable, delete | ledger | bought = sellable + allocated + consumed |
| Reseller suspension | `suspended`, `suspension_pending`, `disabled_reason` | `_reconcile_suspensions`, manual pause | panels, ledger | a manual pause is never undone; debt stops traffic |
| Billing-mode switch | `mini_app_operations`, the profile's `transition` | `start_switch`, `run_switch` | ledger, pool, panels | resumable; money and quota are converted once |
| PasarGuard panel metering | `pasarguard_panel_meters`, `users.wallet_balance` | `poll`, `resume`, tariff change | panel, wallet | charged once; users disabled for debt are enabled again |
| PasarGuard panel sales | `pasarguard_panel_orders` | buy, approve, deliver | metering | delivered once |
| Mini App operations | `mini_app_operations` | submit, process, recover | panels, wallet | each key is executed once |
| Service conversion | `service_conversions` | claim, create target, retire source, recover | panels | a source is converted once, no quota is minted |
| Clean-up and deletion | `service_deletion_tasks` | grace period, delete, retry | panels, pool | deleted on the panel eventually, refunded once |
| Ownership transfer | `client_services.user_id` | offer, accept | orders | one owner, with a live offer |
| Mini App checkout screen | React state, `sessionStorage` (key, order) | quote, purchase, refresh, upload, cancel, restore, start afresh | `POST /checkout` and the orders | one purchase is one order and the tab knows it; its result is shown |
| Web panel: shell and loading | section, search, page, session, `useApi` | navigate, search, page, refresh, poll, act, log in again | every section | rows belong to the request on screen; polling resumes |
| Web panel: forms | `FormModal`: values, hidden fields, operation id | open, change, test, save | shell, resellers' wallets | what is sent is what is shown; one adjustment per form |
| Web panel: sections with drafts | drafts, orders of lists, busy flags | reorder, save, test, back up, restore, reset | `useApi`, settings | a draft is not overwritten; no secret meets another file; no flag stays set |
| Web panel: custom texts | selection, filter, draft | select, type, save, reset | settings | a text is saved under its own key |
| UI language engine | chosen language, `textSources`, observer records | render, observe, flush, switch | React and the DOM | every text is in the chosen language, and comes back unharmed |
| Everything else | | pricing, catalogue, reports, backups, tickets, settings, web access, Telegram transport, small settings cards | | no protocol of its own; see `PROJECT.json` |

`PROJECT.json` lists every component with its sources and status.

## What makes it hard

* **Interleavings.** Two reviewers, a customer and two workers act on one order;
  a checkout, a chat purchase, a top-up and a commission move one wallet.
* **State read before an `await`.** The build of a service takes seconds; what
  was read before it (balance, status, `used_count`) may be stale after it.
* **Lost answers.** A panel may have created a client although the call failed,
  and a process may die before the commit: the program must not create it again
  on its own.
* **Stale readings.** A panel's counter is read outside the account lock and
  recorded later; a smaller number may mean a reset or an old reading.
* **Long sequences.** Tariff edits, mode switches, resets, retries and deletions
  of one reseller must leave every byte billed once at the right rate.
* **Retries.** Double clicks, repeated transfers, resumed operations.
* **Answers that come late.** The owner has moved to another section, page,
  server or file; the buyer has left the screen, reloaded, or started afresh.
* **Stale closures.** An interval or an effect keeps the state of the commit that
  created it.
* **Two writers of one DOM.** React and the language engine rewrite the same
  text nodes, and the engine must not take its own translation for a source.

The 40 hazards in `PROJECT.json` name the line where each bites and the property
that watches it, or why none does yet.

## Modules and the code

### Orders

`Orders.tla` is the life of retail orders. A *worker* is a suspended handler:
`task[w]` holds its program counter, its order and what it has read. Handlers
that hold their row locks from the first read to the commit are one action
(`Checkout`, `Approve`, `TopupApprove`); handlers that await in between are one
action per segment. Provisioning, for instance, is
`Approve` or `QueueTake` (commits "processing"), `ProvisionBegin` (takes the
order's lock), `RemoteDone` or `RemoteFail` (the panel), `ReadReferrer` (the
commission is computed), `Commit` (one transaction: service, status, commission,
debit, discount row), or `HandlerRead` and `HandlerWrite` (the except branch,
which reads and then writes the status without a lock).

| Model | Code |
| --- | --- |
| `status`, `receipt` | `orders.status`, `orders.receipt_file_id`; "none" before the row exists, "deleted" after it is removed |
| `wallet`, `bonuses` | `users.wallet_balance`, the `referral_commission` rows |
| `used`, `usage` | `discount_codes.used_count`, `discount_usages` of one code |
| `delivered`, `remote` | committed deliveries; what the panel really did |
| `asked` | history: a purchase or an operator's approval asked for a build |
| `Kind[o]` | how the order is paid: Mini App wallet or card; chat card, wallet or crypto; card or wallet renewal; wallet top-up |
| `HoldsOrder`, `HoldsUser`, `SharesUser`, `HoldsCode` | row locks, derived from where each task stands rather than stored |
| `Crash` | the process dies: its tasks vanish and their transactions roll back, the panel's work stays |

Three details are easy to miss. Inserting a service or an order takes `FOR KEY
SHARE` on its user, which blocks the `FOR UPDATE` of another handler but not a
plain update of the balance. `apply_purchase_commission` credits
`wallet_balance` and one of two display balances; only the first can be spent
and only it is modelled. A crypto payment updates its order when the commission
query flushes it, so it holds the row only from there on.

Simplified: prices, commissions and referrers are constants; there is one code;
the 15 minutes before `Recover` are left out, since the loop may be arbitrarily
slow; a repeated `POST /checkout` finds its key and changes nothing, so it is no
step; expiry and permission checks that depend on no modelled state are
refusals, and a refusal is no step.

### ResellerLedger

`ResellerLedger.tla` is one reseller's PAYG account. Most writers load the
account under its lock, so a database-only handler is one action; reading a panel
is outside the lock, so a refresh is `ReadPanel` and later `Record`. A guarded
reader (the Mini App) drops its reading if the row has changed meanwhile; the
others do not. `settle` is the operator pair `Metered` and `Debit` over the
services it walks, used by `Cycle`, `SwitchToVolume`, `UpdatePolicy`,
`SaveRates` and `Delete`.

Three writers load the account before they lock it, and a `SELECT FOR UPDATE`
does not refresh a row that the session has loaded. Each is a *session* with a
`copy` of the account:

* the owner's live view (`GET .../settings?live=true`, `reseller_finance.py:65-72`):
  `Load` (`target` without a lock), `ViewPanel` (the first config is read from
  its panel; the account lock is only taken to record that reading), `LiveSettle`
  (the other panels, the recording, `settle` on the loaded account, the commit);
* the transfer in the Mini App (`miniapp_payments.py:93-117`, which loads the
  account in `funding_quote`) and the approval of a join
  (`reseller_onboarding.py:195-219`, which also gives the account its own rate):
  `Load` and `CreditUnlocked`.

What they write rests on the copy: the balance, and whether the account is under
PAYG at all. `lapses` records, when it happens, that such a session wrote a balance
another one had changed ("wallet"), settled under a mode the account had left
("mode"), or changed the rate without settling ("rate").

| Model | Code |
| --- | --- |
| `counter` | the panel's counter; `traffic`, `resets` are history |
| `life`, `used` | `reseller_lifetime_used_bytes`, `used_bytes` |
| `meter[s]` | `checkpoint_bytes`, `remainder`, `rate_irt_per_gb`; rate 0 where there is no row |
| `usageKeys`, `creditKeys` | the unique `event_key`s of `reseller_billing_entries` |
| `charged`, `wallet` | the sum of a service's debits, `wallet_balance_irt` |
| `tariff`, `ownRate` | the servers' PAYG rates, the account's own rate |
| `due` | history: bytes recorded under PAYG times the rate then in force |
| `copy[x]` | what the session of `x` has loaded and, in a live view, listed and read |

Abstracted: `Gb` stands for 2^30, so `div` and `mod` by it keep their role; the
debit arithmetic is exact. `Cycle` settles what is recorded: the refresh the
code attempts first fails on `_reseller_effective_used_bytes`, which is defined
nowhere (`bot/handlers/public/reseller.py:715`), and its error is swallowed. The
half-hour gate and the scheduler are left out; billing may run at any time.
`Delete` may work on a service row read before the lock, hence its choice of an
older reading. The GB pool, which the same functions move, is a component of its
own.

### MiniAppCheckout, implementing BuyOnce

`MiniAppCheckout.tla` is one plan bought in the Mini App: the screen
(`miniapp-checkout.tsx`), what the tab stores, its requests, and the server's
orders (`app/api/miniapp_checkout.py`). An `await` of a handler splits it into
two actions: `Purchase` saves the key and sends, `ServeKnown` or `ServeNew` is the
server, `Purchased` is the rest of the handler. A request may be refused, or
carried out and its answer lost.

| Model | Code |
| --- | --- |
| `screen` | the state of the component: key, quote, order and status, `busy`, `restoring`, `checking`, `initialOrder` |
| `screen.timer` | what the interval's `refresh` does: it is the closure of the commit that last changed the order, so "deaf" when that commit was busy or restoring |
| `storage` | the two entries of `sessionStorage` |
| `calls[i].from` | "live": its handler belongs to the mounted screen; "left": the screen is gone but the handler still runs; "gone": so is the page |
| `orders` | the rows on the server; `WithKey` is the lookup by idempotency key |
| `trouble` | history: a step happened that can make a tab lose an order |

The list of the tracking page is loaded on its own and may be older than the
order: `Listed` is the status it has or had one step before (a retry of a failed
order aside), and never "paid", which the list leaves out.

`trouble` is set by its causes, never by the loss itself: a closed tab, a failed
read of the stored order, a cancel or purchase whose answer meets another
purchase, a tracked order whose end clears the storage of another one, a stale
read, and a request given up and carried out later (under a key the tab has left
or whose order was cancelled). `BuyOnce.tla` is the promise: while an order is
open no other is placed, and the tab knows it; only with trouble may an order be
forgotten. `Book` is the refinement mapping: an order is "settled", "open" when
it carries the key in the storage, else "forgotten".

Simplified: a renewal has a screen and slots of its own, alike; a service name is
refused under a used key just as another method is; React is taken to batch
`setOrder` with `setRestoring`.

### UiLanguage

`UiLanguage.tla` is the engine of `lib/ui-language.tsx`. React renders English
(and some Persian) texts; a MutationObserver collects roots (`records`), hands
them to a microtask (`pending`), which translates the outermost ones and
remembers the source of each text it writes (`memo` stands for `textSources` and
`attributeSources`). `SwitchEngine` is the effect after a change of language.
Microtasks may interleave with React in any order, more than the browser allows.
The dictionaries are constants, with the rules for texts with numbers taken in.
`DictionaryAssumption` asks of them what the code builds (`FA_EN` from `EN_FA`,
and the rules of `enToFa` and `faToEn`):

* what `FaEn` gives is an English text that `EnFa` gives back; of several English
  texts with one translation it keeps one;
* a rule may be one-way: "5 GB" has a translation that nothing turns back
  (1036-1043);
* a label may be the same in both languages ("HTTP / SOCKS", line 119; "V2 / Xray",
  139): a text in both dictionaries is its own translation;
* a translation is not translated again.

One thing lies outside: a text that is the name of a member of `Object.prototype`,
such as "constructor". The dictionaries are plain objects, and looking it up finds
the member.

### Frontend

`layout.tsx` puts every page into the language provider, and the Mini App
excludes itself (`data-no-i18n`). `Frontend.tla` composes the two: a tab opened
at the Mini App takes steps of the checkout, one opened at the panel steps of
the engine.

### AdminPanel: AdminShell, AdminForms, AdminSettings, CustomTexts

One tab of the web panel (`admin-dashboard.tsx`, `custom-section.tsx`) and its
server. A React commit and the effects it triggers are one step.

| Module | Models |
| --- | --- |
| `AdminShell` | `useApi` (start, clean-up, reply, reload), the session and "Login required", search and paging, the dashboard's polling, confirmed actions |
| `AdminForms` | `FormModal` with a discount, a server (two fields of one name, chosen by the type), a plan (inbounds of its server), a reseller (policies per server, operation id); "Test & Auto Fill" |
| `AdminSettings` | servers (refresh one, delete), reordering of categories, plans and service types, connection, backup and restore, test account |
| `CustomTexts` | filters, selection, editor, save and reset, and the load that nothing cancels |
| `AdminPanel` | what each section starts with and shows on new data; `Init`, `Next`, fairness |

`ui` is the state of the mounted section, `dialog` the open form, `http` the
requests in flight (`live` is false once the effect's clean-up has run), `db` what
the server stores. A `tour` bounds a behaviour to a few sections and activities,
so that the state space is a sum over the sections and not their product.

Simplified: several `useApi` reads of one section are one; discounts stand for
payments and OpenVPN profiles, whose lists and actions are alike; a target of the
test account is a server with its inbounds, without its PasarGuard groups. The
server (`Serve` and its like) is the handlers of `api/admin_web.py` and
`api/custom_texts.py`, of each of which only the effect on what the panel shows
is kept.

## Runs

All runs disable the deadlock check: every order may be closed, every counter at
its bound and a tab left idle, and then nothing is left to do.

| Run | Instance | Checks | States |
| --- | --- | --- | --- |
| `orders_card` | 2 discounted card orders of one customer, 3 workers, 1 crash, 3 requests per order | `TypeOK`, `DeliverOnce`, `NoBlindRebuild`, `UsageFollowsOrder`, `PaidIsFinal` | 41,987 |
| `orders_wallet` | a Mini App purchase, a chat purchase and a top-up on one wallet, 3 workers, 1 crash, fairness | `WalletExact`, `NoOverdraft`, `NoBlindRebuild`, `QueueSettles` | 158,712 |
| `orders_chat` | a chat card order, a wallet renewal and a crypto order of 2 customers, a code with one use | `CodeWithinLimit` | 113,832 |
| `ledger` | 1 or 2 configs on 2 panels, 2 readers (one guarded), 1 counter reset, 2 tariffs, both modes, a receipt, 3 transfers (one in the Mini App, one a join), a live view | `TypeOK`, `BilledAtItsRate`, `UsageStaysBillable`, `WalletBalances` | 791,486 |
| `frontend` | 7 sittings at the checkout, 2 keys, 2 requests in flight, 2 orders; 2 nodes (1 excluded), 6 texts; fairness | `TypeOK`, `TextsShown`, `BuysOnce`, `ShowsOutcome` | 434,636 |
| `admin` | 15 tours, 2 requests in flight, 2 items, 2 servers, 2 backup files, 2 texts; fairness | `TypeOK`, `RowsMatchRequest`, `ListShowsStore`, `RepliesMeetTheirForm`, `AdjustedOnce`, `SentIsShown`, `InboundsOfTheirServer`, `PoliciesForAllowed`, `ReorderKeepsAll`, `SecretsBelongToFile`, `TargetsUsable`, `SavedUnderItsKey`, `ConnDraftKept`, `PollingResumes`, `BusyEnds` | 415,000 |
| `orders_discount` | 4 card orders and one code with 2 uses | `CodeWithinLimit` is violated | |
| `orders_commission` | a referrer's wallet order, his guest's chat order | `WalletExact` is violated | |
| `ledger_lost` | a live view and a receipt | `LedgerBalances` is violated | |
| `ledger_stale` | two plain readers, no reset | `NeverInflated` is violated | |
| `ledger_tariff` | a config on a server no longer assigned | `BilledAtItsRate` is violated | |
| `checkout_resumed` | an order opened from the tracking page | `ShowsEveryOutcome` is violated | |

Why these bounds are enough. A lost update needs two tasks and one row; the
instances have three workers. `DeliverOnce` and `PaidIsFinal` need an order to be
approved, to fail, to be approved again and to be closed meanwhile: three
requests and one crash allow that. The ledger needs a remainder that is not zero
(`Gb = 2`, odd rates 1 and 3), a tariff edit in both directions, a counter that
passes its old value and one that falls below it. The whole product of its
features is out of reach, so the constraint `Regions` of `MCResellerLedger` keeps
the run to three connected parts of one state space: one config with a stale
reader and a reset; two configs on two panels with a receipt and a transfer that
is retried; one config with the sessions without the lock, one at a time, up to
their second lapse. The theorems below have no such limit, and hold for every
value of the constants. In `orders_wallet` one customer owns the chat
purchase and the Mini App order, prices are 2 and the opening balance 3, so the
two cannot both be paid before the top-up. A late answer needs two requests in
flight: an old one and the one that replaced it. A lost order or a second one
needs two keys and two orders; each sitting of `MCVisits` combines the activities
that can meet (a reload with an unanswered purchase, tracking with a stored
order, the header's refresh with a cancel), and `BuysOnce` is proved for all of
them together. The dictionary of `frontend` has every kind of entry: two English
texts with one translation, which makes remembering necessary; a one-way rule
("gb"); and a label that is the same in both languages ("xray").

**The properties.** `WalletExact`: a wallet is its opening balance less what its
owner bought plus what he topped up and earned, so no debit or credit is
overwritten. `NoOverdraft`: no balance falls below zero. `NoBlindRebuild`: the
panel carries an order out at most as often as somebody asked for it.
`DeliverOnce`, `PaidIsFinal`, `UsageFollowsOrder`: a Mini App card order is
delivered once, exactly when paid, for ever, and its discount usage lives as
long as it may still be delivered. `CodeWithinLimit`: usages respect `max_uses`
and `per_user_limit`. `QueueSettles`: a queued wallet order reaches "paid",
"failed" or "rejected". `BilledAtItsRate`: charged bytes times rate, plus the
remainder, plus the unbilled rest, is exactly what is due, as long as no session
without the lock settled under a mode the account has left or changed the rate
unsettled. `UsageStaysBillable`: an event key never hides unpaid traffic.
`WalletBalances`: the wallet is the opening balance plus every credit once less
the debits, as long as no such session overwrote a newer balance;
`LedgerBalances` is the same without that proviso. `NeverInflated`: recorded usage
is at most the real traffic.

`BuysOnce`: the checkout implements `BuyOnce`, lost answers included; what may
make a tab lose an order is named in `trouble`. `ShowsOutcome`: an order whose
interval is live comes to show its result. `TextsShown`: when the engine is idle,
every text is React's text in the chosen language; an English text comes back
exactly, and on an English page a Persian text of React's may show as any English
text that translates to it.
`RowsMatchRequest`, `ListShowsStore`: the rows are those of the page and search on
screen, and of the store once nothing is in flight. `RepliesMeetTheirForm`: an
answer to a save closes or unlocks the form that sent it. `AdjustedOnce`: one
opened reseller form is one wallet adjustment, however often it is retried.
`SentIsShown`, `InboundsOfTheirServer`, `PoliciesForAllowed`, `TargetsUsable`: what
is saved fits what the form shows now, not what it showed before a type, a server
or a mode was changed. `SecretsBelongToFile`: no restore sends a secret typed for
another file. `SavedUnderItsKey`: no text is stored under another's key.
`ReorderKeepsAll`: an order sent while a search hides items names them all.
`ConnDraftKept`: only another revision overwrites the connection draft.
`PollingResumes`: polls follow one another whatever fails. `BusyEnds`: no flag
stays set.

**Fairness.** In `orders_wallet` (`FairSpec`): weak fairness of each worker's
own steps: asyncio resumes every task, panel calls have time-outs, and
PostgreSQL grants a row lock in the end. Weak fairness of `QueueTake` and
`Recover`: `worker_loop` runs both every five seconds and Docker restarts the
API. Nothing is assumed of customers or reviewers, nor of a panel's success.
In `frontend` and `admin`: weak fairness of each request's answer (success,
refusal or time-out) and of its handler. Strong fairness of `ServeRead`: a read
asked again and again succeeds in the end. Strong fairness of `Poll` and
`PollTick`, the intervals of a visible tab: they fire again and again, and only
the slots of the model, not a browser, are sometimes all taken. The buyer and the
owner owe nothing.

## What the runs found

* `orders_discount`: `release_order_discount_usage` reads the code without a
  lock and writes `used_count` back as an absolute value. Two releases lose one
  decrement, and a release that overlaps a purchase loses the purchase's
  increment; then the code can be used more often than `max_uses`.
* `orders_commission`: `apply_purchase_commission` reads the referrer without a
  lock and writes his balance at the commit, two Telegram messages later. A
  purchase of his in between is debited and then undone.
* `ledger_lost`: the owner's live view loads the account without its lock and
  waits for the panels; a receipt approved or a settlement committed meanwhile is
  lost when the view settles and writes the balance it had loaded less the cost
  (`reseller_management.py:82`, `reseller_billing.py:101`). The billing entry of the
  lost credit stays. A transfer in the Mini App and an approved join do the same.
* `ledger_stale`: two refreshes of one config, recorded in the other order than
  read. The older reading is below the newer one, is taken for a counter reset,
  and its traffic is counted again.
* `ledger_tariff`: a tariff edit reprices all meters of the server but settles
  only accounts assigned to it or with an active config on it. Traffic recorded
  for a disabled config of another account is then billed at the new tariff.

* `checkout_resumed`: the effect that polls an order depends on the order's id,
  status and receipt. An order opened from tracking is shown while `restoring` is
  true, so the interval keeps a `refresh` that returns at its guard; the restored
  order has the same id and status, the effect does not run again, and the
  documented check every six seconds never happens. The same closure goes deaf
  when a header refresh changes the status during an upload.

## Proofs

`SumLemmas.tla` holds what the proofs about money need of `SumFunctionOnSet`, the
fold of the community modules that `WalletExact` and `WalletBalances` are written
with: a sum exists and is unique (`SumsExist`, `SumsUnique`), an element can be taken out
(`SumRemove`), changed (`SumChange`), added (`SumGrows`), and functions that agree
have one sum (`SumAgree`). The induction theorems of the library take an operator
as a parameter and cannot be cited, so each induction over a finite set is by a
least counterexample: the numbers or sets for which the claim fails would have a
minimal one (`WFMin`), and that one does not fail. This asks for finite sets,
which `OrdersAssumption` and `LedgerAssumption` state of the orders, the services and the
keys of credits.

`Orders_proofs.tla`, under `OrdersAssumption` (types of the constants, a finite
set of orders, nobody refers himself):

* `Types`: `Spec => []TypeOK`. The interesting part is `used \in Nat`, which
  rests on the clamp in `Release` and on `SeenCount`: what a closing task has
  read of `used_count` is a count or the mark "no row".
* `Inductive`: `Spec => []IInv` with `IInv == TypeOK /\ SeenCount /\ OneWorker /\
  DeliverOnce`. `DeliverOnce` alone is not inductive: nothing in it keeps two
  workers from building one order. `OneWorker` says that at most one worker holds
  a card order between its lock and its commit, that its row reads "processing"
  all that time, and that a task about to close an order found it open.
* `DeliveredOnce`: `Spec => []DeliverOnce`; `PaidForever`: `Spec => PaidIsFinal`,
  one step per writer of the status.
* `NeverRebuilt`: `Spec => []NoBlindRebuild`. An order may be built by a worker
  that has not reached the panel yet, or lie queued for one; `Covered` counts
  those with what the panel has done (`remote + Cardinality(Builders) + queued
  <= asked`), and each step moves at most one unit from one place to the next.
* `UsageFollows`: `Spec => []UsageFollowsOrder`, from `Closing`: a task that is
  about to close a discounted order is the only one to do so, and found the
  usage row it is going to release.

* `NeverOverdrawn`: `Spec => []NoOverdraft`, without a further assumption. Some
  debits are written back from a balance read long before; `Funded` says that what
  was read covers the price the task will take off it, and that a referrer was not
  read below zero. So even a write that undoes another one leaves no negative balance.
* `WalletKept` and `WalletsExact`: `WalletExact` does not hold of every instance, and
  the theorems say of which it does. `Protected(u)`: no purchase of `u` is a renewal
  in the chat (`renew_pay` reads the balance without a lock), and nobody `u` invited
  pays him a commission (`apply_purchase_commission` does not lock either; the run
  `orders_commission` refutes `WalletExact` for such a customer). A protected
  customer's wallet is exact whatever happens to the others'; if all are, `WalletExact`
  holds. `ExactInv` adds `NoOverdraft` and `Funded`; that one task at most builds a
  purchase from the wallet of a protected customer, and has read the balance it
  still has (`ProtectedHeld`); and what a task's stage says of its order (`AllKnown`).
* `PerUserLimitKept` and `CodeKept`: `CodeWithinLimit` has two halves. That no customer
  passes `per_user_limit` is unconditional: the rows are counted under the lock of the
  code. That a code is used at most `max_uses` times is proved where no
  discounted order is of a kind whose usage is released again, since releases lose
  updates of `used_count`: `orders_discount` refutes it without.

`ResellerLedger_proofs.tla`, under `LedgerAssumption` (types of the constants, finite
sets of services and of credit keys):

* `Types`: `Spec => []TypeOK`, which contains that a meter carries less than one
  Toman (`remainder \in 0 .. Gb - 1`).
* `StaysBillable`: `Spec => []UsageStaysBillable`, from `Metering`: event keys
  never exceed the meter's checkpoint, the checkpoint never exceeds the usage.
* `BilledExactly`: `Spec => []BilledAtItsRate`, assuming that every service is on
  an assigned server. The assumption is exactly what the run `ledger_tariff`
  refutes without. The invariant is `IInv`: `Safe` (the types, `Metering`, and that
  readers and live views hold readings of existing services only) always; and,
  until a session settles under a mode the account has left or a join changes the
  rate unsettled (`NoLapse`), that a meter has the rate in force (`Agreed`) and the
  books of every service balance.
  The lemmas split a settlement into its arithmetic (`DivMod`, `FeeExact`) and
  its effect on the sum of charged, carried and unbilled (`SettledExact`).
* `Balances`: `Spec => []WalletBalances`. `WalletInv` adds that what has been credited
  is known by its key, and a receipt is approved exactly when its key is
  (`CreditsMatch`): a transfer that is retried, or a receipt reviewed twice, finds it.
  It holds up to the first stale write of a session without the lock, which
  `ledger_lost` shows to break it; the theorem says that nothing else does.
* `GuardSuffices`: `NeverInflated`, which `ledger_stale` refutes, holds where every
  reader drops a reading whose row has changed since (as the Mini App does), no
  counter is reset and there is no live view, which records its first reading
  without that test. So the finding is about the readers without the test alone.

`MiniAppCheckout_proofs.tla`, under `CheckoutAssumption` (types of the bounds),
proves `CheckoutBuysOnce`: `CheckoutSpec => BuysOnce`, for every number of keys,
requests and orders, and every sitting. `BuysOnce` speaks of steps, and a step
that places an order is a step of `BuyOnce` only where no other order is open;
that is not visible in the state the mapping sees. `CheckoutInv` supplies it:

* `Known`, `Final`: what is referred to exists, and who has read a settled order
  is right about it;
* `Alone`: the screen asks one thing at a time (`busy`, `restoring`), so at most
  one live purchase is under way;
* `SameKey`: a screen goes on with the key of the storage;
* `Kept`, only without trouble: an order's key is its own; an open order carries
  the key of the storage, and so do the stored order, the order on the screen
  (unless tracking showed it) and a purchase asked for now.

There is one lemma per action, each proving `CheckoutInv'` and the step of
`BuyOnce` (or the stutter) together.

`UiLanguage_proofs.tla`, under `DictionaryAssumption` and `NodesAssumption`,
proves `EngineShowsTexts`: `LanguageSpec => []TextsShown`. `TextsShown` is about
idle states only. It holds for every dictionary of the assumption, one-way rules
and labels alike in both languages included. `LanguageInv` says what holds in between: the next translation
of a node will be made from React's text or from one *alike* (a text with the same
translation, `Sources`), what is remembered was a translation of its source
(`Remembered`), and a node that no record or pending root contains is translated
already (`Translated`).

`AdminPanel_proofs.tla`, under `ShellAssumption` and `FormsAssumption` (no value is
not a server, and not a dialog), proves the five properties of the modal forms
for any lists, servers and number of requests in flight: `RepliesMeet`,
`OneAdjustment`, `OnlyShownIsSent`, `OwnInbounds` and `AllowedPolicies`. `FormsInv`
is one invariant for all of them:

* `DialogOK`: the open dialog's values fit its form, after every change;
* `AllSentOK`: so do the values of a save that is in flight, answered or not;
* `CreditsOK`: a credit is stored under the key of its form;
* `LiveForms`: a form's request whose handler waits is the only one, and the
  dialog that sent it is open and locked. This is what makes the answers safe:
  `submitModal` closes whatever dialog is open.

The panel has some forty other actions. `Keeps` is what they have in common: no
request of a form appears, changes or comes back to life, and from it `FrameInv`
and `NoticeInv` (the login notice) carry the invariant over all of them.

`AdminSections_proofs.tla` (assumptions: `ShellAssumption`, `KeysAssumption`,
`FormsAssumption`) proves the properties of the sections behind the forms:
`RowsAreAskedFor`, `OrdersAreWhole`, `SecretsStayWithFile`, `TargetsAreUsable` and
`TextsUnderTheirKeys`. A handler that resumes after its `await` finds the section
as it is then, so `SectionsInv` says of every request in flight

* `Placed`: it is one its section sends;
* `Carries` and `Answered`: what was sent, and what was read, is in order;
* `Awaited`: if a handler still waits for it, that handler belongs to the shell or
  to the mounted section, and a list of users is the one now on the screen;

and of the mounted section (`ScreenOK`) and the server (`StoreOK`) that they hold
such data only. `OrdersAreWhole` needs `MovedOK`: a drag moves one item of a whole
list, so each item stays there exactly once. That is counted, which is why
`ShellAssumption` asks for a finite set of items.

`DraftStays`, in the same module, is an action property: no request that is sent,
answered or dropped changes what is typed into the connection form, unless it
brings another revision. For `ListsShowStore`, `ListInv` says: unless an answer was
lost, either a reply that will load the list again is on its way (`Reloads`), or
what is shown, and what any awaited load brings, is what is stored (`Current`). It
uses that success (`Done`) is not one of the failures.

`PanelTypes` is `Spec => []TypeOK` for every set of tours. Its interesting parts are
that one load at most is on its way (`OneLoad`: whatever starts one cancels the
older, or unmounts the section that had asked for it) and that the users list
shows a page it has. A handler that reads the settings again must be on a section
that has some, which needs `Homed`: the section each kind of request is sent from. An
earlier `TypeOK` bounded the revision of the connection by `MaxRevision`. That is no
invariant: a save whose section was left is still served when a second one has been
sent from the section mounted anew. The tours of `MCAdminPanel` do not leave the
connection, so the run could not tell; the attempt to prove it did.

`Frontend_proofs.tla` composes them: `Types`, `ShowsTexts` and `Buys` are the same
results of the specification the run `frontend` checks, since no step of one page
touches the other's variables.

Only model-checked: `QueueSettles`, `ShowsOutcome`, `PollingResumes` and `BusyEnds`
(liveness is out of the prover's reach), and of `WalletExact` and `CodeWithinLimit`
what the hypotheses above leave open: the instance of `orders_chat`, for one, has a
renewal in the chat, whose balance its run does not check. There is no RECURSIVE
operator in the modules with theorems.

## What is not modelled

* The components with status `not_modelled` in `PROJECT.json`, each with its
  reason: planned (below), read-only, or pure input and output.
* In Orders: top-ups earmarked for a panel, admins' free purchases (a wallet
  order with price 0), notices, keyboards and the FSM state of a chat.
* In ResellerLedger: mode switches that convert money to quota
  (`run_switch`), suspensions (with the meters that `_reconcile_suspensions` opens),
  and a tariff of zero, which the code reports in `last_error` and does not bill.
  The live view of a reseller without a live config settles without ever taking
  the lock, where only the unique `event_key` stops a second charge. The reseller
  list (`admin_web.py:6695`) and its legacy page (`admin_web.py:4285-4297`) load
  accounts without the lock and rewrite the totals `used_bytes`, `reserved_bytes`
  and `total_bytes`, which the modelled part of the ledger does not read.
  Approving an access request in the bot (`bot/handlers/admin/resellers.py:1064-1069`)
  loads the account without the lock too; it creates the account, unless one came
  into being while the request was pending.
* In MiniAppCheckout: the renewal's slots, the order history and the
  latest-order card. In UiLanguage: `confirm` and `prompt`, the page's direction,
  attributes of editors. In AdminPanel: the profile picture, the page of reseller
  details, the search for a user, the redirect after the website form, the
  fields of the backup delivery form, duplicating a server; and the small
  settings cards, each of which loads, edits and saves one record on its own.

Known of the browser side, in the model or read in the code, and promised
otherwise by nothing a run could check:

* A failed read of the stored order makes the checkout forget it, and the late
  answer to a cancel or a purchase clears or replaces what a newer order stored:
  these are causes of `trouble`.
* A `POST /checkout` carried out late creates a cancelled order again; a purchase
  whose answer was lost cannot be asked again with another method or name.
* The backup card's `busy` is a string, so two of its operations may overlap.
* What is typed into the connection form during its own save is overwritten by
  the save's answer; a save of the backup or the test account likewise.
* A failed reordering is not rolled back on the screen; a server that was
  deleted may reappear with an older reading until the next load.
* A reseller adjustment retried with another amount under the same operation id
  is ignored by the server and reported as saved (`app/services/reseller_billing.py:59`).
* The observer skips a changed placeholder of a text area, which a switch of the
  language translates.

## Plan

| Module | Models | Abstract specification or property | Theorems |
| --- | --- | --- | --- |
| `Orders`, `ResellerLedger` | done | | done: types, delivered once, paid for ever, never rebuilt, usages, no overdraft, exact wallets, limits of a code, billed at its rate, balances |
| `MiniAppCheckout`, `UiLanguage`, `Frontend` | done | done: `BuyOnce` | done: types, the refinement, texts shown |
| `AdminPanel` with its parts | done | | done: types, the forms, the sections, the lists |
| `ResellerPool` | reservation, release, `drop_inactive_reservation`, `configure_mode` on the GB pool; handlers that load the account before its lock | pool + allocations never exceed what was bought | types; conservation where the code locks |
| `PanelMeter` | `poll`, `resume`, `auto_disabled_user_ids`, prepaid panels | what a poll disabled for debt is enabled after payment; charges are cumulative | types; charged = due |
| `ResellerSuspension` | `_reconcile_suspensions` with its commit in the middle, manual pause, remote failures | a manual pause is never undone | no unrelated re-enable |
| `ModeSwitch` | `start_switch`, `run_switch`, resume after a crash | money and quota are converted once; composes the ledger and the pool | single conversion |
| `MiniAppOperations`, `Conversion` | keyed operations, their recovery, the conversion's claim, and the screens that submit them | an abstract "at most once" executor, which both implement | refinement of the executor |
| `ServiceCleanup` | grace period, deletion queue, retries | refunded once, deleted eventually | refund once |
| `WalletLedger` | abstract: a wallet is a sum of entries | Orders implements it where the code locks | the step-to-step mapping |

