# Ogaboss: TLA+ models and proofs

Ogaboss is a NestJS backend on which users buy, sell, swap, receive, withdraw, save
and spend crypto. State is in PostgreSQL (through Prisma), jobs are in BullMQ on
Redis, quotations and caches in Redis, and the money moves at Quidax (crypto),
Paystack (naira) and Xpresspay (bills). Nearly every flow has the same shape: a request
holds balances in one database transaction, calls a provider outside of it, and a
webhook of the provider settles or releases the holds in another transaction, from a
job that may run again. What goes wrong is between those transactions, so that is what
the modules model.

Paths below are relative to `src/src/`, service and handler files to
`modules/` below it; `TECHNICAL_REPORT.txt` is the repository's own design document.

## 1. Inventory

| Component | State it keeps | Operations | Talks to |
|---|---|---|---|
| Balances (`transaction.service.ts`, `company-liquidity.service.ts`) | `wallets` (base, reserved), `company_liquidity` (total, reserved, internal) | reserve, release, finalize, consume, add; one guarded `UPDATE` each | called inside the transactions of every flow |
| Quotations (`quotation.service.ts`) | Redis entries with a time to live, a cooldown | quote, preview, PIN check, consume, delete | prices; read by every confirmation |
| Withdrawal (`withdrawal.service.ts`) | `transactions`, `withdrawals` | previewSend, confirmSend, cancelWithdrawal | POST and cancel at Quidax |
| Buy (`buy.service.ts`, `payment-status.handler.ts`, `order-done.handler.ts`) | `transactions` with JSON metadata, `orders`, the company's naira | confirm, charge event, order event | charge at Paystack, order at Quidax |
| Sell (`sell.service.ts`, the same handlers) | the same, the crypto wallet | confirm, order event, transfer events | order at Quidax, payout at Paystack |
| Swap (`swap.service.ts`, `swap-transaction.handler.ts`) | `transactions`, `swap_transactions`, both wallets | confirm, swap event | swap and lookup at Quidax |
| Failed company liquidity (`failed-company-liquidity.service.ts`) | queue table of operations waiting for liquidity | hourly retry and expiry, admin activation | resumes each flow at its provider |
| Deposits (`deposit-successful.handler.ts`) | `transactions`, `deposits`, `company_withdrawals` | credit, sweep to the company's account | GET and POST at Quidax |
| Webhooks (`modules/webhook`, `infrastructure/bullMQ`) | `Webhook` rows (idempotency), jobs and their attempts | endpoint, enqueue, job, mark, daily reconciliation | providers deliver; the handlers above |
| Vaults (`vault.service.ts`, `vault-interest.scheduler.ts`) | `vaults`, locked columns of wallet and company | confirm, cancel, unlock, maturity | swap at Quidax for bitcoin |
| Autostack (`autostack.service.ts`) | `auto_stacks`, one transaction per due date | confirm, dispatch, charge, unlock, cancelPending | USDT wallet, Quidax, cards at Paystack |
| Urgent liquidity (`urgent-liquidity.service.ts`) | `urgent_liquidity_loans`, loaned columns | quote, confirm, order and transfer events | order at Quidax, payout at Paystack |
| Bills (`bills.service.ts`, `bill-payment-retry.scheduler.ts`) | `transactions` with JSON metadata, both holds | confirm, order event, retry, repair, webhook | order at Quidax, payment at Xpresspay |
| Addresses (`quidax-account.worker.ts`, `address-generated.handler.ts`) | `users.quidaxId`, `wallets`, `wallet_addresses` | account job, address event | accounts and addresses at Quidax |
| Liquidity books and cache (four schedulers, `company-liquidity.service.ts`) | `company_liquidity`, its copies in Redis | sync with Quidax, with Paystack, with the wallets; lookup, fill | every flow |
| Schedulers (`modules/scheduler`) | locks in Redis, `scheduler_job_state`, queue | 15 periodic jobs | every service |
| Snapshots (two schedulers) | snapshots and percentages of users | passes over all users in pages | dashboards |
| Users (`auth`, `user`) | accounts, codes and counters in Redis, refresh token | sign-up, PINs, codes, second factor, end of an account | mail |
| What users add (`card.service.ts`, `account.service.ts`, `kyc.service.ts`) | `payment_cards`, `userbankaccounts`, KYC rows and tiers, tokens in Redis | save and delete a card, a bank account; identify by number, document, address | Paystack, Dojah |
| Administration (`admin`) | settings, roles, administrators and their copies in Redis | create, change, delete, assign, flag | every quotation; the guard of admin requests |

What is hard in this system:

* **Interleaving.** Requests, webhook jobs (several workers), schedulers in several
  processes and admin requests touch the same rows. Only the single `UPDATE`
  statements are guarded; the statuses that decide what to do are read before a
  provider call and not again. Some flows write absolute values they have read
  before (vaults, autostacks, balances from providers, JSON metadata, quotations).
* **Partial failure.** A provider may carry out a call whose answer is lost. The
  handlers swallow most errors and return normally, which completes the job.
* **Crashes.** BullMQ hands a stalled job out again; a request or a scheduler's
  run is simply gone.
* **Ordering.** A webhook may be handled before the row it looks for is written.
* **Caches.** Redis is filled from within open transactions, by readers with what
  they read earlier, and mostly without an expiry.

`PROJECT.json` lists the hazards one by one, with the line where each bites and
the properties that watch it.

What makes each component correct:

* *Balances*: no row promises more than it holds; a hold is settled or released once.
* *Withdrawal*: the wallet pays only for what Quidax paid; the company's reservation
  covers exactly the withdrawals at the provider; nothing finished stays locked.
* *Pipeline*: one job per event; `processed` means handled; queued events are settled.
* *Deposit*: each deposit is credited once, swept only if credited, counted once.
* *Swap*: source, target and the company's books move together and once.
* *Sell*: nobody is paid for what was not sold, nor twice; what was paid is booked.
* *Buy*: what was charged is bought once and credited once; the naira are reserved.
* *Vault*: the company's totals are those of the active vaults; each pays once.
* *Autostack*: a stack is what was charged for it; one charge per due date.
* *Loans and bills*: one payout for one sale; the holds fit the open ones.
* *Books*: a reservation survives the schedulers that overwrite its row; the
  columns follow the balances they stand for.
* *Schedulers*: a job runs once per slot, alone if it has a lock, and not too seldom.
* *Quotations*: used once, as they were given; the price still covers the trade.
* *Cards, bank accounts, KYC*: a thing is saved once however often its request is
  repeated, and in the user's name; a refund and its record go together.
* *Accounts, settings, staff*: a deleted account stays so, a code serves once, wrong
  PINs lock; ranges are disjoint; caches follow their rows as far as they do.

## 2. Modules

| Module | Models | Form |
|---|---|---|
| `Ledger` | the guarded updates of both rows | operators: `CanX` is the `WHERE` clause, `X` the `SET` clause |
| `HoldLedger` | what reserve / settle / release promises | abstract specification |
| `CreditLedger` | what credit and sweep promise | abstract specification |
| `Withdrawal` | `withdrawal.service.ts`, the user branch of `withdrawal.handler.ts`, its part of `failed-company-liquidity.service.ts` | state machine; implements `HoldLedger` |
| `WebhookPipeline` | `webhook.controller.ts`, `webhook-idempotency.service.ts`, the job, the daily reconciliation | state machine; handlers abstract |
| `Deposit` | `deposit-successful.handler.ts`, the sweep branch of `withdrawal.handler.ts` | state machine; implements `CreditLedger` |
| `Swap` | `swap.service.ts`, the regular path of `swap-transaction.handler.ts`, retry and expiry | state machine; implements `HoldLedger` |
| `Sell` | `sell.service.ts`, the sell branch of `order-done.handler.ts`, the transfer events of `payment-status.handler.ts`, retry and expiry | state machine |
| `Buy` | `buy.service.ts`, the charge events of `payment-status.handler.ts`, the buy branch of `order-done.handler.ts`, retry and expiry | state machine |
| `Mishaps` | the faults and outside events of all modules below | bookkeeping of the models |
| `Vault`, `Autostack`, `UrgentLiquidity`, `Bills` | the service, its schedulers and its branches of the handlers | state machines |
| `Addresses` | the account job and the address event | state machine |
| `Liquidity` | one row of `company_liquidity` between payments and three schedulers | state machine |
| `LiquidityCache` | its copy in Redis | state machine, ages instead of values |
| `Quotes` | one quotation, its arithmetic and its requests | state machine |
| `Settings` | four families of settings and their caches | state machine, one `family` per behaviour |
| `Accounts`, `Staff` | one account; roles and administrators with their caches | state machines |
| `Cards`, `BankAccounts`, `Kyc` | what a user adds: one service each | state machines |
| `Schedule`, `Snapshots` | how a periodic job comes to run; passes over all users | state machines with time / pages |
| `MCWithdrawal`, `MCWebhookPipeline`, `MCDeposit`, `MCSwap`, `MCSell` | amounts and budgets of one module | instances for TLC |
| `Services` | Vault, UrgentLiquidity, Addresses, Buy, Bills, Liquidity side by side | composition |
| `Platform` | Autostack, Settings, Accounts, Cards, BankAccounts, Kyc, Staff, Quotes, LiquidityCache, Schedule, Snapshots side by side | composition |
| `MCServices`, `MCPlatform` | amounts and budgets of the two compositions | instances for TLC |
| `Ledger_proofs` | the guarded updates; sums over finite sets | lemmas |
| `Withdrawal_proofs`, `Swap_proofs`, `Sell_proofs` | the module named | TLAPS proofs |
| `Webhooks_proofs` | WebhookPipeline and Deposit | TLAPS proofs |
| `Services_proofs` | UrgentLiquidity, Addresses, Liquidity, Vault, Bills | TLAPS proofs |
| `People_proofs` | Settings, Accounts, Cards, BankAccounts, Kyc, Staff, Quotes: initial states and steps | lemmas |
| `Platform_proofs` | LiquidityCache, Schedule, Snapshots, Autostack, and the composition `Platform` | TLAPS proofs |

**Steps.** One database transaction is one step. Every `await` on a provider and
every transaction boundary is a step boundary, and what was read before it is in
the program counter (`confirm`, `job`, `retry`, `run`, `admin`, `desk`, ...). A guarded
update that affects no row throws, and the whole transaction rolls back: that is the
`ELSE` branch of the action, or an action of its own.

**Faults.** `Budget` says how often each fault may happen: `crash` (the process
dies), `lostAnswer` (the provider did it, the caller sees an error), `lookup`
(the GET fails), `noData` (an answer that shows no deposit), `transient` / `dbError` /
`error` (an error that is or is not retried), `stall` (BullMQ gives the job to a second
run while the first goes on), `redis` (a write Redis refuses: `RedisService` logs it and
returns, so the caller goes on), `undeleted` (a deletion whose failure nobody hears of),
`uncaught` (an error of an error handler), and so on. Outside events that need time to pass (`expiry`, `topup`, `hour`) are bounded the
same way. A budget keeps the state space finite and lets a property say exactly which
faults it survives (`Untouched`). The proofs hold for every budget. In `Mishaps` some
entries are only remembered (`Note`): the step is never prevented, but a property may
ask whether two requests overlapped, whether an event came before the row it is
about (`early`), whether two transactions passed one check (`raced`), or whether a copy
read before was written after (`staleRequest`).

**Side by side.** `Services` and `Platform` hold several modules that share only
`budget`. A behaviour is of one `subject` and the variables of the others stay what
they are, so the state spaces add up; `MCServices` and `MCPlatform` give them amounts
and, for what a behaviour is not about, one initial state. The composition adds no interaction: where
components meet, on a wallet, a liquidity row or a handler, the module itself has
the other party (other flows' holds, a withdrawal in between, three schedulers).

**Providers.** They are modelled from how the code uses them: Quidax refuses a reference
it already has, ends what it accepted and then sends one event, cancels only what
it has not ended, and answers lookups truthfully; Paystack refuses a reference twice
for a charge but makes up its own for a transfer without one.

### Withdrawal

`ConfirmReserve` is the transaction of confirmSend: hold on the wallet, both
records, then company liquidity or a row in the queue. `ConfirmPost` is the POST,
`ConfirmCompensate` the compensation of a refusal or an error, `ConfirmRecord` the
write of the provider's id. `CancelRead` takes the three reads that decide, as one
step; `CancelLocal`, `CancelRemote` and `CancelFinish` are the two paths.
`JobCheck` is the handler up to the confirmation, `JobCommit` its transaction,
`JobError`/`JobMarkFailed` the branch for errors that are not transient,
`JobTransient` the rethrow. `RetryCheck` to `RetryUndo` are processFailedRecord
with resumeWithdrawal, run by the hourly scheduler and by admins (`Processors`);
`ConfirmError`, `CancelError` and `RetryError` are the database failures of a request or
a retry after its first transaction. autoProcessEligible swallows what a retry throws
(`failed-company-liquidity.service.ts:121`): when its last write, the deletion of the
queue's record, fails, the record stays with the reservation held. `ExpireRead`/`ExpireCommit` are the expiry of records older than three days.

A second confirmSend of one preview finds the withdrawal by its reference and
returns it, so each withdrawal has one confirmation. The check and the decrement of
the internal balance are two statements in the code and one guard here; with one
user they cannot differ, because the wallet row is locked by the debit before.

### WebhookPipeline

`Receive`, `Store` and `Enqueue` are the endpoint: pre-check, insert against the
unique key, add to the queue. Any error of the insert counts as "not new" in
`ensureUnique` and is answered 200. The job is `JobStart`, then `JobInvalid`,
`JobHandle` or `JobThrow`, then `JobMark`. `ReconcileRead`/`Handle`/`Mark` are the
daily scheduler on one row. It marks an event without a reference (`Bare`; the field is
optional) as processed and calls no handler. Handlers are abstract: they return or throw.

### Deposit

`DepositCheck`, `DepositCredit`, `DepositPost` and `DepositRecord` are the handler
between its awaits; `Stall` lets BullMQ give the job to a second run while the
first goes on. A refusal of Quidax comes back as an answer without data, not as an error
(`base-quidax.service.ts:55`): `DepositCheck` then returns, the event is used up and the
deposit is not credited, and so it is without a user or a wallet (`noData`). `SweepTake` and `SweepRetake` start the sweep's handler from its job
and from the scheduler; `SweepCommit` to `SweepDone` are its steps.

### Swap

`ConfirmReserve` is the first transaction of confirmSwap, `ConfirmQuidax` the swap at
Quidax, `ConfirmCompensate` the compensation of any error and `ConfirmRecord` the
transaction that creates the `SwapTransaction` row by which webhooks find the swap.
`HandlerTake` is the handler up to its database transaction: row, fast path, lookup.
`HandlerFail` is handleFailureOrReversal, `HandlerSettle` the serializable
settlement, `HandlerFinish` what follows the commit. As in `Deposit`, `Stall` gives a
job to a second run. `RetryReserve`/`RetryUndo` are processFailedRecord with
resumeSwap, which looks for a row that a queued swap never has and so never
resumes it; `Expire` releases the amount without the fee, as the code does, because
`totalAmountSentBase` is never stored for a swap. There is one confirmation per
quotation: that a second one does not get through is `Quotes`' subject.

### Sell

`ConfirmReserve` and `ConfirmPaystack` are the two transactions before the order,
`ConfirmPost` the order, `ConfirmCompensate` and `ConfirmRecord` what follows its
answer. Between the look at the available naira and their reservation another
transaction may take them; the sale is then queued although its metadata say
`RESERVED` (`ReservePayout`). Each event of an order or transfer has a job; `Take` is
what every handler does first, and `run` says where a run of the job is. `OrderFail`
is the branch for cancelled orders; `OrderAdd`, `OrderPay`, `OrderPaid` and
`OrderUnpaid` are the try block with its two transactions, the call of Paystack between
them, and the catch block. `TransferSettle` is handleTransferSuccess and
`TransferRevert` handleTransferFailure; `Finish` is what follows a commit. `Retry*` and
`Expire*` are `failed-company-liquidity.service.ts` with resumeSell; `RetryError` as in
`Withdrawal`: a record that was not deleted after the order was accepted is retried an
hour later with a second order.

The settlement also takes the crypto from what the company owes its users
(`SettleInternal`), which throws below zero, and queues a record when what it owes still
exceeds what it has (`Exceeding`; the sale is then in `excess`). The queue has one
record per sale, so a second one fails the settlement (`CanSettle`). The retry of such a
record reserves crypto, not naira, and places an order like any other.

The handlers write the metadata of a transaction as one JSON value, from a copy they
read before. `seen` is that copy, and every write puts its fields back (`Metadata`).

Left out: the branch for missing bank details (confirmSell always writes them) and the
bypass of the providers outside of production.

### Buy

`ConfirmReserve` to `ConfirmRecord` are confirmBuy: reservation and rows, the charge at
Paystack, the release and the FAILED status of a refusal in two transactions, the
reference. `ConfirmBypass`/`ConfirmAgain` are confirmBuy outside of production, once and
twice. `ChargeTake` to `ChargeStamp` are charge.success: the mark taken under a lock,
the POST without a reference of ours, the order row, and the read and write of the
metadata for a time stamp. `ChargeDeclined`/`ChargeRelease` are handleFailure. `Order*`
is the buy branch of order.done; `Retry*` and `Expire*` as before, with resumeBuy.
`seen` is the copy of the metadata a run has read, as in `Sell`.

### Vault

`VaultRead`/`VaultOpen` are confirmVault for a stablecoin: a read without a lock and
a transaction that writes what follows from it. `VaultHold` to `VaultRecord` are
confirmVault for bitcoin, `VaultUndo` its failure, `CancelVault`/`CancelSwap`/
`CancelCommit` cancelPendingVault around its call of Quidax, `VaultWebhook` the vault
path of the swap handler (`Fund`, `Fail`, `FallsShort`: a swap that brings less than
quoted terminates the vault and the USDT stay with the company), `UnlockStart` to
`UnlockWrite` unlock, and `Dispatch`/`MatureOne` the two levels of the maturity
scheduler. Charges, buffer tiers and interest are computed as in the code, in integers.

### Autostack

One stack, paid from the USDT wallet, in bitcoin, or by a card (`source`). `StackConfirm`
creates it and starts its first charge; `DateCome` and `ChargeStart` are the
dispatcher with its delayed jobs, `Accrue` the interest of a period. `ChargeTake` is
the lock on the execution's transaction; `StackFromWallet`, `StackReserve` to
`StackUndo`, and `CardReserve` to `CardRecord` are the three ways to pay. `StackWebhook`
settles or fails a swap, `CardPaid`/`CardOrder`/`CardOrdered` are charge.success and
`CardOrderDone` the order event. `UnlockStack`/`PayOut` and `CancelStack`/
`CancelStackCommit` write by what they read before. chargeSavedCard's answer is not
looked at, so that a declined card counts as submitted, and neither is an error Quidax
answers with when a swap is confirmed (`StackPost`).

Left out: the quotation, its preview and the queries.

### UrgentLiquidity

`LoanQuote`, `LoanConfirm`, `LoanPost` and `LoanRecord` are the user's requests;
`LoanWebhook`, `LoanLock`, `LoanPay` and `LoanCommit` the order's webhook, one database
transaction with the call of Paystack inside it. The check of the company's internal
balance (`LoanWebhook`) takes no lock; its decrement does (`LoanLock`), and `paying` says
whose transaction has the rows locked. So two webhooks may both pass the check (`raced`). `LoanTransferHeard` is the transfer's event, `LoanWalletUsed` any other flow that
debits the collateral meanwhile. The code has no repayment, and `DISBURSED` is
unreachable.

### Bills

`BillHold` to `BillGiveUp` are confirm with its handlers for a failed POST and an unsaved
reference, whose transaction may fail as well (`uncaught`). The quotation is deleted last
(`Forget`), and a deletion Redis refuses is only logged: the request answers success and
the quotation can be confirmed again. `Fill*` is the bill branch of order.done, `RepairSelect`/`Repair` and `Retry*`
the two halves of the scheduler, `News*` the webhook of Xpresspay. All of them write
the metadata whole; `filling` and `retrying` are the copies the job and the
scheduler have read.

### Addresses

`CreateQuidaxSubaccount` queues the job when a PIN is set; `OpenAccount`, `SyncWallet`,
`ClaimRow`, `AskAddress` and `CommitSetup` are the job, whose database transaction
(`pending`) spans the calls of Quidax. A row that is there already fails the statement,
and with it, in PostgreSQL, the whole transaction; the errors are swallowed per
currency and the commit rolls back silently. `AddressRead`, `WalletCreate` and
`AddressSave` are the event's handler.

### Liquidity, LiquidityCache

`Reserve`, `SettleCheck`/`SettleCommit`, `Release` and `Book` change the row by
differences; `Read` and `SyncQuidax`, `SyncPaystack`, `SyncInternal` overwrite a column
by what they have read. `row.made` says who created the row: the Paystack scheduler
upserts by id and fails for ever on a row made by another path, so that its own cache
is never filled. `drift` adds up, for each column, what has moved since the read behind
its last overwriting. In `LiquidityCache` one hash has one time to live; every write
of a field sets it anew.

### Quotes

`GetQuote` makes a quotation with the arithmetic of its side (buy, sell, swap, send):
rounding, buffers, minor units, fees. Previews and PIN checks read the whole entry and
put it back (`PreviewRead`/`PreviewWrite`, `PinRead`/`PinWrite`), the confirmation reads,
checks, creates the transaction, posts and deletes. `Guarded` is the unique
id of the transaction. The bypass outside of production is in `Buy`.

### Settings, Accounts, Staff

`Settings` has the four families in one module; a range belongs to a currency (`group`),
and an update may move it to another (`Updated`): `CreateFee`, `CreateRepayment`,
`CreateTier`, the two bulk creations, the patches, and the updates of the terms, each
followed by its own refresh of the cache, before or after the commit as in its service
(`PatchRefresh`/`PatchCommit`). `Accounts` has every request as a read and later writes
in one of two slots; a code is known to who gets the mail. A wrong PIN is counted in Redis
and the account locked in its row, two writes with an error possible in between
(`RequestFails`). `Staff` has the
requests of the super admin at two desks, each with the refresh of the cache from
within its transaction (`RoleRefreshRead`, `RoleRefreshPut`, `RoleCommit`), and the guard
that fills what it does not find. A put that Redis refuses fails nothing: the
transaction commits with the old entry.

### Cards, BankAccounts, Kyc

`Cards` splits `verifyCardTransaction` at its calls: `VerifyCard` asks Paystack, `CardLook`
to `CardCommit` are the transaction, whose rows nobody sees before its commit, and
`CardRefund` the call to Paystack inside it. An undone transaction does not undo the
refund. A card that is known leaves the charge of 100 naira as it is, neither booked nor
refunded, where the documentation of the controller says that nothing is charged
(`card.controller.ts:117`). `BankAccounts` has the token between `VerifyBankAccount` and
`BankForgotten`, and the list of banks, which one answer without data empties for a day.
`Kyc` has the look, the answer of Dojah and the write of each request; the document and the
tier are two statements (`KeepDocument`, `RaiseTier`).

### Schedule, Snapshots

`Schedule` has time in units. `Enqueue` and `RunHere` are the clock of a process with and
without the queue; `BeginRun` asks whether the job is due, `Claim` takes the lock, and
`DispatchShards`, `RetrySweeps`, `RunPlain` are the ends of the three kinds of job.
nextExecutionAt is counted from the START of a run. `Snapshots` has the weekly pass, which
pages in the order of the ids, and the daily one, which pages in no order.

## 3. Runs

Several invariants of one run are conjunctions of named parts, which the modules define
one by one (`BooksExact` is `HoldsExact`, `CompanyExact` and `RecordsAgree`). `Safe` is
the type invariant with `Solvent`, and `PipelineSafe` the pipeline's with `SingleJob`.

| Run | Checks | Under |
|---|---|---|
| WithdrawalSettle | BooksExact, PaidSettles, refinement of HoldLedger | two withdrawals, no cancellation: both funded, a crash and a transient error; or one queued, a top-up and an expiry |
| WithdrawalEvery | Safe, NeverShort (NoPhantomHold, CompletedWasPaid), ChargedOnce | one queued; a canceller, the scheduler and an admin; every fault but a top-up, or a top-up with a crash and an error |
| PipelineEvery | PipelineSafe, ProcessedWasHandled, AckedIsQueued, QueuedIsSettled | two deliveries of four events (a user's, an invalid one, a sweep's, one without a reference), more handler errors than attempts, the daily scheduler |
| DepositEvery | TypeOK, CreditedExactly, SweepsInOrder, BothSettle (ArrivedIsCredited, RecordedIsCounted), refinement of CreditLedger | one deposit, two runs, every fault, the scheduler |
| SwapEvery | Safe, ExchangedTogether, CompanyBacked, RecordedIsSettled, refinement of HoldLedger | two swaps, two runs, one or both backed; every fault |
| SellEvery | Safe, ProceedsOnce, PayoutsEarned (PaidWasSold, PaidOnce), SaleBacked (HoldsKept, PayoutBacked, NeverOvercharged) | one sale, two runs of every job, any two faults |
| SellSettle | SaleSettles (FilledIsPaid, PaidIsBooked) | one sale, two runs of every job, any one fault |
| ServicesEvery | ServicesSafe, VaultExact, LoanBooks, AddressesExact, PurchaseExact, BillBooks, LiquidityExact, ServicesSettle | two of the mishaps that are not merely remembered, in each service |
| PlatformEvery | PlatformSafe, StackExact, SettingsExact, AccountsExact, StaffCaches, QuotesHonest, JobsExact | the same, in each part of the platform |

### Bounds

Withdrawals: totals of 3 (fee 1) and 2 units use the whole wallet of 5, so a hold that
is released twice, or the other withdrawal's, shows at once; with 5 units of the
company both are funded, with 4 the second to come is queued. Two swaps of 2 (fee 1)
and 1 leave one unit of a wallet of 5 free; the company starts with 2, which backs one
of them, or with 3, which backs both. `MaxAttempts = 2` is the smallest number with a
retry and a last attempt. One of each fault is enough for each hazard listed, which all
need one fault and two interleaved actors; deliveries of an event are two, the smallest
number that race. One sale of 2 (fee 1) on a wallet of 7 of which other flows hold 3,
with naira for one payout of 2 beside 2 that others hold, has room for a release or a
debit too many to show in what is not its own; of 3 units of crypto the company has, it
owes 1 (too little for the settlement, SellSettle) or 6 (more than it has, after it too). `Cap = 2` is one order or payout more than
a sale or a purchase should have. `MaxFaults` bounds the faults of one behaviour, of any
kinds, to two (one in SellSettle): in the runs that have it, what takes three mishaps
is not seen.

ServicesEvery:

* *Vaults*: one of 100 in a stablecoin on a wallet of 150, and one of 10 in bitcoin, of
  which with the buffer 12 of 14 are sold, quoted at 200 USDT; the company has 220 or
  250, of which others reserve 30: too little for the swap, or enough.
* *Loans*: of 60 and 42 naira at rate 3, on 45 units, which back both, unless another
  flow takes 20; of the coin the company owes its users 60, or 30, which covers either but
  not both. An order's job has three attempts.
* *Addresses*: a network with an address of its own and one with a memo; the job has two
  attempts, so up to three addresses of a network may be made.
* *Buy*: a purchase that costs 2, with 2 or 4 naira of which others reserve 2 (it is
  queued, or backed); every event with two runs; outside of production two confirmations.
* *Bills*: two bills, of one quotation; each sells 3 units for 25 and costs 20, on a wallet
  of 10 with 3 held by others and 60 naira with 15 held. One retry, two attempts per job.
* *Liquidity*: a payment of 2, paid at Quidax, which has 3; Paystack has 2; two
  scheduler runs at a time, each of any of the three kinds; the row may be missing, or have
  been made by either path.

PlatformEvery:

* *Autostack*: two due dates, of 20 with fee 1, on 63 USDT or 33 units of bitcoin at 11 a
  charge (three charges each, one more than the dates), or a card with 100 naira of the
  company, 25 of them held by others, at 30 a charge (two charges); the company has 45
  bitcoin, of which others hold 15; two jobs and two requests overlap.
  The second date of a card is followed for at most one mishap (`FewFaults`).
* *Settings*: two administrators with two requests in all, a reader, two rows, two
  currencies, and four ranges that touch, overlap, contain one another or are apart. At most
  one of a crash, an error, a lost cache, an overlap, a check got round and a late fill
  (`FewFaults`).
* *Accounts*: four requests after the sign-up, two at a time, with limits of two.
* *Cards, bank accounts, KYC*: two charges of either of two cards, two verifications of
  an account of the user's or of somebody else's, two users with two national numbers
  of which one may be either's; two requests at a time.
* *Staff*: one administrator, two roles, three changes at two desks, and the guard.
* *Quotes*: one quotation of each side for 1 or 3 coins in 100 or 1000 minor units, two
  requests of a kind, three prices at the time of confirmation, around the one quoted.
* *Liquidity cache*: three currencies, a time to live of 3, two readers.
* *Schedule*: two processes, a period of 3, a lock of 2, a clock up to 1 late, up to time
  13, which is four slots: enough for a skipped slot, and for a failure and a skipped slot.
  A lock and the delay of a clock together fit into a period, as those of the code do by
  hours (20 minutes against 12 hours).
* *Snapshots*: three users in pages of two, one of whom may sign up during a pass, two
  processes, one change of a balance.

`SellEvery`, which checks invariants only, uses the symmetry of its two runs; the other
runs with interchangeable identifiers use none. `CHECK_DEADLOCK FALSE`
everywhere: requests are finite and a settled system stops.

### What each property excepts

A property that does not survive a fault says so in its own definition, and the run
includes that fault; where a run leaves faults out, the table above says which.

`BooksExact` fails once a cancellation or a lost answer compensates a withdrawal that
Quidax then pays, or a late reply of a retry reopens a settled withdrawal, which a second
run of its job may then settle again: `ChargedOnce` says what stays true of each single
step, that it takes money only for what Quidax paid. `ImplementsHolds` of Withdrawal excepts the step in
which a late reply of a retry reopens a settled withdrawal. `ImplementsCredits` holds
while neither the daily scheduler has started (it may add a sweep the worker is
adding) nor a database error has struck; `CompanyBacked` while no failure ran twice
(and, for the upper bound, nothing crashed); `ImplementsHolds` of Swap while no failure ran
twice and nothing expired; `AckedIsQueued` without a crash or an error between insert and
queue. In `Sell`, `ProceedsOnce` excepts a stall together with an error, `NeverOvercharged`
stalls and second faults, `HoldsKept` jobs that run again, `PayoutBacked` these and
reversals, and `PaidOnce` counts the faults. `OneOrder` is excepted by all but the last
two: a retry that dies, or fails, before it has deleted the queue's record is run again, so
is the record that a settlement leaves, and an admin may retry beside the scheduler, and
each places an order; the first order's failure then writes back metadata that say nothing
of the second. `ProcessedWasHandled` excepts what the reconciliation marks: sweeps, and
events without a reference. `ArrivedIsCredited` excepts a deposit that Quidax did not show
when it was asked.

`Solvent`, `NoPhantomHold`, `CompletedWasPaid`, `SweepsInOrder`, `ExchangedTogether`,
`AddressesExact` (which counts rolled-back transactions), `ReservedExact`, `DriftBounded`
and `PurseHonest` survive everything.

* `PurchaseExact`: an event before its order row (`early`), a reversal, an expiry that meets
  an administrator or a settlement, and errors of one run beside another; a retry that
  does not learn of its charge spends nothing.
* `VaultExact`: a cancellation that commits after the funding (`staleCancel`) spoils it;
  two overlapping requests spoil the wallet's own columns, not the company's totals.
* `LoanBooks`: a transaction undone after it has paid pays again (`timeout`,
  `lostAnswer`, `crash`); what the company owes is below zero only after two webhooks have
  passed its check at once (`raced`). `BillBooks`: a metadata copy that overwrites what
  another has settled (`early`, `again`); one quotation pays two bills when it is confirmed
  twice at once, after a crash, or when it was not deleted (`twice`, `crash`, `undeleted`).
* `StackExact`: overlapping jobs charge a date that has not come, also when a job is about
  to take an execution that the settlement of an earlier one has overtaken (`jobsOverlap`);
  an unlock or a cancellation writes by what it read (`staleRequest`); answers that are
  lost or not written down are held for refusals.
* `SettingsExact`: two checks before either write, checks that are got round
  (`unchecked`), and the refreshes that miss what they should show (`patched`,
  `newTerms`, `lateFill`) or that Redis refuses (`error`). `AccountsExact`: overlapping
  requests, counters that expire and counts Redis did not take; an error after the count
  and before the lock leaves an account open whose counter locks it at the next wrong PIN;
  a card's transaction undone after its refund; a request that dies between a
  document and the tier.
  `StaffCaches`: overlapping requests and writes Redis refuses; one change behind is the
  best there is.
* `QuotesHonest`: one transaction and one order always; whom it pays, unless two requests
  overlap or a preview follows the PIN.
* `JobsExact`: alone unless a run outlasts its lock; once a slot unless the queue cannot be
  reached; a gap of two periods, and one more per failure; a cached value older than its
  time to live, but for each other currency only once.

### Departures

Three runs show the code departing from what its documents and comments say:

| Run | What the repository says | What happens |
|---|---|---|
| WithdrawalEarlyCancel | "no Quidax call was ever made" | the POST may be accepted before its id is stored |
| WithdrawalRejected | a failed withdrawal releases the balance | the handler returns unless Quidax says Done |
| SwapEarlyEvent | the record is created before the swap is confirmed, and the webhook completes it | the row is created last; an event before it finds nothing and is used up |

Further departures that the modules contain as steps, and no run singles out:

* *Withdrawals, webhooks, deposits, swaps*: the release of a cancellation throws on a
  network other than the wallet's own (`CancelNetworkOk`); the `failed` listener on the
  queue hears nothing, so a dead job's row stays `pending`; no scheduler retries the
  webhooks of users; a crash between a deposit's credit and its sweep leaves no
  `CompanyWithdrawal` row; the worker and the daily scheduler may both add one sweep to
  the total; a lost answer of a swap releases holds of a swap Quidax executes; a queued
  swap is never resumed and its expiry leaves the fee reserved; two runs of a failed
  swap release its hold twice; a retried withdrawal may be written back to PROCESSING
  after it succeeded. A sweep that Quidax ends before its row is written is never counted.
* *Sales*: the platform fee stays reserved after the settlement and after an expiry; a
  failed transfer leaves the sale PENDING with its holds, where section 12 of the report
  has it FAILED and released; a resumed sale still says `INSUFFICIENT`, so a cancelled
  order keeps the naira the retry reserved. A payout has no reference of ours and is
  started again by every rerun of its job. A reversal reopens a sale whose wallet has
  been debited. An admin who resumes a queued sale together with the scheduler sells
  and pays it twice, so the runs of sales and purchases have no admin (`Admins = {}`).
* *Purchases*: a POST that throws leaves the mark of the order, and the paid purchase is
  never ordered; nothing calls compensateFailedBuyOrder.
* *Autostacks*: a declined card is never charged again; a failed order of a card's charge
  leaves it submitted. *Loans*: the transfer is started inside the transaction that
  books it. *Bills*: an error while adding the proceeds lets the scheduler pay a bill whose
  proceeds are never booked.
* *Books*: the comment in the buy branch of order.done that the scheduler will reconcile
  the naira with Quidax overlooks that the Paystack scheduler writes the same column.
* *Schedulers*: a slot is skipped whenever the clock is a moment earlier than the time before;
  a lock kept after a failure makes the retried job return as if it had run.
* *Accounts*: a wrong PIN too many answers "locked for 30 minutes"
  (`auth/users/users.service.ts:806`), but the account is FLAGGED until an administrator acts.
* *Settings, staff*: caches are refreshed before the commit (the comments say
  "invalidate"), or under keys no getter reads.

### Fairness

`FairSpec` of a module, and the `Fairness` of `Services`, are weak
fairness of the steps a BullMQ worker, a request that has started, or a scheduler is bound
to take: queued jobs are taken by a free worker, and an `await` returns. In `Services`
one condition stands for all workers of a service (`Of(...) /\ some step`): some
worker makes progress. `LiquidityFairness` has strong fairness for the reads of the
schedulers, which are started over and over, whatever payments do in between. No user,
admin, delivery or fault is fair; neither is what a provider owes after a request, but for
the withdrawals and sweeps that Quidax has accepted, which it ends.

Liveness holds as long as a job fails fewer times than it has attempts, which the budgets
ensure or the property says. `PaidSettles` is checked with one crash and one transient
error but without the lookup fault, which ends a job for good; `ArrivedIsCredited` with
three attempts and every fault, of which at most two can hit the job before the credit.
`QueuedIsSettled` and `RecordedIsSettled` say in their own text what ends an event
without settling it. So do `RecordedIsCounted`, `FilledIsPaid` and `PaidIsBooked`.
`ServicesSettle` says of every behaviour that it comes back, again and again, to states in
which due vaults are paid (`VaultsPaid`), filled orders of loans settled (`LoansPaid`),
the addresses Quidax has made in use (`AddressesUp`), paid purchases ordered and filled
ones settled (`PurchasesDone`), sold bills asked for and answered ones closed
(`BillsDone`), and the books of the naira row show what is there (`Reconciled`: for the
total, at one of the two providers, whichever wrote last).

## 4. Proofs

TLAPS checks, for every set of withdrawals, deposits, swaps, sales, loans, networks, payments,
bills, vaults, settings, roles and users, every amount, price and limit, any number of
requests, runs, processes and processors and every fault budget:

| Module | Theorems |
|---|---|
| Withdrawal_proofs | AlwaysSafe, NeverShortAlways (CompletedOnlyIfPaid, NothingLocked), ChargedOnceEach, BooksAlwaysExact, HoldsImplemented |
| Webhooks_proofs | PipelineAlwaysSafe (OneJobPerEvent), ProcessedMeansHandled, AnsweredIsQueued; TypeCorrect, SweepsAlwaysInOrder (SweptOnlyIfCredited, BookedOnlyIfPaid), AlwaysCreditedExactly, CreditsImplemented |
| Swap_proofs | AlwaysSafe, AlwaysExchangedTogether, AlwaysBacked, HoldsImplemented |
| Sell_proofs | AlwaysSafe, AlwaysProceedsOnce, AlwaysPayoutsEarned |
| Services_proofs | LoansTyped, LoansAlwaysBooked; AddressesTyped, AddressesAlwaysExact; LiquidityTyped, LiquidityAlwaysExact; VaultAlwaysSafe, VaultAlwaysExact; BillsTyped, BillsAlwaysSolvent, BillsAlwaysBooked |
| Platform_proofs | PlatformSafely, PlatformSettingsExact, PlatformAccountsExact, PlatformQuotesHonest, PlatformJobsExact; StaffTyped, StaffCachesFollow |

`Ledger_proofs` has one lemma per update of a row: under its guard it takes a good row to
a good row. It also has what the books need of a sum over a set of operations. The
models write such sums with the folds of the community modules, which are recursive
functions over finite sets; from their recursive equation it is proved that a sum loses
its term when an operation leaves the set (`SumRemove`), gains it when one enters
(`SumAdd`), is the same for two functions that agree on the set (`SumSame`), moves by
the difference when one operation's amount changes (`SumChange`), and is monotonic in the
set (`SumSubset`). Every step of a model touches one operation, so no induction over the
operations is left to do at the models.

* **Types and solvency.** TypeOK alone is not inductive: a balance stays a natural number
  only because reserved never exceeds base (total), and attempts only because a job
  that is not dead has one left. `Sound` is `TypeOK`, `Solvent` and `AttemptsLeft`; in
  Swap with `Unended` (Quidax has not ended a swap whose event has no job yet, so an
  event has one job), in Sell with `NotYet` (an order has no job before Quidax ends it,
  a transfer none before Paystack says so, whichever handler or retry made it), in Deposit
  `Counted`. Two runs of a failed swap take another swap's hold, and even so no column
  goes below zero: the guards decide.
* **Withdrawals.** `CompletedOnlyIfPaid`: `PaidInv` follows Quidax's Done from the lookup
  (`JobCheck`) through the job's program counter to the records. Done is final, and
  only `JobCommit` writes COMPLETED or SUCCESS. `NothingLocked`: the wallet's hold is at
  most the sum over the open withdrawals, by the sum lemmas: whoever settles, compensates,
  cancels or expires one releases at least what it held, or finds less and takes
  all. `ChargedOnceEach` is the action property: only `JobCommit` writes base.
  `BooksAlwaysExact` and `HoldsImplemented` are about the scheduler and the requests
  alone (no cancellation, no admin), as the run WithdrawalSettle is: two actors on one
  withdrawal do break the books (section 3). `Flow` says where a withdrawal is in its
  request, on the queue, at Quidax and in its job; `Backed` has both reservations as the
  sums over the withdrawals that count. The hypothesis `Undisturbed` names the four
  mishaps whose traces nothing in the code removes: an answer of Quidax is lost, the
  process dies or the database fails in a retry that has reserved, an error follows the commit of a settlement,
  and the job of a withdrawal that a late reply of the retry reopened, or yet may, is
  run again. Every other crash, error, refusal, rerun and expiry is allowed, in any
  number, and the run's budgets lead to none of the four.
* **Pipeline.** `OneJobPerEvent`: at most one request ever puts an event on a queue, from
  the invariant that a request past the insert has the event's row, and that two
  requests past the insert are the same. `ProcessedMeansHandled`: `Marked` says it of
  the job and of the reconciliation when they have yet to mark. `AnsweredIsQueued`: who
  made the row of an event that is not queued is still at work on it.
* **Deposits.** `SweptOnlyIfCredited`: `CreditFirst` follows the credit through the run that
  posts the sweep and Quidax's record of it to its row. `BookedOnlyIfPaid`: `DoneFirst`,
  the same for Quidax's Done. `AlwaysCreditedExactly`: `CreditInv` has the wallet and the
  total as a sum over the credited deposits. `CreditsImplemented` maps every step to one of
  CreditLedger or a stutter; it needs `RowOnce` (until the scheduler starts, a sweep
  counted has left the states in which it is counted) and `Quiet` (what has not been
  spent of the budgets leaves nobody in the states only a fault or the scheduler leads to).
* **Swaps.** `Progress` says how far a swap is at Quidax, in its rows, its jobs and its
  retries, and that a retry is alone with its swap. From it and the sum lemmas follow
  the four balances (`AlwaysExchangedTogether`), both bounds on the company's
  reservation (`AlwaysBacked`), and the step refinement of HoldLedger.
* **Sales.** `Progress` says the same of sales, where orders, payouts and runs have no
  bound: a job is held by whom it says, orders are numbered in the order they were
  made and a queue's record is retried by one processor at a time. `BookedOnce` and
  `BookedExactly` make `proceeds` the ghost of one debit and credit of the company's
  books. `AlwaysPayoutsEarned` counts: for each sale, payouts made, runs that may yet
  pay and jobs that may yet start such a run are together at most the filled orders plus
  what has been spent of the budgets that rerun a job (`PaidWithin`). A transfer moves
  one from the second summand to the first, a stall, a crash, a lost answer or an error
  pays for the one it adds.
* **Loans.** `LoanSpec` is UrgentLiquidity alone with the whole budget: what a behaviour of
  ServicesEvery does when its subject is the loans. `LoanFlow` says which rows, sale and
  transfer a loan has at each point of its request, job, sale and payment. On it rest
  `PaidOfSold` (naira goes out only for collateral that was sold), `PaidByRow` (while no
  transaction was undone after it had paid, the only transfer of a loan is the one its
  row names) and `FailedUnsold`. `LoanMoney` has collateral and books as sums over the
  loans, and `PayingCovered` that what is being paid is covered by the naira of a sale.
  `LoansAlone`: what the company owes suffices while no two transactions were under way.
* **Addresses.** `AddressSpec` is Addresses alone. `AskBounded` is why there are
  `MaxFaults + 1` addresses of a network at most: a network that is still to be asked
  for has been asked for at most once per mishap. `AskCounted` is the same count in rolled-back
  transactions: an address that the open transaction does not know of and no committed
  row has was made in a transaction that is lost. `WalletsLost` and `RowsMade` say
  why a wallet is made up, and whose id a row has, committed or pending.
* **The row of naira.** `LiquiditySpec` is Liquidity alone. What is reserved is the sum over
  the unsettled payments (`ReservedExact` is inductive with the sum lemmas, because the
  schedulers' updates name no reserved balance) and the wallets hold that much too
  (`WalletsCover`), so none of them goes below zero. `ReadsTracked` says of each run under
  way what `PurseHonest` and `DriftBounded` say of what is written down: what was read
  differs from the balance by what has moved since. `Feeding` says which balances a column
  can have been written from.
* **Staff.** `StaffSpec` is Staff alone. `StaffCaches` is about requests that are alone with
  their rows: while no two have overlapped, whatever a request has read or is about to put
  into an entry is what its own commit leaves or has left, the order of an entry's changes is
  that of the rows, and a deletion that has not reached Redis is under way or was cut
  short by a restart or an error. The getter may put what it read before a change; that
  is the change an entry may be behind. None of it survives a put that Redis refuses.
* **Bills.** `BillSpec` is Bills alone. Types, solvency and `Attempts` hold whatever is
  written over whatever, because the guards of the two rows decide. What the books say holds
  as long as nobody has been handled out of turn (`early`, `again`): then `Story` says of
  every bill how its status, its two holds, its order, Xpresspay and the copies of its
  metadata in the job's and the scheduler's hands fit together (the copies agree with the
  row in what counts, the job and the scheduler are never at one bill at once),
  `OneConfirmed` that of the confirmations of one quotation one goes on unless it was not
  deleted, and `BillFunds` has
  five columns as multiples of the numbers of open, covered, paid and brought bills. Every
  step writes one bill, so that each of the four sets gains or loses that bill or stays.
* **The platform.** `Platform`'s invariant is the conjunction of its parts', each inductive
  on its own; a step of one part leaves the variables of the others as they are and
  at most lowers the budgets (`CountsDown`), which each part's invariant survives
  (the lemmas `...Rests`). So the theorems are about the composition that TLC runs:
    * *Settings*: what an administrator found before writing is what the writing replaces
      while no two have overlapped, so that ranges which were apart stay apart, and the cache
      is the rows' as of the last refresh; the mishaps that `SettingsExact` names are the steps
      that refresh too early or under another key.
    * *Accounts, cards, bank accounts, KYC*: while one request is at work what it has
      read is what is there (`OneRequest`), `CodesCounted` and `PinsCounted` count what was
      tried against what the counters show, and the rows of a card, a bank account and a
      number are those of the requests that got through.
    * *Quotes*: rounding and buffers are bounded by lemmas over the integers (`RoundedBounds`,
      `PurchaseCovered`, `SaleCovered`), from which what is booked is covered for every
      price that passes the check; that there is one transaction and one order is the
      unique id, and that the payee is the agreed one needs that nobody overlapped.
    * *Schedule, snapshots, cache*: `InTime` bounds the next execution by the last start,
      a period, a delay and one period per setback; a lock outlasts no slot by
      `LockTtl + MaxDelay <= Period`. A page of a pass is of the ids after the last, so that
      a user who stays is shown or still ahead (`ShownOrAhead`). `RoomWithin` bounds the age
      of what is cached by what its time to live still leaves.
    * *Autostack*: `StackTyped` has the types and solvency of the three ways to pay: what an
      unlock or a cancellation writes by an old reading may be wrong but is not below
      zero. `StackStory` has the rest of `StackExact`, each conjunct under the mishaps it
      survives. `OneAtWork`: the executions before the current one are settled and no other;
      of the jobs that have taken an execution and the swaps a webhook may still settle,
      at most one is there, and the execution's `initiationStatus` says which. With it
      `StackDates` (a due date is not given up while somebody works for it) bounds the number
      of charges by that of the dates. `StackHolds` counts what is on hold by execution, and
      `StackSums` what is stacked by settled executions, both as multiples of cardinalities.
      `SoldOnce`: whoever would post a swap knows that none of its execution stands.
      `CardStory` says how far Paystack's charge, its event, the order for it and the
      execution's metadata are with each other; a stale copy that wipes out newer metadata is
      where it needs that nothing came early.
* **Vaults.** `VaultSpec` is Vault alone. The books are sums over the vaults by status, and
  every step moves one vault, so each sum moves by what that vault counts for before and after
  (`VaultShift`, `HeldShift`). `VaultStage` ties a vault's row to its swap and to the
  requests: a swap that is known and pending is of a vault that waits for it, so the
  webhook funds a vault once and nothing funds one that is paid. That `unlock`, which
  subtracts without a floor, never takes the wallet's interest below zero even when a
  cancellation commits behind it is `InterestThere`: the interest of every active vault, and of every
  vault whose unlock is past its reading, is in the wallet. What a request read is what the
  wallet holds (`ReadsFresh`) until two overlap, and then only the wallet's own columns are
  given up. A refused vault releases what it may not have reserved; `BackingThere` shows that
  it had, when the company's account covers all quotations.

The assumptions are those named in the modules, and each is what TLC evaluates in a run:
amounts are naturals, a fee is within its total, what others hold is within what there
is, budgets are naturals, and a mishap that is only remembered has a budget above zero, or
it would leave no trace; a job has at least one attempt; there are finitely many requests
(of which TLC cannot sum over more), administrators, users and runs at a time; the
identifiers of runs and of the two sweepers are distinct from each other and from the
states of a job; a quotation's buffers are percentages below 100, its prices and units
positive; a clock is late by less than a period, of which a lock takes what that leaves.

Only model-checked:

* Liveness (`PaidSettles`, `QueuedIsSettled`, `BothSettle`, `RecordedIsSettled`,
  `SaleSettles`, `ServicesSettle`): fairness is out of the prover's reach.
* `SaleBacked`, which holds of few faults at a time, so that its invariant would have
  to say what each pair of faults leads to.
* `PurchaseExact`, and with it the types of Buy in `ServicesSafe`: metadata that the
  charge, the order and the retry write over one another would need what `Story` says of a
  bill for each number of orders and charges. The other five parts of `ServicesSafe` are
  proved (`VaultAlwaysSafe`, `LoansTyped`, `AddressesTyped`, `BillsTyped` and
  `BillsAlwaysSolvent`, `LiquidityTyped`).

## 5. Plan

1. *(done)* Ledger, HoldLedger, Withdrawal with its proofs; WebhookPipeline;
   CreditLedger, Deposit; Swap; Sell.
2. *(done)* Trading: Buy, Quotes. Savings: Vault, Autostack. Bills, UrgentLiquidity.
   Platform: Addresses, Liquidity, LiquidityCache, Schedule, Snapshots, Settings,
   Accounts, Cards, BankAccounts, Kyc, Staff.
3. *(done)* Proofs: every safety property, action property and refinement that the runs
   check, but `SaleBacked`, `PurchaseExact` and `ServicesSafe` (its part of Buy).
4. Larger instances: an admin beside the scheduler in Sell and Buy, two purchases on one
   amount of naira, two autostacks on one wallet.

## 6. Not modelled

previewSend, previewBuy and the like beyond their effect on a quotation; formatting,
notifications, dashboards, mail, the pictures of documents, queries;
the admin resolution of failed webhooks and liquidity records beyond activation; the reset
of an administrator's password; the daily transfer limit, whose interceptor never applies;
the circuit breaker, which counts the failures of one process and changes no row; the
legacy order book; provider clients beyond their answers. `PROJECT.json` gives the reason
per component.
