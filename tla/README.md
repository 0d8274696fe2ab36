# AI Cinema backend: a TLA+ verification project

AI Cinema is a NestJS/Prisma backend for a cinema of AI-made movies. A Reviewer
commissions a movie from an outside studio, reviews what it delivers and
publishes it; members watch episodes on free starters, a subscription or Coins,
which they buy through payment gateways. This directory holds TLA+ models of
the parts of that program that several requests, sweeps, workers and outside
services work on at once, the TLC configurations that check them, and theorems
about them that the TLA+ proof system checks.

Paths below are relative to `src/` of the repository root; `EA` stands for
`src/modules/episode-access` and `PR` for `src/modules/production`.

    tlc -workers 2 -config CoinWallet_race.cfg MCCoinWallet.tla   # one run
    tlapm CoinWalletProofs.tla                                    # one proof module

`PROJECT.json` lists the components, the runs, a mutant for every property, the
source lines every definition stands for, the findings, the hazards and the
theorems.

## 1. The system

### 1.1 How the program runs

* HTTP requests are served by Node processes. Between two `await`s a request is
  atomic; at every `await` any other request, sweep or process may run.
* State is rows in PostgreSQL at READ COMMITTED. A `$transaction` commits or
  rolls back as a whole, but what it *read* may be stale by the time it writes,
  unless a row was locked first (`SELECT ... FOR UPDATE`) or the write carries a
  guard (`updateMany ... where status in ...`). Most of what can go wrong here
  is a decision taken on a read from before the transaction or before the lock.
* Sweeps are repeatable jobs of BullMQ, or timers when there is no Redis. A run
  may still be at work when the next one starts, and may die anywhere.
* Payment gateways call webhooks, redeliver them, and answer queries.

The models follow from that. A request is two or more actions: one that reads,
and one per transaction. A transaction in which every decisive read is locked
or guarded is one action. A transaction that decides on an unlocked read is
split at that read. A crash may fall between two actions and loses the local
variables of whoever crashed, never a committed row.

### 1.2 Components

| Component | State | Operations | Who it meets | Modelled in |
|---|---|---|---|---|
| Coin wallet and ledger (`EA/coin-wallet`) | `coin_wallets` (main, bonus), `coin_lots`, `coin_transactions` | spend, credit, Admin corrections, bonus-expiry sweep | called inside the transactions of top-ups, purchases, renewals, rewards | `CoinWallet` |
| Coin top-ups and payments (`EA/coin-topup`) | `coin_top_ups`, `payments`, `payment_callbacks` | create, webhook, settle, reconcile sweep, expiry sweep | gateways; credits the wallet | `TopUp` |
| Payment gateway adapters (`EA/coin-topup/gateways`) | none | sign, read a delivery or an answer, amounts in the units of the gateway | top-ups | `Gateways` |
| Subscriptions (`EA/subscription`) | `subscriptions`, `subscription_cycles` | subscribe, activate, stop/resume auto-renew, Admin cancel, renewal sweep | spends from the wallet; opens access | `Subscription` |
| Membership plans (`EA/membership-plan`) | `membership_plans`, `plan_prices` | create, price from a date, take off sale | subscriptions | `PlanPrice` |
| Purchases and refunds (`EA/episode-purchase`, `series-purchase`, `entitlement`) | `episode_accesses`, `series_accesses` | buy an episode, buy a series, refund a removal | spends from the wallet; reads what publishing writes | `Purchase` |
| Access decision, catalog (`EA/access-decision`, `src/modules/catalog`) | none | may a member watch this episode, what is listed | reads purchases, subscriptions, publishing | `Viewing` |
| Daily check-in (`EA/daily-reward`) | `daily_check_ins`, `reward_rules` | claim, edit the ladder | credits the wallet | `DailyReward` |
| Billing reports (`EA/billing-reports`) | none | revenue, chart, churn | reads subscriptions and cycles | `BillingReport` |
| Project lifecycle and planning (`PR/movie-project`) | `movies`, `seasons`, `episodes`, idea files, change requests | create, assign, structure, cancel, propose | publishing, hand-off, budget | `Project` |
| Reviewer budget and production fee (`PR/reviewer-token`, `PR/production-fee`) | `reviewer_token_*`, fee rows | grant, take back, charge, assign | project lifecycle | `ReviewerBudget` |
| Studio hand-off and portal (`PR/studio-handoff`, `PR/studio-portal`) | `studio_handoffs` (token hash, expiry) | hand off, send the link again, answer, deliver through the link | ingest, email | `StudioPortal` |
| Media ingest (`PR/media-ingest`) | `media_assets`, `episodes.status`, jobs | deliver a link or file, retry, process, fail, restart | job queue, review | `Delivery` |
| Fetching of links (`common/security`, `PR/media-ingest/hls`) | none | check a link, follow redirects, download, read a playlist | ingest | `SafeFetch` |
| Content review (`PR/content-review`) | `content_reviews`, `ai_labels`, `compliance_checks` | approve, ask for changes, label, run compliance | ingest, publishing | `Release`, `Delivery` |
| Publishing (`PR/publishing`) | `publications`, status of episodes | publish, schedule, publish due, take down, revise, complete | refunds purchases; gated by review, label, compliance and database triggers | `Release`, `Purchase` |
| Prices of episodes (`PR/publishing`) | `episodes.coin_price`, `price_alerts` | set, alert, answer an alert | purchases | `Pricing` |
| Link check and overdue sweep (`PR/media-ingest/hls`, `PR/studio-handoff`) | `notifications` | report a dead link, flag a late episode | - | `Alerts` |
| Email outbox, job queue (`platform/email`, `infrastructure/queue`) | `email_messages`, BullMQ or timers | queue, send, retry, give up | everything | `EmailOutbox` |
| Sessions, users (`identity/auth`, `identity/user`) | `refresh_tokens`, `users` | sign in, rotate, sign out everywhere, lock, delete | guards | `Sessions` |
| Access control (`identity/access-control`) | memory of each instance | look up an account and its permissions, forget | every request | `AccessControl` |
| Notifications, audit log, settings, policies, genres, storage, mailer, media tools, project access rules, HTTP edge | plain rows or none | single-row edits, reads, I/O | - | section 9 |

### 1.3 What is hard, and what must hold

* **Wallet**: callers of one wallet race (main before bonus, first-expiring lot
  first, never below zero); an idempotency key is shared by racing requests; two
  sweeps and a spend meet over one lot. The ledger must explain the counters, a
  key must move Coins once, a lot must expire once and in the end.
* **Top-ups**: the same payment is reported by redelivered webhooks, by the
  reconcile sweep and by nobody, while the expiry sweep closes the order. At most
  one credit per order, only for a confirmed payment (of the exact amount, if the
  gateway says what it took), the
  rows agree with the ledger, and a confirmed payment settles in the end. Both
  gateways count and answer differently: what is read as paid must be paid.
* **Subscriptions and plans**: member, Admin and overlapping renewal runs. Every
  Coin pays one cycle, cycles follow each other, nothing runs unpaid, what is due
  is decided, a run ends; the price rows of a plan leave no gap and no overlap.
* **Purchases**: a purchase races the release, removal, pricing and cancellation
  of what it buys. Every Coin is accounted for, a refund is exact and once; what
  the access decision offers is what the purchases accept.
* **Ingest**: versions overtake each other between the transaction, the queue and
  the worker; attempts stall and outlive their time-out. One version is under
  review, PROCESSING has something that ends it, an outcome stands. A link may
  be redirected or resolve to something else by the time it is fetched.
* **Publishing and review**: every gate is checked on a read and enforced by a
  trigger; two releases of one episode; a label changed under a compliance run; a
  release put off while the scheduler holds it. Nothing unvetted is ever out.
* **Planning, studio, budget**: requests number rows under a lock but decide on
  what they read before it; one link per project, answers race a change of studio;
  two ledgers and two locks, one project.
* **What runs by itself**: at-least-once delivery of a mail, retry after a lost
  answer; overlapping sweeps that notify by counting what they notified.
* **Members and accounts**: one claim per business day, over midnight; rotation
  against sign-out; memory of an instance against a change on another.
* **Reports**: each figure is a query at its own moment.

`PROJECT.json` lists each of these as a hazard at the line where it bites,
with the properties that catch it going wrong; where the code lets it go wrong, the
note names the property of section 6.1 that shows how.

## 2. Modules

| Module | Models | Extended or instantiated by |
|---|---|---|
| `CoinWallet` | wallet, lots, ledger, bonus-expiry sweep | `MCCoinWallet`, `CoinWalletProofs` |
| `TopUpPromise` | what members and gateways are promised: one credit per order, only for a confirmed payment | `TopUp` |
| `TopUp` | orders, payments, webhooks, both sweeps; implements `TopUpPromise` | `MCTopUp`, `TopUpProofs` |
| `Subscription` | plans of members, cycles, the renewal sweep | `MCSubscription`, `SubscriptionProofs` |
| `Purchase` | purchases, refunds, and publishing as far as purchases meet it | `MCPurchase`, `PurchaseProofs` |
| `Delivery` | versions of an episode from delivery to the review | `MCDelivery`, `DeliveryProofs` |
| `ReleaseGate` | what members and the law are promised: only vetted versions are shown | `Release` |
| `Release` | review, label, compliance, price, release, take-down, completion, cancellation; implements `ReleaseGate` | `MCRelease`, `ReleaseProofs` |
| `Project`, `StudioPortal`, `ReviewerBudget`, `Pricing` | planning, the links of the studio, Token budget and fees, price alerts | `MCStudio`; `OfficeProofs` |
| `Sessions`, `AccessControl`, `DailyReward`, `PlanPrice`, `Viewing`, `Gateways`, `BillingReport`, `SafeFetch` | tokens, memory of the guards, check-in, plan prices, access decision, gateway dialects, reports, fetched links | `MCOffice`; `OfficeProofs` |
| `EmailOutbox`, `Alerts` | one mail and its job, the two notifying sweeps | `MCJobs` (with `MCCoinWallet`); the mail in `CoinWalletProofs` |
| `SumTheorems` | what a sum over a finite set of integers is, for the proofs | `CoinWalletProofs`, `PurchaseProofs`, `OfficeProofs` |

An `MC` module defines symmetry sets and the structured constants that a `.cfg`
cannot write. `MCStudio`, `MCOffice` and `MCJobs` also check several components in
one run: each is an `INSTANCE` with variables of its own, the first state chooses
the `part` that works, and the others stand still. Their properties are those of
the parts, said while that part works; nothing is claimed of two parts at once,
since those components share no state.

In every module `Init` is a state the database can be in, each action is named
for what the code does in that step, and constants whose names begin with `Max`
only bound how often something happens (`MaxRedirects`, `MaxBytes` and
`MaxAmount` apart: the first two are limits of the code, the last a bound of
one entry). Definitions that sit just before an operator and differ from it in one
place (`NoUniqueIndex` before `KeyFree`, `ReadyBeside` before `Ready`, ...) are the
mutated forms that `PROJECT.json` names under "mutants"; no action uses them.

### 2.1 CoinWallet

A caller's `spend`, `credit` or correction is `Begin...` (the clock is read and
the idempotency key looked up, `coin-spend.service.ts`, `coin-adjust.service.ts`)
and `Commit...` (wallet locked by `lockWallet`, lots consumed, ledger row
written, one transaction). `Abort` is a roll-back of the caller's transaction.
A commit whose key is taken by then fails on the unique index of
`coin_transactions`, which `KeyFree` states. The sweep is `SweepStart` (reads a
batch), `SweepExpire` once per lot (a transaction each) and `SweepNext` (fetches
again after a full batch); `SweepAbort` is a crash.

`lot.remaining` in the sweep's batch is what was read *before* the lock, as in
`bonus-expiry.sweep.ts`: the model keeps the stale amount, and `wallet_stale`
shows what follows from it.

### 2.2 TopUp and TopUpPromise

`order`, `payment`, `callback` are the rows; `gateway`, `exact`, `sent` the
outside. A webhook request goes `Receive` (inserts or finds the callback row),
`Resolve` (reads order and attempt), then `Decline`, `Mismatch...`, or `Accept`
into `settle`, then `MarkHandled`. `settle` is shared with the reconcile prober:
`SettleReads`, then `SettleCredits`, `SettleReplays`, `SettleMismatch` or
`SettleRefuses`; `SettleBreaks` is a transaction that fails, `Crash` the process.
The expiry sweep is `ExpireQuery`, `ExpireOrders`, `ExpirePayments`, three
statements without a transaction as in `top-up-expiry.sweep.ts`.

`TopUpPromise` has two variables, `confirmed` and `credits`. `TopUp` implements it
with `confirmed` as `ConfirmedFor`: the gateway took a payment, of the exact amount
if it always says one. Neither adapter insists that a confirming answer to a query
says the amount, and the sweep then passes the attempt's own: `AlwaysTells` is a
constant, and `told` what the answer in the prober's hands said. An order that expired
between the two reads of `settle` may still be credited and become PAID; the
promise allows that, and it is what the code's comments want for money that
was taken. Not modelled: the row left by a delivery with a bad signature (it
changes nothing else) and the CANCELLED verdict, which no adapter produces.

### 2.3 Subscription

All plans cost one Coin, so that a purse is a counter and every ledger entry is
one Coin for one cycle. A request reads (`Begin...`), then runs its transaction.
`subscribe` counts the open plans before it creates one; `activate` checks
PENDING on the earlier read. A run of the sweep is `RunStart`, `Read` (the row
is read again), `Renew` / `MarkPastDue` / `RenewFails`, `RunOn` (fetches again
after a full batch), and then the expiring pass. `Duration`, `Window` and `Grace`
are the plan's length, how early a renewal is charged and how long an unpaid
plan lives, in ticks of `clock`.

### 2.4 Purchase

A purchase is `Begin` (replay look-up by key, episode and price read), `Check`
(is it already unlocked) and `Commit` (Coins and access in one transaction);
`CommitReplayed` is a key the wallet already knows, `CommitUnfunded` a wallet
that cannot pay. Publishing appears as what purchases can meet: `Release`,
`SendBack`, `Remove` (with `RefundEpisodeRemoval`), `SetPrice`, `SetSeriesPrice`,
`BeginCancel`/`Cancel`. No service writes `seriesCoinPrice` and nothing calls
`refundSeriesRemoval`: the first is kept as an action because purchases read
the column, the second has none.

### 2.5 Delivery

`submit` and `retry` of `media-ingest.service.ts` are `Begin`, the transaction
(`CreateVersion`, or `CheckLatest` then `Reopen`), then `Enqueue` after it, with
`EnqueueTimesOut` and `FailUnqueued` when the queue does not answer in time. An
attempt of `media-pipeline.service.ts` is `Take`, `Step` per stage, then
`ReadyOrSuperseded` and `BecomesReady`, `Reject`, or `Throw` and `FailAttempt`: an
outcome is two statements, and the gap between them is where versions overtake
each other. `Stall` is a job BullMQ hands out again while the first attempt
still runs, `RequestDies` and `WorkerDies` a process that dies. `background` says
whether there is Redis and never changes; `Deployments` are the values a run
starts from. Without Redis attempts run inline, and `Restart` fails what the
last process cut off.
`Approve` and `RequestChanges` are the review. `REVIEWED` stands for APPROVED and
every status after it, which ingest does not tell apart.

### 2.6 Release and ReleaseGate

A request is `Begin...` (reads the episode) and one decision: `Approve`,
`RequestChanges`, `ApplyLabel`, `RunCompliance`, `SetPrice`, `Schedule`, `Revise`,
`Remove`, `Withdraw`, `Cancel`. Each is a transaction whose guarded updates must
still match; `Abort` is a conflict or any other roll-back. `publish` looks for the
pending release with `findFirst` before anything is locked, and no index keeps a
second one out: `FindPending` is a step of its own, and `Schedule` or `ReleaseNow`
act on what it found, or add the release it did not find. Only `moveEpisode`
compares a status with the one read (`Compared`); `release` reads the episode
again and goes on from whatever status it has. A release is
`StartRelease` and `CommitRelease`: between them it holds the row of the episode
but has read the project and the other episodes without a lock. The scheduler
is `PublishDue` (reads what is due) and `ReleaseDue` once per publication.
`PriceGate` and `GateOpen` are the triggers of the migrations, which look when an
episode row is written. `Deliver` stands for a version that `Delivery` made READY,
`Describe` for the texts a movie must have.

`ReleaseGate` has two variables, the version of each episode that is shown and
the set of vetted versions, and three steps: `Vet` (never takes away the version
that is shown), `Show` (a vetted one, of an episode that was hidden), `Hide`.
`Release` implements it with the approved version of a PUBLISHED episode as what
is shown, and label plus all four checks as what is vetted.

### 2.7 Around a project: Project, StudioPortal, ReviewerBudget, Pricing

* `Project`: additions read the project, lock the row of the movie (`LockAdd`,
  `LockUpload`), take the next number and insert; edits, assignment and the
  hand-off decide on rows read before their transaction.
* `StudioPortal`: `ChangeStudio` revokes the links there are and adds a hand-off;
  `Resend` gives a hand-off a new token; `Respond` and `Deliver` work on the
  hand-off their link resolved to earlier.
* `ReviewerBudget`: two ledgers as their sums. A fee locks the movie and then, unless
  it is a correction, the Reviewer; a balance is read in two statements
  (`ReadGranted`, `ReadAllocated`); an assignment reads the fee before its
  transaction.
* `Pricing`: `SetPrice` settles the alerts there are and raises one when the price is
  outside the range it read; the Admin's `RequestChange` and `Resolve` answer an
  alert read earlier.

### 2.8 Members, accounts and the office

* `Sessions`: `Issue`, `Rotate` (a token that was replaced signs the account out
  everywhere), `RevokeAll` in two steps because its statement only sees rows that
  were committed when it began, `Update`, `Remove`.
* `AccessControl`: per instance an entry about the account, with an end, and the
  permissions, without one; look-ups store after they read, updates forget after
  they write, and only on their own instance. The clock goes on in between (`Tick`):
  an entry lives from when it is stored.
* `DailyReward`: `BeginCheckIn` takes the business day, `ReadToday` and `ReadNewest` are
  the two queries it sends, in either order, `ReadRule` the reward of the streak day,
  `CheckIn` pays and records under two unique indexes. `Midnight`, other check-ins and
  edits of the ladder may come between any two steps, and a key may find any movement
  (`OtherMovement`): the ledger is searched by key alone.
* `PlanPrice`: `BeginSetPrice` reads the row in force, `SetPrice` closes it and opens
  another from a date.
* `Viewing`: `Decide` is the access decision, `EpisodeForSale` and `SeriesForSale` are
  the guards of the two purchase services; the one step of the module asks for
  every combination of facts.
* `Gateways`: one order per behaviour in the units and codes of VNPay or MoMo, from
  the link (`VnpayLink`, `MomoLink`) to a delivery (`Handle`, `BadSignature`,
  `Unreadable`, `Replay`), a query (`VnpayQuery`, `MomoQuery`) and what the member sees.
  A confirming answer says its amount here; one that does not, and how deliveries
  race, are in `TopUp`.
* `BillingReport`: plans are subscribed, paid (`Pay` writes a cycle, `Commit` makes it
  visible), missed and ended while one report reads its figures one by one.
* `SafeFetch`: `AssertPublicUrl`, `Send` (the guarded lookup at the connection),
  `Redirect`, `Answer`, `Chunk`, `MasterPlaylist`; names move between any two steps.

### 2.9 What runs by itself: EmailOutbox, Alerts

`EmailOutbox` follows one message: `Create` with its transaction, `Dispatch` after it
(or `DispatchTimesOut`, `CallerDies`), then the attempts of the workers: `Take`, `Send`,
`Mark`, `Retry`, `GiveUp`. A worker may die between any two steps (`WorkerDies`), or stall:
the queue then hands the job out again while the first attempt goes on to send and to
mark (`Stall`, as in `Delivery`), and nobody asks that attempt how it ended. Without Redis
the call runs the job itself. BullMQ's limit of stalls per job is not modelled. `Alerts` follows the link check (`BeginCheck`, `Probe`, `Count`,
`Report`) or the overdue sweep (`BeginOverdue`, `NextEpisode`, `Flag`).

## 3. Runs

A "pass" run finishes without an error; a "violation" run checks one property
whose counterexample is a finding (section 6).

| Run | Configuration | Expect | Properties | What it shows |
|---|---|---|---|---|
| `wallet_race` | `CoinWallet_race.cfg` | pass | `TypeOK`, `NothingOverdrawn`, `KeyMovesCoinsOnce`, `SpendAsQuoted` | Two callers spend, credit and correct one wallet concurrently, with a key they may share: Coins leave main first, then the lots that run out first, the counters stay backed, and a key moves Coins once. |
| `jobs_live` | `Jobs_live.cfg` | pass | `LedgerExplainsWallet`, `BonusIsBacked`, `OneMail`, `ExpiryIsFinal`, `ExpiredLotCloses`, `JobEnds`, `StaysReported` | What runs by itself gets on: two overlapping bonus-expiry sweeps race a caller (a lot is expired once, the ledger explains the counters, every lot whose time is up is closed in the end), a mail of the outbox is delivered or given up through crashes, and overlapping sweeps that may die report what stays dead or late. |
| `wallet_stale` | `CoinWallet_stale.cfg` | violation | `BonusNeverNegative` | The sweep subtracts the amount it read before it waited for the lock, so a spend in between drives the bonus balance below zero. |
| `topup_race` | `TopUp_race.cfg` | pass | `PaidIffCredited`, `Promised`, `ConfirmedSettles`, `OpenDeliveryFinishes` | Two webhook requests, a reconcile run and an expiry sweep race over one order with a crash or a failed transaction: what is credited and what the rows say never part, an order is credited once and only for a confirmed payment of its amount (refinement of TopUpPromise), a confirmed payment settles, and a delivery whose handler died is finished. |
| `sub_race` | `Subscription_race.cfg` | pass | `EveryCoinPaysOneCycle`, `PlanIsPaidUp` | Two requests of a member, two overlapping sweeps and the Admin race over one subscription: every Coin pays one cycle and the periods follow each other. |
| `sub_live` | `Subscription_live.cfg` | pass | `DueIsDecided`, `RunEnds` | One request and one sweep that works in batches of one over the plans of two members, with a crash, a plan taken off sale and a Coin bought: while the plan is on sale what is due is decided and every run ends. |
| `buy_race` | `Purchase_race.cfg` | pass | `CoinsAccounted`, `RefundedExactly`, `MovementOpensOnce` | Two requests, with keys of their own, one for both or none, buy an episode or its movie while the Reviewer releases, prices, removes and cancels: every Coin is accounted for, refunds are exact, and a movement opens one row of each table. |
| `delivery_race` | `Delivery_race.cfg` | pass | `ProcessingIsHeld`, `VersionUnderReview` | Three requests deliver and review while two workers process and die: an episode in PROCESSING waits for its newest version, and one READY version is under review. |
| `delivery_live` | `Delivery_live.cfg` | pass | `ProcessingEnds` | One request at a time, with stalled attempts, a time-out of the queue and a retry with Redis, or restarts without it: every delivery ends and gives the episode back. |
| `release_race` | `Release_race.cfg` | pass | `NothingUnvettedOut`, `Gated`, `StatusHasItsRelease` | Two requests and the scheduler review, label, check, price, schedule, release, take down and cancel one episode with two deliveries: nothing unvetted is ever out (the abstract gate), a published episode has a live release, and a withdrawn release stays in, though the look-up of the pending release is a step of its own, before anything is locked. |
| `studio_race` | `Studio_race.cfg` | pass | `AlertIsAboutThePrice`, `FeesAreCovered`, `PlanIsKept`, `StudioHasTheLink` | Four components around a project, each with two racing requests: planning and hand-off (Project), the links of the studios (StudioPortal), the Token budget of a Reviewer (ReviewerBudget), and price alerts (Pricing). |
| `office_race` | `Office_race.cfg` | pass | `RewardIsEarned`, `OneLiveToken`, `StaleForTtl`, `Seamless`, `OffersAreTrue`, `PaymentIsTrue`, `FiguresAreTrue`, `FetchIsSafe` | Eight components that requests of members and of the Admin meet, each with racing requests, servers or a passing clock of its own: refresh tokens, the memory of the guards, the daily check-in, the prices of a plan, the access decision, the gateways, the billing reports, the links that are fetched. |

## 4. Fairness

Liveness is only claimed where the code's scheduling gives it.

* **Bonus-expiry sweep** (`jobs_live`): weak fairness of `SweepStart` and `SweepNext`
  (a repeatable job), strong fairness of `SweepExpire` (a lot whose transaction
  failed is met again by every later run, so a run that could close it recurs).
* **EmailOutbox** (`jobs_live`): weak fairness of `Deliver` (BullMQ hands a job out
  again when its worker died or stalled, and a worker that is up goes on) and of `Dispatch`.
  Faults are bounded by `MaxFaults`. A message whose job was never added stays
  QUEUED for good: `JobEnds` speaks of jobs, section 6.1 of messages.
* **Alerts** (`jobs_live`): weak fairness of the steps of each sweep (a repeatable
  job that goes on); a sweep dies `MaxDeaths` times at most.
* **TopUp**: weak fairness of each handler, prober and sweep step (a process that
  does not crash goes on), and of receiving an event while its payment is not
  PAID (gateways redeliver until they are answered). Crashes are bounded by
  `MaxFaults`: the claim is about what recovers after the last one.
* **Subscription**: weak fairness of the second half of a request and of a run.
* **Delivery**: weak fairness of request steps and of attempts.

Nothing is assumed of members or Reviewers: no module has fairness on the start
of a request.

## 5. Bounds

Two of everything that races (callers, requests, sweeps, workers) and one or two
of what they race over. In each module the interesting cases need no more: a
race is between two actors over one row, overtaking needs a third version
(`MaxVersions = 3` and three requests in `delivery_race`), order among lots
needs two expiry dates and two amounts, batching needs a batch smaller than
what is due (`Batch = 1`). Clocks run as far as the longest scenario: two periods
and a grace in `Subscription`, past the later expiry in `CoinWallet`, a streak and
the day it breaks in `DailyReward` (`MaxDay = 3`, a ladder of 2). Faults are
bounded to one or two, because the claims are about the state a fault leaves
behind. Where the code has a number the runs take a smaller one: 1 redirect
for 5, a ladder of 2 for 7, 2 attempts for 3 in
`Delivery`, 3 for 5 in `EmailOutbox`. `release_race` has one
episode with two versions, two requests, two releases: what two episodes share is
the completion of the project, which section 6.1 needs two for; `ReleaseProofs`
proves its properties for any number. `office_race` and `studio_race` have the
bounds of every part in one file; parts share a constant only where the same
number suits them. Every bound is a guard of the action it limits, and a mutant
per property shows that the bound lets the case happen.

Deadlock is not checked in the bounded models, since they stop when the bounds
are used up; it is checked in `Purchase`, where prices and plans go on changing.

Some properties hold only without a behaviour that section 6 shows to break
them. The runs leave that behaviour out, and their bounds say so:

* `NoEarlyCharge` is not claimed by a run: two sweeps charge a period early
  (`Subscription_early.cfg`), and so does one when a resume overlaps a renewal
  (section 6.1). Nothing in the code prevents either.
  `DueIsDecided` and `RunEnds` speak of a plan that stays on sale.
* `topup_race` has a gateway that never confirms what it declined
  (`TopUp_decline.cfg`) and that says the amount whenever it confirms a payment
  (`AlwaysTells`): of an answer without one the sweep takes the attempt's amount, so
  an order is credited that a webhook then fails for its amount (section 6.1).
* `ConfirmedSettles` excuses a payment whose delivery was recorded as handled: a
  transaction of `settle` that fails is such a case (`HandledIsDone`, section 6.1).
* `CoinsAccounted` leaves out a member whose one key bought an episode and a
  bundle (`EveryAccessPaid`, section 6.1).
* `delivery_race` has no stray attempt (`MaxStrays = 0`) and no retry. With a
  time-out of the queue the failure is written over READY (`ReadyStands`) and the
  episode is under review with nothing to review; a retry may reopen an older
  version (`NewestIsRetried`), which then ends SUPERSEDED beside a newer READY
  one. `delivery_live` has both, and claims less. It has no request that dies
  with Redis (`MaxCrashes = 0`): then nothing ends the delivery
  (`Delivery_lost.cfg`).
* `StatusHasItsRelease` says that an episode that is out has a live release, not
  that a live release has its episode out, nor that there is one
  (`LiveIsOut`, `OneLive`, section 6.1). Nor does it speak of releases that wait: two
  requests to publish leave one behind an episode that is out, or two of a scheduled
  one (`PendingIsScheduled`, `ScheduledHasOne`, section 6.1). What the guarded updates do
  keep is its last part, `WithdrawnStaysIn`.
* `RewardIsEarned` is about rewards that were paid: each has its check-in, its streak and
  a rule that offered it. A check-in whose key finds another movement pays nothing
  (`EveryCheckInPays`), and one may miss the check-in of yesterday (`AnnouncedIsPaid`).
* `StaysReported` says what is dead or late is reported, `StaleForTtl` for how long an
  instance may remember what has changed, the time of its look-up included (without it
  `StaleWithinTtl` of section 6.1 is refuted), `OneLiveToken` what a session may keep;
  that things are reported once, forgotten at once and signed out everywhere
  is what section 6.1 refutes.

## 6. Findings

The first is a run that must fail; the others are configurations of section 6.1.
Each checks what a comment, a test or the schema of the repository says. The
counterexample of TLC is a sequence of steps of the modelled code.

| Run | Where | What |
|---|---|---|
| `wallet_stale` | `src/modules/episode-access/coin-wallet/bonus-expiry.sweep.ts:72` | expire closes the lot under the lock but subtracts lot.remainingAmount as the batch query read it before the lock (bonus-expiry.sweep.ts:41-46, 71-73). A spend that began before the lot ran out and commits in between takes Coins from the lot, so they leave the wallet twice and the bonus balance can go below zero; src/modules/episode-access/coin-wallet/lot-usage.ts:11 says: Serialises the writers of one wallet, so "main before bonus" and "never negative" hold. |

### 6.1 Further disagreements

TLC ends each of these with a counterexample. Where a `.cfg` is named it is in this
directory; for the others, write the specification, the constants and the
property given here into a `.cfg` (constants that stand for themselves, as
`Idle = Idle`, are left out here, and so are `SYMMETRY Symmetry` and
`CHECK_DEADLOCK FALSE`) and run it with the module named. `OwnPlan` and `OneSplit`
of `BillingReport` are the definitions `[s \in Subs |-> s]` and
`{[main |-> 1, bonus |-> 1]}` in a module that extends it.

* **`CreditedOrderIsPaid`** (invariant of `MCTopUp`, `src/modules/episode-access/coin-topup/topup-settlement.service.ts:123`). markPaymentFailed writes FAILED over whatever status the rows have. handleCallback decides to call it from rows it read earlier (coin-topup.service.ts:156, 193-198), so when an attempt is declined and then paid, the decline can land after the settlement: the wallet is credited and the order reads FAILED. src/modules/episode-access/coin-topup/topup-settlement.service.ts:12 says: Everything runs inside transactions so the ledger, the attempt and the order never drift apart.
  `TopUp_decline.cfg`.
* **`CreditedOrderIsPaid`** (invariant of `MCTopUp`, `src/modules/episode-access/coin-topup/payment-reconcile.sweep.ts:68`). when the gateway confirms a payment without an amount, which both adapters accept (gateways/payment-gateway.service.ts:156, 266-270), the sweep settles with the amount of the attempt itself, so the comparison in settle cannot fail. If another sum was taken, a webhook that read the attempt before and says the sum then writes FAILED over the credited order; src/modules/episode-access/coin-topup/topup-settlement.service.ts:12 says: Everything runs inside transactions so the ledger, the attempt and the order never drift apart.
  With `Spec` and `Orders = {o1}`, `Handlers = {h1}`, `Probers = {p1}`, `Sweepers = {}`, `Batch = 1`, `RetryAfterDecline = FALSE`, `AlwaysTells = FALSE`, `MaxFaults = 0`.
* **`HandledIsDone`** (invariant of `MCTopUp`, `src/modules/episode-access/coin-topup/coin-topup.service.ts:246`). whatever error settle throws, a lost connection as well, the delivery gets its handledAt before the error is passed on. A repeat is then answered from the row (line 155) and the reconcile sweep leaves the attempt out (payment-reconcile.sweep.ts:49), so the member paid and nothing credits the order; src/modules/episode-access/coin-topup/coin-topup.service.ts:128 says: A delivery for an attempt already PAID answers the order as well, so the gateway may retry freely.
  With `Spec` and `Orders = {o1}`, `Handlers = {h1}`, `Probers = {}`, `Sweepers = {}`, `Batch = 1`, `RetryAfterDecline = FALSE`, `AlwaysTells = TRUE`, `MaxFaults = 1`.
* **`MismatchFailsOrder`** (invariant of `MCTopUp`, `src/modules/episode-access/coin-topup/topup-settlement.service.ts:63`). settle writes FAILED to the attempt and the order and then throws inside its own $transaction callback, so both writes are rolled back and the order stays PENDING when the reconcile sweep is the caller; src/modules/episode-access/coin-topup/topup-settlement.service.spec.ts:98 says: fails the attempt and the order when the gateway reports another amount.
  With `Spec` and `Orders = {o1}`, `Handlers = {}`, `Probers = {p1}`, `Sweepers = {}`, `Batch = 1`, `RetryAfterDecline = FALSE`, `AlwaysTells = TRUE`, `MaxFaults = 0`.
* **`AttemptsDieWithOrder`** (property of `MCTopUp`, `src/modules/episode-access/coin-topup/top-up-expiry.sweep.ts:47`). the orders and their attempts are expired by two updates outside any transaction, and a later run only looks at PENDING orders (line 36), so a crash in between leaves the attempt PENDING for good and the reconcile sweep asks about it for ever; src/modules/episode-access/coin-topup/top-up-expiry.sweep.ts:12 says: The order's payment attempts die with it, so a late gateway answer finds nothing payable.
  With `FairSpec` and `Orders = {o1}`, `Handlers = {}`, `Probers = {p1}`, `Sweepers = {s1}`, `Batch = 1`, `RetryAfterDecline = FALSE`, `AlwaysTells = TRUE`, `MaxFaults = 1`.
* **`LeftForNextRun`** (invariant of `MCTopUp`, `src/modules/episode-access/coin-topup/payment-reconcile.sweep.ts:97`). after a full batch the loop queries again, and attempts the gateway was uncertain about are still PENDING and the oldest, so the same run asks about them again, without end while the batch stays uncertain, and never reaches younger attempts; src/modules/episode-access/coin-topup/payment-reconcile.sweep.ts:17 says: Anything uncertain is left alone for the next run.
  With `Spec` and `Orders = {o1}`, `Handlers = {}`, `Probers = {p1}`, `Sweepers = {}`, `Batch = 1`, `RetryAfterDecline = FALSE`, `AlwaysTells = TRUE`, `MaxFaults = 0`.
* **`NoEarlyCharge`** (invariant of `MCSubscription`, `src/modules/episode-access/subscription/subscription-renewal.service.ts:56`). renew reads the row again but only checks ACTIVE and autoRenew, not nextRenewalAt, so a second run that fetched the subscription before the first renewed it charges the following cycle at once; prisma/schema/subscription.prisma:19 says: asks for Coins at nextRenewalAt
  `Subscription_early.cfg`.
* **`NoEarlyCharge`** (invariant of `MCSubscription`, `src/modules/episode-access/subscription/subscription.service.ts:290`). resumeAutoRenew writes nextRenewalAt from the row it read, unguarded, so a renewal that commits in between leaves the plan due at the end of the period before, and the next sweep charges the following cycle a period early; prisma/schema/subscription.prisma:19 says: asks for Coins at nextRenewalAt
  With `Spec` and `Subs = {s1}`, `Members = {m1}`, `Owner <- OneOwner`, `Requests = {r1}`, `Sweepers = {w1}`, `Keys = {}`, `Duration = 2`, `Window = 1`, `Grace = 2`, `Batch = 2`, `MaxSwitches = 0`, `AdminCancels = FALSE`, `Coins = 3`, `MaxTopUps = 0`, `MaxTime = 4`, `MaxFaults = 0`.
* **`OneOpenPlan`** (invariant of `MCSubscription`, `src/modules/episode-access/subscription/subscription.service.ts:366`). subscribe counts open plans and then creates one, with no lock and no unique index, so two requests both pass the count; prisma/schema/subscription.prisma:17 says: a member has at most one open subscription
  With `Spec` and `Subs = {s1, s2}`, `Members = {m1}`, `Owner <- OneOwner`, `Requests = {r1, r2}`, `Sweepers = {w1}`, `Keys = {}`, `Duration = 2`, `Window = 1`, `Grace = 2`, `Batch = 2`, `MaxSwitches = 0`, `AdminCancels = FALSE`, `Coins = 1`, `MaxTopUps = 0`, `MaxTime = 2`, `MaxFaults = 0`.
* **`EndedStaysEnded`** (invariant of `MCSubscription`, `src/modules/episode-access/subscription/subscription.service.ts:151`). activate checks PENDING on a row read before its transaction and then writes ACTIVE unguarded (renew does the same at subscription-renewal.service.ts:100), so a plan the Admin cancelled in between runs again; src/modules/episode-access/subscription/subscription.service.ts:315 says: Admin override: the plan ends now, whoever asked for it.
  With `Spec` and `Subs = {s1}`, `Members = {m1}`, `Owner <- OneOwner`, `Requests = {r1}`, `Sweepers = {w1}`, `Keys = {}`, `Duration = 2`, `Window = 1`, `Grace = 2`, `Batch = 2`, `MaxSwitches = 0`, `AdminCancels = TRUE`, `Coins = 1`, `MaxTopUps = 0`, `MaxTime = 2`, `MaxFaults = 0`.
* **`StoppedPlanEnds`** (property of `MCSubscription`, `src/modules/episode-access/subscription/subscription-renewal.sweep.ts:38`). neither pass of the sweep looks at an ACTIVE plan with autoRenew = false, so it stays ACTIVE, and grants access, after its period; src/modules/episode-access/subscription/subscription.service.ts:243 says: Access runs on to the end of the paid period either way
  With `FairSpec` and `Subs = {s1}`, `Members = {m1}`, `Owner <- OneOwner`, `Requests = {r1}`, `Sweepers = {w1}`, `Keys = {}`, `Duration = 2`, `Window = 1`, `Grace = 2`, `Batch = 2`, `MaxSwitches = 0`, `AdminCancels = FALSE`, `Coins = 1`, `MaxTopUps = 0`, `MaxTime = 4`, `MaxFaults = 0`.
* **`UnpaidPlanEnds`** (property of `MCSubscription`, `src/modules/episode-access/subscription/subscription.service.ts:261`). cancelAutoRenew of a PAST_DUE plan empties nextRenewalAt, and the pass that expires selects on nextRenewalAt <= now (subscription-renewal.sweep.ts:53), so the plan is never ended; src/modules/episode-access/subscription/subscription-renewal.sweep.ts:12 says: every plan still unpaid after its grace period ends
  With `FairSpec` and `Subs = {s1}`, `Members = {m1}`, `Owner <- OneOwner`, `Requests = {r1}`, `Sweepers = {w1}`, `Keys = {}`, `Duration = 2`, `Window = 1`, `Grace = 2`, `Batch = 2`, `MaxSwitches = 0`, `AdminCancels = FALSE`, `Coins = 1`, `MaxTopUps = 0`, `MaxTime = 4`, `MaxFaults = 0`.
* **`RetriedBeforeExpiring`** (property of `MCSubscription`, `src/modules/episode-access/subscription/subscription-renewal.sweep.ts:53`). a PAST_DUE plan is only ever picked by the pass that expires it; no pass charges it again, even when the member has Coins; src/modules/episode-access/subscription/subscription-renewal.service.ts:191 says: nextRenewalAt becomes the retry moment, so the sweeper tries again until the
  With `Spec` and `Subs = {s1}`, `Members = {m1}`, `Owner <- OneOwner`, `Requests = {r1}`, `Sweepers = {w1}`, `Keys = {}`, `Duration = 2`, `Window = 1`, `Grace = 2`, `Batch = 2`, `MaxSwitches = 0`, `AdminCancels = FALSE`, `Coins = 1`, `MaxTopUps = 1`, `MaxTime = 4`, `MaxFaults = 0`.
* **`NothingBoughtTwice`** (invariant of `MCPurchase`, `src/modules/episode-access/episode-purchase/episode-purchase.service.ts:137`). assertNotOwned counts rows inside the transaction but before the wallet is locked, and no unique index covers (user, episode) or (user, movie), so two requests both count nothing and both pay, the episode twice or the episode and its bundle; src/modules/episode-access/episode-purchase/episode-purchase.service.ts:134 says: Anything that already opens the episode: a plan, the episode itself, or the whole series.
  `Purchase_twice.cfg`.
* **`NobodyPaidForGone`** (invariant of `MCPurchase`, `src/modules/episode-access/episode-purchase/episode-purchase.service.ts:34`). the status of the episode is read before the transaction and not again, so a purchase may commit after a removal has refunded the buyers it found; src/modules/episode-access/entitlement/entitlement.service.ts:50 says: for good is paid back, so nobody is left having paid for something that is gone.
  `Purchase_gone.cfg`.
* **`CancelledBundleRefunded`** (invariant of `MCPurchase`, `src/modules/episode-access/entitlement/entitlement.service.ts:112`). refundSeriesRemoval has no caller: no take-down and no cancellation pays a bundle back; src/modules/episode-access/entitlement/entitlement.service.ts:111 says: The same for a movie taken down for good: the bundle every member bought is paid back.
  With `Spec` and `Members = {m1}`, `Episodes = {e1}`, `Movies = {v1}`, `MovieOf <- OneMovie`, `FreeStarters = {}`, `Keys = {k1, k2, k3}`, `KeysOf <- KeysByTable`, `Requests = {r1, r2}`, `Prices = {1}`, `RefundOnRemoval = TRUE`, `Funds = 2`, `MaxSales = 2`.
* **`CancelledNeverReleased`** (invariant of `MCPurchase`, `src/modules/production/movie-project/project-lifecycle.service.ts:92`). cancel counts releases before its transaction and then only guards on the status of the movie, which a first release of several episodes does not change; src/modules/production/movie-project/project-lifecycle.service.ts:86 says: BR-39: cancel while no episode was ever published
  With `Spec` and `Members = {m1}`, `Episodes = {e1, e2}`, `Movies = {v1}`, `MovieOf <- OneMovie`, `FreeStarters = {}`, `Keys = {k1, k2, k3}`, `KeysOf <- KeysByTable`, `Requests = {r1, r2}`, `Prices = {1}`, `RefundOnRemoval = TRUE`, `Funds = 2`, `MaxSales = 1`.
* **`EveryAccessPaid`** (invariant of `MCPurchase`, `src/modules/episode-access/coin-wallet/coin-spend.service.ts:24`). spend looks the idempotency key up among the movements of every wallet and kind and answers the movement it finds, while each purchase only recognises its own table as a replay; a key used for an episode and then for a bundle opens both with one payment; src/modules/episode-access/episode-purchase/episode-purchase.service.ts:17 says: (main before bonus) and the entitlement row is written in the same transaction, so a
  With `Spec` and `Members = {m1, m2}`, `Episodes = {e1}`, `Movies = {v1}`, `MovieOf <- OneMovie`, `FreeStarters = {}`, `Keys = {k1, k2, k3}`, `KeysOf <- SharedKeys`, `Requests = {r1, r2}`, `Prices = {1}`, `RefundOnRemoval = TRUE`, `Funds = 2`, `MaxSales = 2`.
* **`FailedStands`** (property of `MCDelivery`, `src/modules/production/media-ingest/pipeline/media-pipeline.service.ts:150`). step writes its status without looking at the one it replaces, so an attempt brings a FAILED version back and it becomes READY; src/modules/production/media-ingest/pipeline/media-outcome.service.ts:49 says: A stalled attempt may finish after the delivery was already failed: that outcome stands.
  With `Spec` and `Requests = {r1, r2}`, `Operations = {"submit", "retry", "approve", "changes"}`, `Workers = {w1, w2}`, `Deployments = {TRUE}`, `Attempts = 2`, `MaxVersions = 2`, `MaxRetries = 0`, `MaxStrays = 1`, `MaxCrashes = 0`, `MaxRestarts = 0`.
* **`ReadyStands`** (property of `MCDelivery`, `src/modules/production/media-ingest/pipeline/media-outcome.service.ts:99`). fail checks DONE on a row it read and updates the version by id alone, so it marks a version FAILED that became READY in between; src/modules/production/media-ingest/pipeline/media-outcome.service.ts:10 says: Ingest states a delivery no longer leaves.
  With `Spec` and `Requests = {r1, r2}`, `Operations = {"submit", "retry", "approve", "changes"}`, `Workers = {w1, w2}`, `Deployments = {TRUE}`, `Attempts = 2`, `MaxVersions = 2`, `MaxRetries = 0`, `MaxStrays = 1`, `MaxCrashes = 0`, `MaxRestarts = 0`.
* **`ReadyReachesReview`** (invariant of `MCDelivery`, `src/modules/production/media-ingest/pipeline/media-pipeline.service.ts:150`). after a time-out of the queue the delivery is failed and the episode given back, but the job runs; its version becomes READY while the episode is AWAITING_MEDIA and ready moves only an episode in PROCESSING (media-outcome.service.ts:59); src/modules/production/media-ingest/pipeline/media-outcome.service.ts:25 says: READY sends the episode to review
  With `Spec` and `Requests = {r1, r2}`, `Operations = {"submit", "retry", "approve", "changes"}`, `Workers = {w1, w2}`, `Deployments = {TRUE}`, `Attempts = 2`, `MaxVersions = 2`, `MaxRetries = 0`, `MaxStrays = 1`, `MaxCrashes = 0`, `MaxRestarts = 0`.
* **`ApprovedIsReady`** (property of `MCDelivery`, `src/modules/production/content-review/content-review.service.ts:154`). approve guards that the episode is IN_REVIEW but not that the version it read is still READY, so a version superseded meanwhile is approved; src/modules/production/content-review/content-review.service.ts:141 says: Throws unless `asset` is the version the episode is being reviewed with
  `Delivery_approve.cfg`.
* **`SentBackForItsVersion`** (property of `MCDelivery`, `src/modules/production/content-review/content-review.service.ts:71`). requestChanges takes any episode IN_REVIEW, whichever version the request read, so a newer READY version is sent back with comments on an older one; src/modules/production/content-review/content-review.service.ts:61 says: Sends the version back: the episode waits for a new delivery
  With `Spec` and `Requests = {r1, r2}`, `Operations = {"submit", "retry", "approve", "changes"}`, `Workers = {w1, w2}`, `Deployments = {TRUE}`, `Attempts = 2`, `MaxVersions = 2`, `MaxRetries = 0`, `MaxStrays = 0`, `MaxCrashes = 0`, `MaxRestarts = 0`.
* **`NewestIsRetried`** (property of `MCDelivery`, `src/modules/production/media-ingest/media-ingest.service.ts:159`). retry looks for a newer version before it locks the episode, so one delivered in between is missed; src/modules/production/media-ingest/media-ingest.service.ts:149 says: Runs a failed delivery again, e.g. once the studio fixed its link; only the latest version.
  With `Spec` and `Requests = {r1, r2}`, `Operations = {"submit", "retry", "approve", "changes"}`, `Workers = {w1, w2}`, `Deployments = {TRUE}`, `Attempts = 2`, `MaxVersions = 2`, `MaxRetries = 1`, `MaxStrays = 0`, `MaxCrashes = 0`, `MaxRestarts = 0`.
* **`ProcessingEnds`** (property of `MCDelivery`, `src/modules/production/media-ingest/media-ingest.service.ts:97`). the job is queued after the transaction that put the episode in PROCESSING; when the process dies in between nothing ends it, because the start-up check is skipped with Redis (media-pipeline.service.ts:61); src/modules/production/media-ingest/pipeline/media-pipeline.service.ts:58 says: With Redis, BullMQ picks stalled jobs up again by itself.
  `Delivery_lost.cfg`.
* **`ChangesAreShown`** (invariant of `MCDelivery`, `src/modules/production/studio-portal/studio-portal.service.ts:131`). the portal looks for the changes on the newest version only; when a replacement FAILED, the version before it is under review again and may be sent back, and the comments on it are not shown; src/modules/production/studio-portal/studio-portal.service.ts:52 says: brief, take or decline the project, deliver episodes with its own AI Disclosure and read the
  With `Spec` and `Requests = {r1}`, `Operations = {"submit", "changes"}`, `Workers = {w1}`, `Deployments = {TRUE}`, `Attempts = 1`, `MaxVersions = 2`, `MaxRetries = 0`, `MaxStrays = 0`, `MaxCrashes = 0`, `MaxRestarts = 0`.
* **`LiveIsOut`** (invariant of `MCRelease`, `src/modules/production/content-review/content-review.service.ts:72`). requestChanges takes an episode that is already PUBLISHED, so a review that read it before the release sends it back while its release stays live, and in a COMPLETED project nobody can deliver again; src/modules/production/content-review/content-review.service.ts:24 says: Until it is scheduled, a reviewed episode can still be sent back to the studio.
  With `Spec` and `Episodes = {e1}`, `Requests = {r1, r2}`, `Scheduler = scheduler`, `Commitments = {TRUE}`, `Answers <- TwoAnswers`, `MaxVersions = 1`, `MaxReleases = 2`, `MaxFailures = 0`.
* **`PendingIsScheduled`** (invariant of `MCRelease`, `src/modules/production/publishing/publication.service.ts:77`). the pending release is looked for before anything is locked, and no index keeps a second one out, so a release created in between waits beside an episode that is PUBLISHED already; src/modules/production/publishing/publication.service.ts:257 says: The scheduled release of an episode not out yet, if any.
  With `Spec` and `Episodes = {e1}`, `Requests = {r1, r2}`, `Scheduler = scheduler`, `Commitments = {TRUE}`, `Answers <- TwoAnswers`, `MaxVersions = 1`, `MaxReleases = 2`, `MaxFailures = 0`.
* **`ScheduledHasOne`** (invariant of `MCRelease`, `src/modules/production/publishing/publication.service.ts:77`). two requests to schedule that find none pending each create one; the second moves the row from SCHEDULED to SCHEDULED if it read it after the first committed; src/modules/production/publishing/publication.service.ts:257 says: The scheduled release of an episode not out yet, if any.
  With `Spec` and `Episodes = {e1}`, `Requests = {r1, r2}`, `Scheduler = scheduler`, `Commitments = {TRUE}`, `Answers <- TwoAnswers`, `MaxVersions = 1`, `MaxReleases = 2`, `MaxFailures = 0`.
* **`OneLive`** (invariant of `MCRelease`, `src/modules/production/publishing/publication.service.ts:66`). the status is checked before the transaction and release moves the episode from whatever status it finds, so a request that read COMPLIANCE_PASSED releases a PUBLISHED episode again; src/modules/production/publishing/publication.service.ts:32 says: Releasable: checked and never released, taken down earlier, or already scheduled (reschedule).
  `Release_twice.cfg`.
* **`NothingEarly`** (property of `MCRelease`, `src/modules/production/publishing/publication.service.ts:213`). release checks that the publication is still pending but not that it is still due, so one that was rescheduled after the batch was read goes out early; src/modules/production/publishing/publication.service.ts:172 says: Step 14 for scheduled releases that are due; returns how many went out.
  With `Spec` and `Episodes = {e1}`, `Requests = {r1, r2}`, `Scheduler = scheduler`, `Commitments = {TRUE}`, `Answers <- TwoAnswers`, `MaxVersions = 1`, `MaxReleases = 2`, `MaxFailures = 0`.
* **`DescribedWhenReleased`** (property of `MCRelease`, `src/modules/production/publishing/publication.service.ts:210`). the texts are checked when the release is scheduled, not when it goes out, and update accepts an empty synopsis; src/modules/production/movie-project/dto/update-movie-project.request.dto.ts:49 says: Catalog synopsis, required before the first episode is published.
  With `Spec` and `Episodes = {e1}`, `Requests = {r1, r2}`, `Scheduler = scheduler`, `Commitments = {TRUE}`, `Answers <- TwoAnswers`, `MaxVersions = 1`, `MaxReleases = 2`, `MaxFailures = 0`.
* **`AllOutCompletes`** (invariant of `MCRelease`, `src/modules/production/movie-project/project-lifecycle.service.ts:152`). two releases that commit together each count the other episode as pending; src/modules/production/movie-project/project-lifecycle.service.ts:147 says: Step 16: the project is COMPLETED once every episode is out (BR-38)
  With `Spec` and `Episodes = {e1, e2}`, `Requests = {r1, r2}`, `Scheduler = scheduler`, `Commitments = {TRUE}`, `Answers <- TwoAnswers`, `MaxVersions = 1`, `MaxReleases = 2`, `MaxFailures = 0`.
* **`NeverBack`** (property of `Project`, `src/modules/production/movie-project/project-lifecycle.service.ts:56`). assignCreator writes back the status it read before its transaction, and the guarded update takes any open project, so one that was handed off meanwhile becomes ASSIGNED again; src/modules/production/movie-project/project-lifecycle.service.ts:30 says: assign the Creator once the project is complete and funded (BR-12); also reassigns later.
  With `Spec` and `Requests = {r1, r2}`, `MaxDay = 2`, `MaxRows = 2`.
* **`OneDeadline`** (invariant of `Project`, `src/modules/production/studio-handoff/studio-handoff.service.ts:43`). the hand-off writes due dates it read before its transaction, and an episode edited in between keeps its new milestone; src/modules/production/movie-project/structure/project-structure.service.ts:65 says: Once handed off the studio is due that day too: one deadline per episode (BR-38).
  With `Spec` and `Requests = {r1, r2}`, `MaxDay = 2`, `MaxRows = 2`.
* **`NoneLeftBehind`** (invariant of `Project`, `src/modules/production/movie-project/structure/project-structure.service.ts:34`). the status of a new episode comes from the project as it was read before the lock, and the hand-off writes only the episodes it read, so an episode added meanwhile stays a DRAFT of a project in production; src/modules/production/project-access/project-rules.ts:38 says: New episodes start waiting for the studio once the project was handed off.
  With `Spec` and `Requests = {r1, r2}`, `MaxDay = 2`, `MaxRows = 2`.
* **`OneLink`** (invariant of `StudioPortal`, `src/modules/production/studio-handoff/studio-handoff.service.ts:75`). resendPortalLink gives a fresh link, and clears portalRevokedAt, on the hand-off it read before its transaction, which another hand-off may have replaced; src/modules/production/studio-handoff/studio-handoff.service.ts:145 says: One studio at a time: the previous studio's link stops working with this hand-off.
  With `Spec` and `Requests = {r1, r2}`, `MaxHandoffs = 3`, `MaxTokens = 4`, `MaxDeliveries = 2`.
* **`DeliveredByCurrent`** (property of `StudioPortal`, `src/modules/production/studio-portal/studio-portal.service.ts:198`). the link is resolved before the file is stored and the version written, and neither is looked at again; src/modules/production/studio-portal/studio-portal.service.ts:53 says: The link is the only credential; it dies when the studio is changed.
  With `Spec` and `Requests = {r1, r2}`, `MaxHandoffs = 3`, `MaxTokens = 4`, `MaxDeliveries = 2`.
* **`EveryMessageSettles`** (property of `EmailOutbox`, `src/modules/platform/email/email-outbox.service.ts:85`). the job is added after the transaction of the message, and nothing adds it again when the process dies or Redis does not answer in between: no start-up and no sweep looks for QUEUED rows; src/modules/platform/email/email-outbox.service.ts:37 says: The message is written with the change that causes it, then delivered by a background job with retries.
  With `Spec` and `Workers = {m1, m2}`, `Attempts = 3`, `MaxFaults = 2`.
* **`SignedOutEverywhere`** (property of `Sessions`, `src/modules/identity/auth/session-token.service.ts:86`). revokeAll revokes the tokens committed when its statement begins, and a rotation that read its token before inserts the next one after; src/modules/identity/user/user.service.ts:76 says: A locked account, a new role or a new password must not keep the sessions issued before.
  With `Spec` and `Requests = {r1, r2}`, `MaxTokens = 3`, `MaxChanges = 1`.
* **`AppliesAtOnce`** (invariant of `AccessControl`, `src/modules/identity/access-control/access-control.service.ts:45`). a lookup that read the account before the update stores it after forgetAccount cleared the entry (and permissionsOf keeps what it read for good); src/modules/identity/access-control/access-control.service.ts:12 says: on this instance it applies at once because the Admin's update clears the cache.
  With `Spec` and `Instances = {i1}`, `Requests = {r1, r2}`, `Ttl = 2`, `MaxTime = 3`, `MaxChanges = 2`.
* **`StaleWithinTtl`** (invariant of `AccessControl`, `src/modules/identity/access-control/access-control.service.ts:45`). the end of an entry is set when it is stored, after the awaited read, so another instance goes on for the delay and for as long as its look-up took; src/modules/identity/access-control/access-control.service.ts:11 says: A role change or deactivation reaches other server instances within this delay.
  With `Spec` and `Instances = {i1, i2}`, `Requests = {r1, r2}`, `Ttl = 1`, `MaxTime = 3`, `MaxChanges = 2`.
* **`OneRuleADay`** (invariant of `DailyReward`, `src/modules/episode-access/daily-reward/reward-rule-admin.service.ts:36`). create only refuses a code that is taken, and update sets any streakDay and isActive, so two active rules of a day can stand; prisma/schema/reward_rule.prisma:2 says: Exactly one row per streak day is in force at a time.
  With `Spec` and `Requests = {r1, r2}`, `Keys = {k1}`, `NoKey = none`, `Ladder = 2`, `MaxDay = 3`, `MaxRules = 2`, `MaxOffers = 2`, `MaxEntries = 3`.
* **`PaidAsBonus`** (invariant of `DailyReward`, `src/modules/episode-access/daily-reward/daily-reward.service.ts:125`). rule.coins is credited as mainAmount; src/modules/episode-access/daily-reward/daily-reward.service.ts:43 says: the Coins are bonus Coins so they run out with their lot.
  With `Spec` and `Requests = {r1, r2}`, `Keys = {k1}`, `NoKey = none`, `Ladder = 2`, `MaxDay = 3`, `MaxRules = 2`, `MaxOffers = 2`, `MaxEntries = 3`.
* **`EveryCheckInPays`** (invariant of `DailyReward`, `src/modules/episode-access/coin-wallet/coin-spend.service.ts:81`). credit answers any movement its key was recorded under, of whatever kind, so a check-in with the key of a purchase or a top-up is stored on that movement, is granted the negative of what it moved, and pays nothing that day; src/modules/episode-access/daily-reward/daily-reward.service.ts:93 says: Pays today's reward, and prisma/schema/daily_check_in.prisma:16: The ledger entry that credited the Coins.
  With `Spec` and `Requests = {r1, r2}`, `Keys = {k1}`, `NoKey = none`, `Ladder = 2`, `MaxDay = 3`, `MaxRules = 1`, `MaxOffers = 2`, `MaxEntries = 2`.
* **`AnnouncedIsPaid`** (property of `DailyReward`, `src/modules/episode-access/daily-reward/daily-reward.service.ts:105`). the streak is worked out from reads before the transaction and not again in it, so a check-in of the day before that commits in between is missed; src/modules/episode-access/daily-reward/daily-reward.service.ts:179 says: The streak number a check-in today would carry: yesterday's plus one, or 1 after a gap.
  With `Spec` and `Requests = {r1, r2}`, `Keys = {k1}`, `NoKey = none`, `Ladder = 2`, `MaxDay = 3`, `MaxRules = 1`, `MaxOffers = 2`, `MaxEntries = 2`.
* **`StaysPurchasable`** (property of `PlanPrice`, `src/modules/episode-access/membership-plan/membership-plan.service.ts:161`). the row in force gets an effectiveTo as soon as a later price is set, and currentPrice only reads rows without one, so a plan has no price until the new one begins; src/modules/episode-access/membership-plan/membership-plan.service.ts:142 says: Closes the price in force and opens a new one from `effectiveFrom`. Renewals after that moment use the new price.
  With `Spec` and `Requests = {r1, r2}`, `Prices = {1, 2}`, `MaxTime = 2`, `MaxRows = 3`.
* **`OneInForce`** (invariant of `PlanPrice`, `src/modules/episode-access/membership-plan/membership-plan.service.ts:154`). two calls read the same current row before either closes it, and both insert theirs; src/modules/episode-access/membership-plan/membership-plan.service.ts:37 says: the row in force is closed and a new one opens.
  With `Spec` and `Requests = {r1, r2}`, `Prices = {1, 2}`, `MaxTime = 2`, `MaxRows = 3`.
* **`ShownIsCharged`** (invariant of `PlanPrice`, `src/modules/episode-access/membership-plan/membership-plan.service.ts:11`). PRICE_IN_FORCE does not compare effectiveFrom with the clock, so a screen shows a price that has not begun; src/modules/episode-access/membership-plan/membership-plan.service.ts:9 says: The plan screen reads the price in force.
  With `Spec` and `Requests = {r1, r2}`, `Prices = {1, 2}`, `MaxTime = 2`, `MaxRows = 3`.
* **`NextIsAccepted`** (invariant of `Viewing`, `src/modules/episode-access/access-decision/access-decision.service.ts:144`). the bundle is the next action whenever it costs no more than the episode, and SeriesPurchaseService refuses a member who owns another episode of the movie (series-purchase.service.ts:134); src/modules/episode-access/access-decision/access-decision.service.ts:24 says: may this caller watch this episode, and if not, what is left to do.
  With `Spec` and `Prices = {0, 1, 2}`, `NoPrice = 99`, `Coins = {0, 1, 2}`.
* **`CheapestFirst`** (invariant of `Viewing`, `src/modules/episode-access/access-decision/access-decision.service.ts:121`). the methods are pushed in a fixed order: plan, episode, series; src/modules/episode-access/access-decision/access-decision.service.ts:111 says: list what is left, cheapest way first.
  With `Spec` and `Prices = {0, 1, 2}`, `NoPrice = 99`, `Coins = {0, 1, 2}`.
* **`EveryDialectIsRead`** (invariant of `Gateways`, `src/modules/episode-access/coin-topup/utils/payment-callback.util.ts:47`). textOf drops a transId that is a JSON number, which is what MoMo sends (the test at gateways/payment-gateway.service.spec.ts:47 sends one), so the delivery has no event id and is refused; src/modules/episode-access/coin-topup/dto/payment-callback.request.dto.ts:4 says: VNPay (`vnp_*`) and MoMo IPN fields are accepted too and normalised to this shape.
  With `Spec` and `Orders = {o1}`, `Amounts = {1, 3}`, `Rates = {1, 2}`, `MaxChanges = 3`.
* **`StartedWasPaid`** (invariant of `BillingReport`, `src/modules/episode-access/billing-reports/billing-report.service.ts:90`). startedAt is set when the intent is created (subscription.service.ts:90), so an intent that is never paid is counted as started; src/modules/episode-access/billing-reports/billing-report.service.ts:83 says: how many plans started, renewed, were cancelled, were left to expire, or never renewed.
  With `Spec` and `Subs = {s1, s2}`, `PlanOf <- OwnPlan`, `Splits <- OneSplit`, `MaxCycles = 2`, `MaxTime = 1`.
* **`LostOnce`** (invariant of `BillingReport`, `src/modules/episode-access/billing-reports/billing-report.service.ts:88`). the counts of one report are separate queries, and cancelByAdmin (subscription.service.ts:319) rewrites the reason of a plan that has ended, so one plan is lost under two reasons of one report; src/modules/episode-access/billing-reports/billing-report.service.ts:84 says: A member whose renewal failed is counted as churn only once the plan really ends.
  With `Spec` and `Subs = {s1, s2}`, `PlanOf <- OwnPlan`, `Splits <- OneSplit`, `MaxCycles = 2`, `MaxTime = 1`.
* **`EndedIsNotRunning`** (invariant of `BillingReport`, `src/modules/episode-access/billing-reports/billing-report.service.ts:109`). an activation that read PENDING before cancelByAdmin committed writes ACTIVE and leaves endedAt and endReason, so the plan is among the running and among the cancelled; src/modules/episode-access/subscription/subscription.service.ts:118 says: Anything but PENDING answers 409 SUBSCRIPTION_NOT_PENDING.
  With `Spec` and `Subs = {s1, s2}`, `PlanOf <- OwnPlan`, `Splits <- OneSplit`, `MaxCycles = 2`, `MaxTime = 1`.
* **`ReportedOnce`** (invariant of `Alerts`, `src/modules/production/media-ingest/hls/hls-link-check.job.ts:53`). the notices are counted and written in two statements, and sweeps overlap (setInterval without Redis, several workers with it); src/modules/production/media-ingest/hls/hls-link-check.job.ts:17 says: a dead link is reported once to the Creator and the Reviewer until it works again.
  With `Spec` and `Sweepers = {i1, i2}`, `Episodes = {e1, e2}`, `MaxChanges = 3`, `MaxFaults = 1`.
* **`FlaggedOnce`** (invariant of `Alerts`, `src/modules/production/studio-handoff/overdue-episodes.job.ts:44`). the flags are counted and written in two statements; src/modules/production/studio-handoff/overdue-episodes.job.ts:12 says: an episode past its due date without a delivery is flagged once, to its Creator and Reviewer.
  With `Spec` and `Sweepers = {i1, i2}`, `Episodes = {e1, e2}`, `MaxChanges = 3`, `MaxFaults = 1`.
* **`RepeatFindsTheOrder`** (invariant of `Gateways`, `src/modules/episode-access/coin-topup/coin-topup.service.ts:142`). a delivery with a bad signature is stored as handled and without an order, and the same event with a good one is answered from that row with a 404; src/modules/episode-access/coin-topup/payment-callback.controller.ts:14 says: a repeated delivery answers with the same order and never credits twice.
  With `Spec` and `Orders = {o1}`, `Amounts = {1, 3}`, `Rates = {1, 2}`, `MaxChanges = 3`.

## 7. Proofs

Each proof module EXTENDS its component and TLAPS and has the same shape: type
lemmas per kind of row, `Init => IInv`, one lemma per action or group of actions
that it keeps the invariant, `Invariance` (`Spec => []IInv`) and one theorem per
property. The constants only carry the assumptions the component module names
(`...Assumption`), which TLC evaluates on every run. The components of `MCStudio` and
`MCOffice` are instantiated there and proved together in `OfficeProofs`, from
`StudioAssumption` and `OfficeAssumption`: in a step one of them works and the
others stand still (`StudioStep`, `OfficeStep`), so each has its own `IInv`, found
under "What the proofs add to the properties" in its module.

* **Sums.** Several properties add up a set of rows. `SumTheorems` proves what
  `SumFunctionOnSet` of the community modules computes over any finite set of
  integers: zero for the empty set (`SumEmpty`), one element taken away (`SumTake`),
  one value changed (`SumChange`), two functions added (`SumPlus`), a set cut in two
  (`SumParts`) or grouped (`SumGrouped`). The library's induction theorems take an
  operator as a parameter, which no installed prover can instantiate, so induction is
  written with sets: if a claim fails for some subset it fails for a smallest one
  (`SmallestSet`, from the well-foundedness of strict inclusion).

* **CoinWallet.** `IInv` joins the properties with what they lean on: calls in
  progress and swept lots are well formed (`CallsWellFormed`, `SweptLotsExist`).
  `LedgerExplainsWallet` carries the balance after each entry: the counters equal the
  last entry, and each entry the one before plus its amounts. `LotsAccounted` says a
  lot is closed exactly when it is empty. `BackingInv` adds the sums: the bonus
  balance is what the open lots hold less what a sweep took out twice, which needs
  that a sweep never takes less than the lot still holds (`SweptAmountsCover`), and
  that no call began in the future (`CallsNotAhead`), so what it may debit is open.
  `SpendKeepsQuote` then follows from how debits are spread over the lots in order.
  `BonusNeverNegative` is in neither: it is false, as `wallet_stale` shows.
* **EmailOutbox** (end of `CoinWalletProofs`, since `MCJobs` runs both). `OneMail` counts
  the mails a retry may repeat: those whose SENT was never written, and those of an
  attempt that had lost its job. One attempt at most owns the job (`JobHasItsAttempt`),
  and while it still has to send, or could not, every mail that left is one of those
  (`NoMailKept`); so is it while the job waits and SENT is not written.
* **TopUp.** `PaidMeansCredited` is not inductive alone: a task in the middle
  of `settle` relies on a confirmation it read earlier. The invariant adds that
  what the gateway sent is true (`SentIsTrue`), a handler works on something sent
  (`HandledWasSent`), whoever credits has a confirmed payment, of the exact amount if
  the gateway always says it (`SettlesConfirmed`), and so was what is credited.
  `CreditedIsPaid` assumes `~RetryAfterDecline` and `AlwaysTells`: without either the
  property is false (`TopUp_decline.cfg` and section 6.1). `KeepsPromise` assumes
  neither; it maps the one step that adds a credit to `Credit`, a payment a credit may
  rest on to `Confirm`, every other to a stutter.
* **Subscription.** Nothing locks the row of a plan, so a run may write what it read
  long ago. `RunsHold` says that such a reading is of the running period or of an
  older one. The number it would charge is then free or taken: if it is taken, the
  unique (subscription, cycle) index rolls everything back, and if it is free the
  reading is of the running period (`FreshReading`), so the new cycle begins where
  the last one ends. A Coin pays once because the entry of a key that was used
  before already belongs to a cycle and the unique entry refuses it (`CoinTaken`).
  `TasksHold` (a request has its plan) and `Story` (per plan, what `PlanIsPaidUp`
  says and how it starts) complete `IInv`; a step that writes no period is one
  obligation, `AdjustStep`. That a period is paid before it begins is not excluded by
  any of this (section 6.1).
* **Purchase.** Refunds are exact because a row is paid back in the step that
  revokes it and with its own price; the proof needs rows typed, each row on a
  movement that exists (`MovementsExist`), and that a movement is fresh when a
  request commits (`MovementFree`). `CoinsInv` adds up what a member paid and got
  back: every movement has a row (`MovementsHaveRows`), so a row that is added or
  revoked changes one term of a sum.
* **Delivery.** `ProcessingIsHeld` says that whatever ends the newest version
  gives the episode back. Every outcome gives back the episode of the version it
  ends if that is the newest, so the proof needs that what a request, a job or
  an attempt works on has been delivered (`VersionsKnown`). `Reopen` counts a
  retry, and nothing is claimed after one: it may process a version that is no
  longer the newest. `OneAtATime` needs a second invariant, `InOrder`, that holds as
  long as nothing is retried, stalls or is left unacknowledged (`Undisturbed`): one
  request, job or attempt at most is at a version that is not done (`OneAtWork`),
  that version is the newest and the episode waits for it (`NewestWaits`), and a
  review decides on a done one (`ReviewsTheDone`). Then READY versions cannot pile up
  (`OneReady`), and `StatusWithoutPending`, which takes the newest of them, finds the
  one that is under review.
* **Release.** `IInv` is `TypeOK`, what each request may rely on (`RequestsHold`), what
  a release under way keeps true (`ReleasesHold`: it holds the row of its episode,
  so what let it start still stands when it commits, a pending release included)
  and, per episode, `Story`: what is scheduled or out is cleared and priced, and what
  is out has a live release. The releases an episode waits for are in neither: two
  requests may both find none. `WithdrawnKept` follows since only a release under way
  sets `published`, and its release waits all along; `StatusTrue` puts the parts together. Every action writes at most one
  episode and its releases, which `EpisodeStep` turns into one obligation; only
  `Cancel`, `RunCompliance` and `ApplyLabel` need more. Completion writes the movie,
  which `Story` does not mention; that is why two releases that miss each other's
  episode break section 6.1's `AllOutCompletes` and not the gate.
  `GateKept` refines `ReleaseGate` step by step: a label or a check maps to `Vet`,
  which must spare the version that is shown: a check that fails hides its episode
  in the same transaction (`Hide`), and a label resets the checks only of an
  episode that is not out. A release maps to
  `Show`; take-downs and reviews that send back map to `Hide`, the rest to stutters.
* **Pricing.** `AlertIsAboutThePrice` is inductive with types: a new price settles
  every alert there is before it raises one, and an answer only rewrites the status
  of an alert that is not settled.
* **StudioPortal.** A request acts on a hand-off it resolved earlier; `DeliverersTook`
  says that whoever delivers, and whatever was delivered, names a hand-off that was
  accepted, which no step takes back (`AnswersOnce`).
* **Project.** The lock of the movie makes the number that was read under it still the
  last one (`LastIsRead`); an edit that found an episode due finds it due when it
  writes (`FoundDue`), since no step takes a due date away.
* **ReviewerBudget.** Fees never exceed grants though three kinds of entry lock
  different rows: the invariant says what a request that waits or has read may rely
  on. Who holds the Reviewer has read sums that are still the sums
  (`BalanceHeld`), who changes a fee holds the movie and leaves a fee above zero
  (`FeesHeld`), so an assignment under way finds its fee paid (`AssignsFunded`).
* **SafeFetch.** What is connected to is public because a link about to be sent is a
  name, whose lookup is guarded, or an address that was checked (`Checked`); a
  redirect uses up a hop and a hop makes one request (`RequestsWithin`).
* **Sessions.** A token that is replaced is there as long as the account is
  (`RotatesAToken`), its update matches only if nobody replaced it, and the new one is
  last in its session, so an older one that was live would contradict `OneLiveToken`.
* **AccessControl.** `StaleForTtl` speaks of one instance and one moment; the invariant
  dates what was read: what a look-up is about to store was true when it began
  (`ReadsWereTrue`), so what an entry says was true `Ttl`, and the time its look-up
  took, before the entry ends (`EntriesEnd`). What stood at a moment and is replaced
  was replaced after it (`StoodAfter`), through any number of changes.
* **DailyReward.** Check-ins are never taken back, so what a request read of the streak
  still stands when it pays, and neither is what a rule offered (`RequestsHold`,
  `RulesOffered`). A new movement gets its check-in in the step that writes it, and one
  found again is left alone; the unique keys of day and movement do the rest.
* **PlanPrice.** `Seamless` is inductive with types: whichever rows a request read as
  in force, it closes them where the row it appends begins.
* **Viewing.** One step asks for every combination of facts; `OffersTrue` is a case split
  over what `Decide` answers.
* **Gateways.** `Sound` ties an order, the books of its gateway and its Coins together;
  the arithmetic is that what is quoted rounds down (`RoundedDown`) and that the unit
  of the link is the unit of the delivery (`AskedIsTaken`).
* **BillingReport.** A report reads its figures one after the other while plans are paid.
  `AsOfAMoment` says that each figure is that of some set of cycles between those
  there were when it was asked for and those there are now; sums and groups over such
  a set grow with it (`FiguresGrow`, `RowsAddUp`).

| Theorem | Property | What it establishes |
|---|---|---|
| `CoinWalletProofs!Invariance` | - | the inductive invariant holds in every reachable state, for every value of the constants |
| `CoinWalletProofs!TypeCorrect` | `TypeOK` | type correctness of the wallet model |
| `CoinWalletProofs!LedgerInStep` | `LedgerExplainsWallet` | the two counters are what the ledger adds up to, entry by entry |
| `CoinWalletProofs!MainCovered` | - | no interleaving of callers overdraws main Coins |
| `CoinWalletProofs!KeyOnce` | `KeyMovesCoinsOnce` | an idempotency key moves Coins at most once over all wallets |
| `CoinWalletProofs!ExpiryOnce` | - | a lot is expired at most once, however many sweeps overlap |
| `CoinWalletProofs!LotsBalanced` | - | a lot is never over- or underdrawn and is closed exactly when it is empty |
| `CoinWalletProofs!DrainOnly` | - | no step reopens a closed lot or adds Coins to one |
| `CoinWalletProofs!NeverOverdrawn` | `NothingOverdrawn` | main Coins never go below zero and every lot is accounted for, in one statement |
| `CoinWalletProofs!FinalExpiry` | `ExpiryIsFinal` | what ran out leaves its wallet once and never comes back |
| `CoinWalletProofs!BonusBacked` | `BonusIsBacked` | the bonus balance is the sum of the open lots less what a sweep took twice, for any number of lots |
| `CoinWalletProofs!SpendKeepsQuote` | `SpendAsQuoted` | a spend takes main Coins first, then the lots in the order in which they run out, and exactly its price |
| `CoinWalletProofs!OneMailLeaves` | `OneMail` | for any number of workers, another mail of a message leaves only if a crash or a lost write came between a mail and its mark, or its attempt had stalled before the mark; SENT is only written for a mail that left |
| `TopUpProofs!Invariance` | - | The inductive invariant of TopUp: types, the truth of what the gateway sent, and what every task in the middle of settle may rely on. |
| `TopUpProofs!TypeCorrect` | - | Every row and task keeps its type, and no order has two ledger entries, for any number of orders, handlers, probers, sweeps and faults. |
| `TopUpProofs!PaidIsCredited` | - | No order or attempt reads PAID without its ledger entry. |
| `TopUpProofs!CreditedIsPaid` | - | If a declined attempt cannot be paid any more and the gateway says the amounts it took, a credited order and its attempt read PAID for good. |
| `TopUpProofs!KeepsPromise` | `Promised` | TopUp implements TopUpPromise: at most one credit per order, and only for a payment the gateway took, of the exact amount if the gateway always says it. |
| `TopUpProofs!PaidExactlyIfCredited` | `PaidIffCredited` | If a declined attempt cannot be paid any more and the gateway says the amounts it took, an order reads PAID exactly when the wallet was credited for it. |
| `SubscriptionProofs!Invariance` | - | The inductive invariant of Subscription: types, what requests and runs of the sweep have read of a plan, the books of cycles and entries, and the story of each plan. |
| `SubscriptionProofs!CoinPaysOnce` | `EveryCoinPaysOneCycle` | Every Coin a plan took paid for exactly one cycle and every paid cycle has its Coin, for any number of plans, members, requests, overlapping sweeps and crashes. |
| `SubscriptionProofs!PaidUp` | `PlanIsPaidUp` | The paid cycles of a plan follow each other without a gap up to the period of its row, and PAST_DUE has the attempt that failed. |
| `PurchaseProofs!Invariance` | - | The inductive invariant of Purchase: typed rows, every row on a movement that exists, refunds exact, one row per movement and table. |
| `PurchaseProofs!RefundExact` | `RefundedExactly` | An access is paid back once and with its own price, exactly when it is revoked, for any number of members, items and requests. |
| `PurchaseProofs!OneOpening` | `MovementOpensOnce` | A movement opens at most one access of each table, whatever keys racing requests share. |
| `PurchaseProofs!TypeCorrect` | - | Rows, movements and requests keep their types. |
| `PurchaseProofs!CoinsAddUp` | `CoinsAccounted` | The Coins of every member are what they began with less what they paid and plus what was paid back, summed over all accesses, for any number of them. |
| `DeliveryProofs!Invariance` | - | The inductive invariant of Delivery: types, requests, jobs and attempts work on versions that exist, and PROCESSING is held. |
| `DeliveryProofs!TypeCorrect` | - | Rows, jobs and attempts keep their types and an approved version is one of the episode, past review and only then, for any number of requests, workers, versions and faults. |
| `DeliveryProofs!HeldWhileProcessing` | `ProcessingIsHeld` | As long as nothing is processed again, an episode in PROCESSING waits for its newest version and that version is not done, whatever stalls, times out, dies or restarts. |
| `DeliveryProofs!OneAtATime` | `VersionUnderReview` | As long as nothing is processed again, stalls or is left unacknowledged, review has one version in front of it, the newest that did not fail, and never one that was sent back, for any number of requests, workers and versions, with and without Redis. |
| `ReleaseProofs!Invariance` | - | The inductive invariant of Release: types, what a request may rely on of what it read, what holds while a release is under way, and that a version is approved, labelled, checked and priced while its episode is scheduled or out, which then has a live release. |
| `ReleaseProofs!NothingUnvetted` | `NothingUnvettedOut` | Nothing scheduled or out is without its label, its four passed checks and its price, for any number of episodes, versions, requests and releases. |
| `ReleaseProofs!StatusTrue` | `StatusHasItsRelease` | A published episode has a live release, none shown as under maintenance is out, and a release that was withdrawn never goes out, though requests look for the pending release before anything is locked. |
| `ReleaseProofs!GateKept` | `Gated` | Release implements ReleaseGate: members see one vetted version of an episode, and never another in its place without a take-down. |
| `ReleaseProofs!WithdrawnKept` | - | A release that was withdrawn never goes out, whoever had found it before, and what was taken down or went out stays recorded. |
| `OfficeProofs!BudgetInvariance` | - | The inductive invariant of the budget: whoever writes a ledger holds the row it is about, and what was read under that lock still stands. |
| `OfficeProofs!FeesCovered` | `FeesAreCovered` | Grants cover what a Reviewer has allocated and every assigned project has its fee, for any number of Reviewers, movies and requests. |
| `OfficeProofs!AlertsAreCurrent` | `AlertIsAboutThePrice` | An alert that is not settled is about the price its episode has, whoever answers and sets prices at once. |
| `OfficeProofs!StudioKeepsTheLink` | `StudioHasTheLink` | The hand-off in force always has a link that works, versions come from hand-offs that were accepted, and what a studio answered is never answered again, for any number of requests and hand-offs. |
| `OfficeProofs!PlanKept` | `PlanIsKept` | Episodes and uploads are numbered without a gap or a repeat, an episode has a due date exactly when it waits for the studio, and a cancelled project and an answered proposal stay as they are. |
| `OfficeProofs!OneTokenLives` | `OneLiveToken` | Only the newest refresh token of a session can be live and none outlives the account, whatever rotations, repeats and sign-outs race, for any number of requests, sessions and tokens. |
| `OfficeProofs!StaleNotForLong` | `StaleForTtl` | An instance that answers from an entry a change made stale does so for less than Ttl, and the time its look-up took, after the change, for any number of instances and whatever look-ups, updates and the clock overlap. |
| `OfficeProofs!RewardEarned` | `RewardIsEarned` | Check-ins are on different days and movements, every reward has its check-in with what was paid, which a rule of its day of the ladder offered, and a streak goes on only from the day before, however many requests race over midnight or share keys with other movements. |
| `OfficeProofs!PricesAreSeamless` | `Seamless` | A price row that has an end ends where a later row begins, and the newest row has none, so no price stops without another that takes over, for any prices and any number of racing requests. |
| `OfficeProofs!OffersTrue` | `OffersAreTrue` | For every combination of facts a member may watch exactly what is not for sale to them, the next step offered can be paid, and the catalog lists as available what is found. |
| `OfficeProofs!PaymentsTrue` | `PaymentIsTrue` | A PAID order is one whose gateway took its amount and whose Coins cost no more, a payment taken as asked never fails, and what gateway and member were told stays true, for any amounts and rates. |
| `OfficeProofs!FiguresTrue` | `FiguresAreTrue` | The revenue of the plans adds up to the totals, totals and chart count what was paid when the report was asked for once and nothing unpaid, and only plans that ended count as churn, for any number of plans and cycles. |
| `OfficeProofs!FetchInvariance` | - | The inductive invariant of a fetch. |
| `OfficeProofs!FetchSafe` | `FetchIsSafe` | Whatever a link, a redirect or a playlist names, and however names move, a fetch connects to public addresses only, makes a bounded number of requests and takes no more than its limit. |

## 8. Only model-checked

* Liveness (`ExpiredLotCloses`, `ConfirmedSettles`, `OpenDeliveryFinishes`,
  `DueIsDecided`, `RunEnds`, `ProcessingEnds`, `JobEnds`, `StaysReported`): the
  prover has no rule for ENABLED, so fairness stays with TLC.  `StaysReported`
  is all that is claimed of `Alerts`, which therefore has no theorem.

Every invariant and every action property that a passing run checks is a theorem.

## 9. Not modelled

* Media tools, object storage, the mailer, the HTTP edge and configuration: pure
  I/O or pure functions of one request. Models see their outcome (success,
  rejection, transient error). Of the gateways the JSON POST of VNPay, which its
  documentation does not have, is left out.
* Notifications and the audit log: rows that no modelled decision reads; the two
  sweeps that do count them are `Alerts`.
* Roles and ownership (project access rules): who may call an operation is not a
  state property; status guards are part of every action.
* Single-row edits (settings, policies, genres): nothing races over them that a
  row lock of the database does not settle. A setting that a decision reads is a
  variable or a constant of the module that models the decision.
* Closing the job queue on shutdown, and its logging.
* Seeds and imports of the catalog (`prisma/`): run by hand on an empty database.

## 10. What is left

1. `Purchase` on top of `Release`: it keeps a publishing part of its own, which
   could be shown to be what `Release` lets purchases see.
2. Which guard of the code (`nextRenewalAt` in the update of a renewal and of a
   resume) would make `NoEarlyCharge` an invariant, modelled and proved with it.
