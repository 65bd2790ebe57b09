# A formal model of the Laina lending protocol

Laina is a lending protocol on Soroban (Stellar's smart contracts). Lenders
deposit a token into the pool of that token; borrowers leave another token, or
the same one, as collateral and borrow; a loan whose collateral has lost too
much of its value may be liquidated by anyone. This directory holds TLA+
modules translated from the contracts, configurations that check them with TLC
on small instances, and proofs checked by TLAPS for all instances.

Paths in this file and line numbers in comments are those of the repository.

## The system

| Component | Where | State | Operations |
| --- | --- | --- | --- |
| Loan pool contract | `contracts/loan_pool/src` | total, available and shares balances; interest index and the time of its last update; status, rate multiplier; each user's shares, liabilities and collateral | initialize, deposit, withdraw, deposit_collateral, withdraw_collateral, borrow, add_interest_to_accrual, increase_liabilities, repay, repay_and_close, liquidate, liquidate_transfer_collateral, change_interest_rate_multiplier, upgrade |
| Interest rate curve | `contracts/loan_pool/src/interest.rs` | none | get_interest |
| Loan manager contract | `contracts/loan_manager/src/contract.rs` | administrator, oracle, the registered pools | initialize, deploy_pool, create_loan, add_interest, repay, repay_and_close_manager, liquidate, admin_withdraw_revenue, upgrade |
| Loan manager storage | `contracts/loan_manager/src/storage.rs` | a loan per (borrower, nonce); each borrower's last nonce; each borrower's list of live loans | create_loan, write_loan, delete_loan and what they call |
| Price oracle | `contracts/reflector_mock`, `contracts/loan_manager/src/oracle.rs` | prices | twap, lastprice |
| Token contract | not in the repository | who holds how much | transfer |
| Liquidation bot | `liquidation-bot` | event cursor, a database of loans and of prices | fetch events, fetch prices, find and attempt liquidations |
| dApp contexts | `src/contexts` | wallet, its balances and positions, the clients' key, the stored wallet-state, loans, pools, prices as the tab knows them | connect, load, disconnect, refetch, poll |
| dApp forms | `src/pages`, `src/components` | progress of a transaction | simulate, sign, send, close, leave |
| dApp trustline step | `BorrowModal.tsx`, `TrustlineStep.tsx` | whether the trustline is being set | ask for the asset, set its trustline |
| Deployment scripts | `scripts` | none | build, deploy, initialise |

How they interact. The manager deploys the pools and is the only caller the
pools accept for a loan's steps. One invocation of the manager makes several of
pools: `create_loan` deposits collateral in one pool and borrows from another;
`add_interest` brings a pool's index up to date, reads it and raises the user's
liabilities there; `liquidate` begins with `add_interest`, pays one pool and
takes collateral out of another. The books that describe one loan are therefore
kept in three places: the manager's loan record, the position of the borrower
in the pool borrowed from, and the position in the pool of the collateral.
Nothing in the code ever compares them. The pools call the token contract, and
the manager the oracle. The manager and the pools publish events, from which
the bot keeps its database; the bot and the dApp call the contracts.

What is hard.

- *Books that must agree.* Soroban runs an invocation atomically, so there are
  no races inside it; what can go wrong is a sequence of legal calls after which
  two books disagree: a total with what is lent, a position with the loans it
  stands for, a list with the loans it lists.
- *What one call reads after another wrote.* Several calls of one invocation
  work on what may be the same pool.
- *Interest.* It is added lazily, by whichever call comes first, as the ratio of
  an index kept by the pool to one remembered by the loan.
- *Rounding.* All divisions truncate toward zero.
- *Prices.* The health check uses an hourly average, the collateral that is
  taken uses the last price.
- *Bot.* Three event queries from one cursor, processed by kind and not by age;
  redelivery, restarts, polling with no end.
- *dApp.* Requests in flight whose answers come in any order, some for a wallet
  that has been disconnected.

What makes each component correct.

- Pool: it holds the tokens its books say; the shares add up; what is lent is
  owed; nobody takes value from the lenders; the index does not fall unless
  liquidations have overdrawn the pool, and no time is charged twice.
- Manager: every loan is covered by its owner's positions; a debt falls by
  payment alone; a loan can always be closed by a borrower with the money; a
  liquidation does not make a loan less healthy.
- Manager storage: lists name exactly the live loans; an id is never reused.
- Bot: an unhealthy loan that stays so is eventually attempted; the database has
  no loan that was closed, misses none that is live, and has no terms that were
  replaced before the bot last asked.
- dApp: what is shown belongs to the connected wallet; what is fetched comes to
  be what is on chain; a form shows the outcome of its own click, and leaves its
  waiting state.

`PROJECT.json` lists the hazards, each at its line with the properties that
would catch it.

## The modules

| Module | What it is |
| --- | --- |
| `FixedPoint` | Rust's truncating division |
| `InterestRate` | the rate curve, `interest.rs` |
| `LoanPool` | one pool with its token's ledger: a record, and for each entry point `Op` a condition `OpOK` and the record after it, `Op` |
| `LoanBook` | the manager's storage of loans, as a specification of its own, and the abstract specification of the manager |
| `PoolLedger` | what a pool promises its lenders, the abstract specification of the pools |
| `LoanManager` | the protocol: the manager's entry points composed with the pools, the users, the administrator, the oracle and time |
| `Sums` | sums as a recursive function |
| `LendingSafety` | the protocol's properties, and its pools as instances of `PoolLedger` |
| `LendingClaims` | what the repository says and the code does not do |
| `MCLending` | the instances for TLC |
| `LiquidationBot` | the bot's process and its database, with the chain it watches |
| `BotSafety` | the bot's properties and claims |
| `MCBot` | its instances for TLC |
| `DappSession` | the dApp in one tab: the contexts' requests in flight, and the forms |
| `SessionSafety` | its properties and claim |
| `MCSession` | its instances for TLC |
| `Sums_proofs` | proofs about sums over users and loans |
| `LoanBook_proofs` | proofs about the book alone |
| `LoanPool_proofs` | for each entry point of a pool: the type of its record, and the entry it makes in the books; the rate curve |
| `LoanManager_proofs` | the protocol's types, and that it implements the book |
| `LendingBooks_proofs` | for each invocation: which entries it makes in which pools |
| `LendingSafety_proofs`, `BotSafety_proofs`, `SessionSafety_proofs` | the theorems about the properties of the three |

`LoanManager` extends `LoanPool` (and with it `InterestRate` and `FixedPoint`)
and instantiates `LoanBook`. `LendingSafety` extends it and instantiates `PoolLedger`, `MCLending` extends
that, and `LendingClaims` extends `MCLending`. `LiquidationBot` instantiates
`LoanBook` too: its chain's actions are those of the book of loans that
`LoanManager` is proved to implement.
`DappSession` stands alone: of the chain it needs only that requests to it are
answered or fail.

### How they correspond to the code

*An invocation is an action.* An error, a failed assertion, a panic or an
overflow anywhere in an invocation undoes all of it, so the guard of an action
is the conjunction of everything that must succeed on the way, each evaluated
on the state that the calls before it have left, and its effect is the
composition of all the calls. `AfterCollateral`, `AfterInterest`,
`AfterBorrow`, `AfterClosePayment` and `AfterLiquidationPayment` are those
states in between; in each, the pool of the collateral and the pool borrowed
from may be the same.

*State.* `pool[p]` is the storage of the pool of token `p` and the balances of
that token: `total`, `available`, `shares`, `accrual`, `updated`, `multiplier`,
`status`, `positions`, and `tokens`, the token contract's ledger over the users,
the pool, the manager and the administrator. `loans`, `nonce` and `ids` are the
manager's `DataKey`-ed entries. `deployed` is the registered pools, `twap` and
`last` the oracle's two answers, `now` the ledger's timestamp.
`liquidationFees` is not in the code: it records the fees that liquidations
have sent to the manager, which `LentIsOwed` speaks of.

*Numbers.* An `i128` is an unbounded integer. The contracts use checked
arithmetic and are built with overflow checks, so that an overflow makes the
invocation fail, which is no step: the model allows every behaviour the code
has. Division by zero is excluded by a guard wherever the code divides.

*The token contract* refuses a negative amount and one that the balance does
not cover. It is external: the model is what its callers rely on.

*The oracle* is external in production. The average and the last price change
at any time and independently, and either may be missing (`NoPrice`), which makes
an invocation that asks for it fail; `reflector_mock` is the case in which they
agree and are there.

*A user's list of loans* is a set: the code appends and removes, and nothing
depends on the order.

*Events, TTL extension, logging and authorisation* are left out. Authorisation
shows in who an action's caller can be: loan steps are taken only through the
manager, and a loan's owner is the payer of `repay`.

### The bot

*The chain* of `LiquidationBot` is the book of loans, in which any borrower may
create, change or delete a loan, with the event each of these publishes stamped
with the number of the open ledger. The server answers from the closed ledgers,
as of the moment of the question. What the bot keeps of a loan is its terms:
what is borrowed and the collateral, and their pools, which never change. An
amount is an `i128` on chain and an `i64` in the database: `AsI64`, with half of
the column's range as the constant `HALF`.

*Steps.* `phase` is where the loop is: the three queries one by one, a statement of
the database for each event (the batch is the set of the positions in `events`
that the queries answered with; those of created loans come first, then the
updates, then the deletions, each by age), a price for each pool, a decision for each loan,
the attempt, the wait. The chain goes on between any two of them and the process
may die between any two of them: of `main`'s own variables nothing survives,
and the database does. `Restart` begins `HISTORY_DEPTH` ledgers back.

*Transactions.* The network queues one of an account at a time; it may be included
late, when the bot has died or even been restarted, and it may be turned away
although `send_transaction` returned a hash. It carries the bot's offer, a third
of the debt in its table. The manager refuses an offer of half the debt or
more, or of a hundredth or less, where the debt is what was last written of it
with interest, up to `MaxGrowth` times; whether it accepts an offer between
them, and with what result, is left open (it depends on prices and pools).

*History variables.* `synced` is the ledger up to which the table agrees with the
events and `missed` says that the bot has gone past events without getting
them, by an absence longer than it looks back or by an answer that the server
cut. The code has no such notion; `DatabaseIsBook` and `UnhealthyIsAttempted`
are stated for a bot that has missed nothing.

### The dApp

*A handler* runs to its next `await` and leaves the rest of itself behind: a task
in the bag `tasks`, with whose data it asks for. An answer is an action that
takes a task and does what the handler does next; an error does what its `catch`
does, or ends it. Which task is answered when is free. Requests for the pools
are in a bag of their own, `feed`: 0 until the server has answered, and then the
version it answered with, which arrives in its own time.

*State.* `wallet`, `balances`, `positions`, `loans` hold whose they are, not what they
are; `loans` is `"loading"` where the code has `null` and `"none"` for an empty
list. `publicKey` is the clients' `options.publicKey` and `stored` the browser's
`wallet-state`; they are no React state: a key outlives its session, and the
`wallet-state` a reload of the tab.

*Forms.* A form is idle, waits, or shows an outcome. `Click` starts its transaction:
simulated first (`simulate`), then signed by the user and sent (`send`). A form that
is taken off the page, by navigation, by disconnecting, by its own closing, keeps
nothing; its handler goes on, and its `setState` does nothing (`mounted`). Of the
deposit form, which is always on its page, closing resets the state; it alone
ignores a click on the backdrop while it waits (`LeaveableForms`). The handlers of
`borrow` and `repay` fetch loans and balances again, for the wallet they were
clicked with.

*History variables.* `strays` are the accounts whose requests were under way when
the wallet was changed from them; `clean` says that the last connect or disconnect
met nothing else under way and that no request for the user's data has failed
since. The code has no such notions: it cancels no request and does not look
whose answer it sets. `strays` excuses no state: `OnlyOwnDataIsShown` speaks of all,
and names the accounts whose late answers may be seen. `clean` is set again by
every connect or disconnect that finds nothing under way, so that
`SettledIsConsistent` is also about a session after one that was left amid its
requests, with another account's data on the screen and its key in the clients.
Both say whose data is shown, not how old it is: two refetches of one account
look alike.

## The runs

The instances of the protocol have two tokens (`XLM`, `EURC`) and a pool that may be deployed
for each, and two users. Any user may call any entry point; what the users hold
at the start decides what parts they can play. `DECIMAL` is 1000 and the other
fixed-point numbers keep their proportion to it, because TLC's integers have 32
bits; `SECONDS_IN_YEAR` is 1 and time passes in steps of four years, or of six in
`liquidation`, so that interest on an amount of 60 is a visible number of units,
and rounding happens in nearly every division.

| Run | Checks | Shows |
| --- | --- | --- |
| `supply` | `TypeOK`, `SharesBacked`, `LentIsOwed`, `LoansAreSecured`, `AccrualRemembered`, `AccrualNeverFalls`, `LendersKeepTheirValue`, `PastInterestIsSettled`, `PoolsAreLedgers` | a lender, a borrower with one loan, two periods of interest, repayments, withdrawals and revenue: the pool's books agree with the loans, no call changes what the index has come to by now, nobody takes value from the lenders, and all they see is a ledger of shares |
| `liquidation` | `Custody`, `LentIsOwed`, `LiabilitiesCoverDebts`, `HealthIsVisible`, `LoansCanBeClosed`, `HealthIsNotLost`, `CallsSpareHealth`, `DebtIsPaidFor`, `FeesRetireInterest`, `IndexFallsOnlyOverdrawn`, `OnlyLiquidationsUncoverInterest` | the collateral's average and last price fall, apart from each other; liquidations, several of one loan and each of nearly half its debt, before and after interest and repayment, until more interest is unpaid than there is debt, the pool has more available than its total, and its rate is negative: also then the books agree, no call makes a loan less healthy than interest has made it, no health factor rounds to nothing, and the loan can be closed; nothing but a liquidation brings a loan there, and the index falls nowhere else |
| `two_loans` | `Custody`, `CollateralCoversLoans`, `LoansCanBeClosed`, `ListsAreExact`, `ClosedStaysClosed`, `PoolsAreLedgers` | two loans of one borrower, and of one pool as lender and holder of the collateral, and collateral deposited without a loan, some of it withdrawn from the depositor's own shares; the price of a token may go missing |
| `underwater` | `UnderwaterIsLiquidatable` | violated, see below |
| `overdrawn` | `InterestIsAdded` | violated |
| `shared_liabilities` | `LiabilitiesCoverDebts` | violated with two loans from one pool; it holds with one, which `liquidation` checks |
| `bot_copy` | `BotTypeOK`, `DatabaseIsBook`, `OffersAreWithinBounds`, `PricesAreFetched` | when the bot looks at its loans, its table is the book as of the cursor or fresher, over redelivery, crashes and restarts; it has their prices; and what it offers is within the bounds of the contract, although the table is without the interest since |
| `bot_loop` | `UnhealthyIsAttempted` | a loan that stays unhealthy is attempted, whatever becomes of the attempts at others |
| `bot_waits` | `AttemptsEnd` | violated |
| `session` | `SessionTypeOK`, `OnlyOwnDataIsShown`, `SettledIsConsistent`, `OutcomesBelong` | two accounts that connect, disconnect, deposit and repay with requests in flight: what is shown is the connected account's, and a form's outcome its own |
| `forms` | `LoansEndLoading`, `FormsEndWaiting`, `PoolsConverge` | loans stop loading and the borrow form stops waiting, also when requests fail; polls that overlap converge |
| `clients` | `ClientsUseWallet` | violated |

Bounds, and why they are enough:

- `MaxLoans`, the loans a user ever makes: 1, or 2 in `two_loans`. Two is the
  least number for which loans share a position, and for which an id could be
  used again.
- `MaxTime` is two steps of time (one in `two_loans`): the loan's index is behind
  the pool's, and behind it again after it was brought up to date.
- One amount for each operation, chosen so that combinations matter: a deposit is
  more than a loan; two payments do not end a loan; a withdrawal does not divide
  the shares; `AllowedAmounts` covers a debt with interest.
- `liquidation` has two amounts to liquidate with, 140 and 70, each nearly half of
  what the loan of 149, with six years of interest, owes at the time; its
  collateral is worth so much more than the debt that it can be liquidated by both,
  and what is left of the debt is less than its unpaid interest. The lender withdraws half of
  the deposit in between, or not. `AvailableIsInTotal`, `InterestIsCovered`,
  `AccrualRemembered` and `AccrualNeverFalls` are all false in this instance.
- `Prices`: the collateral may lose a third of its value, which makes a loan
  liquidatable, or half of it, which makes it worth less than the debt. In
  `two_loans` the oracle may lose the price of one token. It need not come back:
  what can be done without it could be done with it.
- One pool per token. The code allows a second pool of the same token; it would
  be another instance of the same record, with a ledger in common.

- `bot_copy`: one borrower and one loan, three events, four ledgers, a look-back
  of one ledger and answers of one event. A loan can be created, changed and
  closed, all of it between two queries or spread over rounds, and delivered
  again. Three ledgers are too few for the case the history variables had to be
  made for: a crash in the middle of a batch of old events leaves rows older than
  those before it, and a restart that comes late begins after the events that
  would set them right. One loan is enough, because no step of the processing
  looks at two. Its debt may be 60 or 30, so that a stale row makes a wrong
  offer, or 256, which is nothing in a column for numbers below 128.
- `bot_loop`: two loans, so that one can be in the way of the other, with two
  events, three ledgers and two prices of the collateral. A loan's pool may be
  unknown to the bot.
- `session`: two accounts, two forms, one that may be left while it waits and
  refetches and one that is neither; the user does nothing more while there are
  two tasks, which handlers may turn into more. No pools: no property there is
  about them.
- `forms`: one account, the borrow form and the withdraw form, whose handler does
  not catch a failed simulation, two overlapping polls and one change of the
  pools.

Deadlock is not checked: with time, loans, events and the users' money bounded,
the instances of the protocol and of the bot come to rest; the dApp's do not, and are checked for it.

Fairness. None is assumed of the protocol: users, prices and time owe it no step,
and the contracts do nothing of their own accord. Its properties are safety
properties; `LoansCanBeClosed` says in that form what matters of progress, that a
step is possible. The bot's specification has weak fairness of three things: the
process, while it runs, takes its next step (it is one thread that loops);
ledgers close; a queued transaction is included or refused (the network works its
queue off; a transaction that it drops is for the bot one that it never queued,
which is a step of the model). There is none for borrowers,
prices, crashes or restarts: nothing in the repository starts the bot again, so
that `UnhealthyIsAttempted` excuses a bot that is down, besides one that missed
events and one that waits for a transaction that was never queued. The dApp's
specification has weak fairness of what a form and the list of loans wait for:
requests are answered or fail (the browser ends a request), and a user asked to
sign does or refuses; weak fairness of the timer; and strong fairness of the
server's and the network's answers to polls, of which some may fail but not all:
otherwise nothing could be said of what is shown. Nobody has to click.

### What the code does not do

- `underwater`: `liquidate` refuses a liquidation that lowers the health factor
  (`InvalidLiquidation`). What is taken is worth the payment and a bonus, so this
  refuses every liquidation of a loan whose collateral is worth no more than the
  debt, and some before it: with a factor of 0.8 the bonus is a tenth, and the
  health factor below which a liquidation lowers it is 0.88. `BorrowStep.tsx:182`
  tells borrowers the loan becomes available for liquidation there.
- `overdrawn`: `liquidate` takes the payment off the debt and leaves the unpaid
  interest (`contract.rs:518`, marked temporary). After a few liquidations of nearly
  half there is more interest unpaid than debt, more has come into the pool than it
  counts as lent, and once a lender withdraws, `available` is well above `total`.
  Utilisation and rate are negative from then on, the index falls, and
  `add_interest` takes off a debt what it should add: 149 borrowed, six years,
  liquidations of 140 and 70 with a withdrawal of 80 between them, six years.
- `shared_liabilities`: the pool's `repay_and_close` takes all the user's liabilities
  off, those of other loans too; a later liquidation of one of them fails.
- `bot_waits`: `wait_success` asks for a transaction until it is found, without a
  time limit. One that the network turned away is never found, and the bot looks
  at no other loan until it is killed. A failed attempt should not do that: the
  comment at `liquidation_bot.rs:421` has the bot continue with other loans.
- `clients`: `loadWallet` sets the clients' key after the wallet and its balances are
  shown, and after one more request. A deposit in between is built by a client
  with no account, or with that of the wallet before.

Met on the way and not checked by a run:

- The pool's `liquidate` raises `available` by the payment less the fee, and does
  not take the fee off `total` (`contracts/loan_pool/src/contract.rs:513`). With
  the loan closed, `total` exceeds `available` by the fees, a sum the lenders are
  shown and cannot withdraw. `LentIsOwed` states the exact difference.
- `withdraw` rounds the shares to burn down (`contract.rs:129`), to none for a
  small enough amount. `LendersKeepTheirValue` bounds what this takes from the
  others: less than the worth of one share a call.
- The form to repay adds the unpaid interest to the borrowed amount
  (`RepayView.tsx:29`, and the list of loans at `LoansView.tsx:58`), which has it
  already. After `add_interest` the balance shown as all of the outstanding loan
  is more than is owed; it is also the maximum the form lets the user repay, and
  `repay` refuses it.
- "Repay All" allows the pool to take that balance and a twentieth, of the loan as
  last written (`RepayView.tsx:68`). When interest since then comes to more, the
  closing fails, for a borrower who has enough, until somebody calls
  `add_interest`.
- `create_loan` accepts any health factor above 1 where the comment above it
  speaks of 1.2 (`contracts/loan_manager/src/contract.rs:136`).
- Because `liquidate` leaves `unpaid_interest` as it was, the fee is also taken on the
  same interest again at the next payment. `FeesRetireInterest` is about the payments.
- `repay` of the whole debt, which its assertion admits (`contract.rs:327`), divides
  by zero in the health factor of what is left (`:281`), and fails.
- A loan of a pool that is not in the bot's environment is stored; the price
  fetch skips its pool with a warning (`liquidation_bot.rs:292`), and the health
  check then panics for want of the price, in every round from then on
  (`Panic`). A debt that is nothing in its column ends the process with an error.
- The bot offers nothing for a debt of one or two units, and one unit for a debt
  of three, which is the half that the manager refuses.
- The bot does not notice that it missed events, by an absence of more than
  `history_depth` ledgers or in an answer the server cut (`liquidation_bot.rs:83`
  and `:121`), and keeps the rows of loans that were closed meanwhile.
- Deposit, withdraw and repay await the simulation outside their `try`: when it
  fails they wait for ever (`IsForsaken` in `SessionSafety`).
- `disconnectWallet` and the choice of another account do not end requests: one
  that is answered late shows the data of the other account (`strays`), and a load
  that goes on sets its key and stores the wallet-state of a session that was ended.
- `isSettingTrustline` in `BorrowModal.tsx` is reset by the last button of the
  trustline step only, so that closing the dialog before leaves the next borrow in
  that step.

## The proofs

All theorems are about any number of users, loans, accounts, forms and ledgers,
any set of tokens, any amounts, prices, steps of time and bounds. They assume
what the modules' `ASSUME`s state: of the protocol, that the fixed-point one,
the year and prices are positive, the collateral factor is between nothing and
one, amounts are integers, and the steep part of the rate curve is not below zero
where it begins (`PanicAssumption`: with the source's numbers it is 1,000,000
there, the ten percent at which the other part ends); of the bot, that a debt that is lent and a price that
is asked for are positive, and that a user's nonces fit their column (an `i64`
there, a `u64` on chain); of the dApp, that no account is called `NoUser`. TLC
evaluates those assumptions in every run.

| Theorem | Module | States |
| --- | --- | --- |
| `TypeCorrect` | `LoanManager_proofs` | `Spec => []TypeOK`. Balances of tokens are natural numbers in `TypeOK`, so this is also: no account is ever overdrawn, whatever sequence of transfers an invocation makes |
| `ImplementsBook` | `LoanManager_proofs` | `Spec => Book!BookSpec`: each invocation of the protocol is one create, write or delete of the book of loans, or leaves it alone |
| `ProtocolInvariant` | `LoanManager_proofs` | `Spec => []Inv` |
| `ListsStayExact` | `LendingSafety_proofs` | `Spec => []ListsAreExact` |
| `LoansStayClosed` | `LendingSafety_proofs` | `Spec => ClosedStaysClosed` |
| `CustodyHolds`, `SharesStayBacked` | `LendingSafety_proofs` | `Spec => []Custody`, `Spec => []SharesBacked` |
| `LentStaysOwed` | `LendingSafety_proofs` | `Spec => []LentIsOwed` |
| `CollateralStaysCovering` | `LendingSafety_proofs` | `Spec => []CollateralCoversLoans` |
| `DebtsArePaidFor`, `FeesAreForInterest` | `LendingSafety_proofs` | `Spec => DebtIsPaidFor`, `Spec => FeesRetireInterest` |
| `IndexFallsWhenOverdrawn` | `LendingSafety_proofs` | `Spec => IndexFallsOnlyOverdrawn`: the index falls, or is left behind by a loan, only from states in which the pool has more available than its total |
| `InterestIsSettled` | `LendingSafety_proofs` | `Spec => PastInterestIsSettled` |
| `LendersAreNotRobbed` | `LendingSafety_proofs` | `Spec /\ []AvailableIsInTotal => LendersKeepTheirValue` |
| `CoveredInterestKeepsAvailable` | `LendingSafety_proofs` | `Spec => [](InterestIsCovered => AvailableIsInTotal)`: where the hypothesis of those theorems, and of those below, comes from |
| `LiquidationsAloneUncover` | `LendingSafety_proofs` | `Spec => OnlyLiquidationsUncoverInterest` |
| `LendersSeeLedgers` | `LendingSafety_proofs` | `Spec /\ []AvailableIsInTotal => PoolsAreLedgers`: the protocol implements the ledgers of shares that its pools are to the lenders |
| `RateFollowsUse` | `LoanPool_proofs` | with the same total, the pool with less available charges no lower a rate; rates are between the base rate and the highest |
| `LiabilitiesStayCovering` | `LendingSafety_proofs` | `Spec /\ []AvailableIsInTotal /\ []OneLoanPerPool => []LiabilitiesCoverDebts` |
| `LoansStaySecured` | `LendingSafety_proofs` | `Spec /\ []AvailableIsInTotal /\ []HealthIsVisible => []LoansAreSecured` |
| `OnlyInterestHarms` | `LendingSafety_proofs` | `Spec /\ []AvailableIsInTotal /\ []HealthIsVisible => HealthIsNotLost` |
| `OnlyTimeHarms` | `LendingSafety_proofs` | `Spec /\ []AvailableIsInTotal /\ []HealthIsVisible => CallsSpareHealth` |
| `HealthStaysVisible` | `LendingSafety_proofs` | `Spec /\ []AvailableIsInTotal /\ TimeSparesHealth => []HealthIsVisible`: only time and prices can bring a health factor to nothing |
| `LoansStayClosable` | `LendingSafety_proofs` | `Spec /\ []AvailableIsInTotal /\ []HealthIsVisible => []LoansCanBeClosed` |
| `BookInvariant`, `BookNeverReopens` | `LoanBook_proofs` | the book's invariant, and `ClosedStaysClosed`, of the book alone |
| `BotTypeCorrect` | `BotSafety_proofs` | `BotSpec => []BotTypeOK` |
| `DatabaseStaysBook` | `BotSafety_proofs` | `BotSpec => []DatabaseIsBook` |
| `OffersStayWithinBounds`, `PricesStayFetched` | `BotSafety_proofs` | `BotSpec => []OffersAreWithinBounds`, `BotSpec => []PricesAreFetched` |
| `SessionTypeCorrect` | `SessionSafety_proofs` | `SessionSpec => []SessionTypeOK` |
| `OnlyOwnDataStaysShown` | `SessionSafety_proofs` | `SessionSpec => []OnlyOwnDataIsShown` |
| `SettledStaysConsistent` | `SessionSafety_proofs` | `SessionSpec => []SettledIsConsistent` |
| `OutcomesStayBelonging` | `SessionSafety_proofs` | `SessionSpec => []OutcomesBelong` |

### The protocol

*Types and the book.* `Inv` is `TypeOK` and the book's invariant `BookInv`. The type
invariant is inductive only as a whole: a pool's record keeps its type because
the loan's does (its debt is what the pool is paid), and the loan's does because
the oracle's prices and the pool's index do. `LoanPool_proofs` has one lemma for
each entry point: from a record of the right type and `OpOK`, `Op` is a record
of the right type. For token balances the lemma needs each transfer's guard on
the ledger as the transfers before it left it. `LoanManager_proofs` composes
them, one lemma for each action, and shows that each action is a step of
`BookNext`, whose loan is well-formed by the same lemmas. `LoanBook_proofs`
proves `BookInv` inductive for the book alone, and `BookFacts`, an instance of
that module, carries it over. `BookInv` needs its first part, that the nonce of
every live loan has been handed out: without it a new loan could overwrite an
old one, and a list could name an id twice over.

*The books.* What an entry point does to a pool's books is an *entry*: one user's
position, the totals and the pool's tokens change by amounts that belong
together (`IsEntry`), and no other user's position changes. `LoanPool_proofs` has
one lemma for each entry point; `LendingBooks_proofs` has one for each invocation,
which makes up to three entries (`IsPoolEntry`) in up to two pools: where both are
the same pool, the second is made in the record the first left. Then an invariant over sums is a statement about
entries: each entry changes the pool's side and one term of the sum by as much.

*The sums.* `SumTo` is a recursive function, and induction over data is out of the
prover's reach; `Sums_proofs` does it by a least counterexample instead. A sum
over all loans is a *grid*, with a row of loans for each user; a step of the book
changes one cell, or makes one row longer (`GridChange`).

*What else the invariants need.* `DeployedInv`: loans are of deployed pools, so that
deploying a pool, which resets its record, resets nobody's books. `BalanceInv`
is `Custody` and `SharesBacked` together with the types: `deposit_collateral`
withdraws shares and deposits collateral in one call, and a step keeps one of
the two by what it does to the other. `LentIsOwed` needs nothing of prices or of
the interest rate, only that interest raises debt and unpaid interest alike.

*The index.* `IndexFallsWhenOverdrawn` has no hypothesis. A rate is worked out from
the share of the total that is not available, and is a natural number
(`RateIsNatural`) when no more is available than the total; so an index that is
not negative grows, or stays, when it is brought up to date in such a pool, and a
loan that is brought up to date remembers the index its pool has come to
(`IndexFollows`). In an overdrawn pool both may fail, as `overdrawn` shows. How a pool
comes to be overdrawn is said by two theorems more. By `LentIsOwed`, total less
available is the principal of the loans and the fees of liquidations; the
principal of a loan, its debt less its unpaid interest, is negative only when more
interest is unpaid than there is debt. `CoveredInterestKeepsAvailable`: while that
is so of no loan (`InterestIsCovered`), no pool is overdrawn. And
`LiquidationsAloneUncover`: no step but a liquidation takes a loan there. Interest
raises debt and unpaid interest alike, also when it is negative; a payment goes to
interest first (`UnpaidAfter`); a new loan has none. Together: interest runs
backwards only after liquidations, and only through `contract.rs:518`.

*The worth of a share.* This needs that rates are not negative: otherwise the next
payment of a loan would take from the lenders what a falling index has taken off
its debt. So `[]AvailableIsInTotal` is a hypothesis of this theorem and of seven others
(`LendersSeeLedgers`, and those on liabilities, security, health and closing). The
contracts do not maintain it; where it comes from is what the theorems above say.
`ValueInv` is the invariant under it: every pool's books are natural numbers and its
clock is not ahead of time (`IsSoundPool`, `ClockInv`), every loan has a debt, no
negative unpaid interest, and remembers an index between the first and the pool's
own (`IsSoundLoan`). These hold each other up, because growth is the ratio of the
two indexes. `liquidation` checks the properties those theorems are about in
histories outside the hypothesis too, where they hold in that instance; there is
no proof for such histories.

*Settled interest.* The index is lazy: what it has come to by now is worked out
from the balances a pool has now, for all of the time since it was last brought up to date. So a call that moved the
balances first would change the rate of time already past. `KeepsIndices` says
that a step leaves a pool's index, its time and the balances that the rate is
worked out from all alone, or brings the index up to date from the old balances;
either way the index comes to the same by now (`InterestStaysDue`), and a second
call of one invocation adds nothing (`UpToDateTwice`). All of it holds of any rate,
negative ones too; what is needed is that no pool's clock is ahead of time.

*The ledgers.* What the lenders of a pool see is `PoolLedger`: a stock of tokens
(`total`), shares in it, and who holds them. `LedgerStep` maps each step to a
step of it. A deposit is a purchase and a withdrawal a sale, each at the price
there is, rounded down (`IsSharePrice`, with `SharesIssuedPrice` and
`SharesBurnedPrice` for the two divisions); `deposit_collateral` and
`create_loan` may be a sale too, because they first withdraw from the user's own
shares (`IsPayout`), and so may be the step of one pool while the loan comes
from another; of a repayment and of a closing the lenders see the interest less
the fee; of everything else nothing (`IsNoTrade`). That interest is not negative
and that a sale is of no more than the stock is what `ValueInv` and the
hypothesis are needed for. No share changes hands by anybody else's step: that
is in the ledger's actions.

*The rate.* The curve's two lines rise (`LineRises`), the first ends no higher
than the rate at the threshold (`GentleLineEnds`), and truncation keeps the
order (`TruncDivGrows`). The theorem's two hypotheses are about the curve's
numbers: the second line begins no lower than the first ends, and ends no higher
than the highest rate. With the source's numbers both hold with equality, and
`MCLending` assumes them of the runs' numbers.

*The liabilities.* Interest raises a borrower's liabilities by at least what it adds
to their debt; a payment and a liquidation take as much off both, or less off the
liabilities (`OwesMore`). Closing takes all of a borrower's liabilities in the
pool, those of another loan too, so that the invariant needs `OneLoanPerPool`;
`shared_liabilities` has the history without it.

*Security and health.* A loan has collateral until a liquidation takes the last of it,
which lowers the health factor to zero, and is refused unless it was zero
before. `HealthIsVisible` says that it is not: the collateral is worth at least the
smallest fixed-point fraction of the debt. Then loans stay secured, and no step
makes one less healthy except by interest or new average prices: a smaller
debt against the same collateral is no less healthy (`SmallerDebtIsHealthier`), the
debt grows only with the index (`DebtGrows`), and a liquidation compares the health
factors itself.

A health factor with interest up to now depends on the index of the pool borrowed
from, which everybody's calls move. `LoansAreSpared` says what a call does to a
loan it leaves: nothing, or it is brought up to date and is no less healthy than
interest made it (`IsSpared`). With `InterestIsSettled`, under which the index of an
untouched loan's pool comes to the same, `OnlyTimeHarms` follows; and, since a new
loan is healthy (`NewLoanIsHealthy`), that no call brings a health factor to nothing
(`HealthStaysVisible`). What is left of `HealthIsVisible` is a condition on time and
average prices alone (`TimeSparesHealth`): a price may fall to next to nothing.
`liquidation` checks `HealthIsVisible` where the averages fall by the factor that
makes loans liquidatable.

*Closing.* `LoansCanBeClosed` evaluates the whole of `repay_and_close_manager` for a borrower
with exactly the debt, with interest up to now, in tokens. Its guards hold
because pools stay `Healthy`, because the pool has the tokens (`Custody`) and the
borrower's position the collateral (`CollateralCoversLoans`), of which one loan's
is a part because no loan's is negative (`SumAtLeast`), and because positions are
never negative (`HaveNaturalPositions`): a deposit adds to them, and a withdrawal
takes no more than is there.

### The bot

`BotInv` has, besides the types, these parts. `EventsInv`: the events are in the
order of their ledgers, and what they say last of a loan is the book. `LoopInv`:
what the loop's variables are in each phase. `CopyInv` is what makes
`DatabaseIsBook` inductive, in the middle of a batch too: the table agrees with
the events up to a point, `AgreesTo`, or will agree once the rest of the batch
is processed, `WillAgree`, which holds because nothing happened to a loan between
what the table has of it and what the batch has (`NothingBetween`) and because the
batch has all that the cursor is past (`FetchedAll`). Chain steps go on between
the bot's: facts about closed ledgers survive them (`GoesOn`). `PricesInv` says
whose prices were fetched.

### The dApp

`SessionInv` is inductive. `OwnInv`: each request under way, and all that is shown, is
of the connected account or of one of `strays`; this needs no condition, because
a change of wallet makes strays of all that it leaves behind. `CleanInv`: a clean
session asks for one address before anything else, and all its requests are its
own; `SettledInv`: what is not
shown yet is on its way, in a task of a load. `OutcomesInv`: the transactions
that forms await are at most one for each form, one copy of it, and the form
waits; a form that is taken off the page keeps a transaction, but none that it
awaits, and so may be clicked again when it is back.

### Only model-checked

- `LiabilitiesCoverDebts` is false of the code in general (`shared_liabilities`);
  it is proved, and checked in
  `liquidation`, of borrowers with one loan from a pool.
- `AccrualRemembered` and `AccrualNeverFalls`, which `supply` checks, are false once
  liquidations have overdrawn a pool: `IndexFallsOnlyOverdrawn` is what is proved.
- What `AvailableIsInTotal` is a hypothesis of, in histories in which it fails:
  `liquidation` checks `LiabilitiesCoverDebts`, `HealthIsVisible`, `HealthIsNotLost`,
  `CallsSpareHealth` and `LoansCanBeClosed` there.
- `TimeSparesHealth` is a condition on time and prices, of which no code decides,
  and `OneLoanPerPool` one on what borrowers do; `liquidation` checks
  `HealthIsVisible`, which implies the first, and has the second because no user
  makes two loans there.
- Liveness under fairness (`UnhealthyIsAttempted`, `LoansEndLoading`,
  `FormsEndWaiting`, `PoolsConverge`) and `ENABLED` are out of the prover's reach.
  There are no RECURSIVE operators here.

## Not modelled

- `upgrade` of either contract replaces the code.
- `change_interest_rate_multiplier`, which a pool lets only the manager call, and
  the manager never does; and the statuses other than `Healthy`, which nothing
  sets. Every pool is `Healthy` with multiplier 1. The guards on the status are
  in the model.
- A second call of a pool's `initialize`, which nothing in the code prevents.
- A second pool of one token.
- Of the bot: what the manager answers to a liquidation besides its bounds on the
  amount. A product that overflows an `i128` ends the process, as `Crash` may.
- Of the dApp: the trustline step, the amounts typed in, the numbers that forms
  work out, layout; several tabs,
  which share the stored wallet-state.
- The scripts, which have no state.

## Plan

1. Done: the pool, the manager, its storage, their properties and claims; type
   correctness and the book.
2. Done: the bot, with its database, its loop, its crashes, its numbers and offers.
3. Done: the dApp's contexts and forms.
4. Done: missing prices; the interest a payment retires.
5. Done: sums over users and loans; what the pools' books promise.
6. Done: the bot's and the dApp's safety.
7. Done: the rate curve is not negative; the index, and what a share is worth.
8. Done: liabilities of borrowers with one loan from a pool; security, health and
   the closing of loans.
9. Done: `PoolLedger`, a pool as its lenders see it, implemented by the protocol;
   the condition under which interest is covered; the rate curve.
10. Done: interest is settled before balances move; health with interest up to now.
11. Done: liquidations that leave more interest than debt, and the index that falls
   after them; sessions that begin amid what others left behind.
