# FinanceTrackerPro in TLA+

FinanceTrackerPro (`src/src`) is a Next.js personal-finance application over PostgreSQL (Prisma).  Its own logic
lies in the server actions (`src/src/actions`), the services they call (`src/src/services`) and a few pure
libraries (`src/src/lib`).  Each server action is a request that runs concurrently with every other request:
there is no in-process state to speak of, all state is in the database, and the hard questions are about
transactions at READ COMMITTED, row locks taken by some handlers and not by others, values read early and
written late, caches, idempotency keys, and retries.

This directory holds TLA+ models of that core, TLC configurations that check them on small instances, and
theorems that TLAPS checks for every value of the constants.  Paths below are relative to `src/src` unless they
name a document of `src/`.

## Inventory

| Component | State | Operations | Hard behaviour | What makes it correct | Model |
|---|---|---|---|---|---|
| Accounts and transactions (`actions/account`, `transaction`, `transfer`) | `Account.balanceCents` (a cache), `isActive`, parent; `Transaction` rows with a signed amount, a unique idempotency key, `isActive`, `transferId` | open, close, create, edit, delete, transfer, reverse | reads before the transaction, writes in it; a lock on one of two accounts; a cache rewritten from a value read earlier | money is neither made nor lost; no overdraft; the two legs of a transfer agree; one effect per key; cache = sum of rows | `Ledger` |
| Credit cards (`actions/credit-card`, `services/credit-card`) | an account whose balance is a debt; its limit | charge, pay, open, close, edit | a payment locks the bank account, not the card | never over the limit, never overpaid | `Ledger` |
| Reconciliation (`services/reconciliation`) | none of its own | compare the cache with the sum, overwrite it | read, read, unconditional write, without a transaction | caches converge | `Ledger` |
| Savings (`actions/savings`, `services/savings`, part of `deleteTransaction`) | goal (status, target, cached amount), contributions, each with a transaction | create, edit, remove, contribute, take back, reconcile on page load | two lock orders; increments against a conditional overwrite | goal amount = sum of contributions; completed iff reached; money put aside comes from somewhere and goes back once | `Savings` |
| Fixed expenses (`actions/fixed-expense`, `services/fixed-expense`, `lib/fixed-expense-recurrence`, part of `updateTransaction` and `deleteTransaction`) | templates, a payment row per due date up to a moving horizon | create, edit, delete, pay, edit or delete the transaction of a payment, fill the calendar on page load | a page fills the calendar while the template is edited or deleted; a payment paid twice | a due date is paid once and its money leaves once; no pending payment of a deleted template; pending payments carry the template's amount | `FixedExpenses`; dates: `Schedules` |
| Loans (`actions/loan`, `services/loan`, `lib/loans`) | loan (status, cached balance), installments, adjustments, payments | create, pay, edit, delete, six kinds of adjustment, reconcile on page load | a lock order of three tables; a schedule rebuilt under a payment; a torn read that overwrites the cache | the debt goes down by what is paid, once per key; what was paid stays; the rebuilt schedule asks for what is owed; the order of the locks is kept | `Loans`; schedules: `Installments` |
| Investments (`actions/investment`, `services/investment-ledger`) | the holding of an asset, trades, the cash of the account | deposit, withdraw, buy, sell, edit and reverse a trade | locks taken in opposite orders by different handlers; a replay of all trades after an edit | the holding has the shares of the trades; no more sold than there is; cash spent only if it is there; no lasting deadlock | `Investments` |
| Projection (`services/projection`, `lib/projection`), salary | none | what the month and the year will end with | the same money is in the plan and in the cash, or in neither | what is planned and done counts once; nothing owed is dropped | `Projection`; dates: `Schedules` |
| Forms (`components`), keys and rate limits (`services/rate-limit`, `services/idempotency`) | the key of a form, whether it waits; attempts of the last hour | open, submit, close; check and record | lost answers, submits that overlap, a form opened again, or refreshed by its page, while a call is under way; check and record are apart | wanted once, booked at most once; told of a success only when it is booked; a bounded overrun of the limit | `Submissions` |
| Money, dates (`lib/money`, `lib/fixed-expense-recurrence`) | none | rounding, calendar | halves, ends of months, windows | a due date does not depend on the window it is looked at through | `Rounding`, `Schedules` |
| Categories, variable expenses | labels | single-statement edits, sums for display | none to speak of | – | not modelled |
| Dashboard cards, authentication, prices and rates, the rest of the user interface | cookies, HTTP caches, React state | – | external services | – | not modelled |

How they interact: every component that moves money inserts `Transaction` rows and rewrites
`Account.balanceCents` itself, in its own database transaction; there is no common routine that does it.
Savings, fixed expenses, loans and investments therefore meet the ledger (and one another) only in three shared
things: the rows of an account (whose sum is the "true balance"), the cached balance, and the lock on the
`Account` row.  `deleteTransaction` reaches back into savings when the row it deletes funds a contribution.

Every hazard found while reading is listed in `PROJECT.json` at the line where it bites, with the properties
that watch it, or with a note when no module covers it yet.

## Plan

1. `Bank`, `Ledger`, `LedgerBank`, `MCLedger`, `LedgerProofs` – done.
2. `Envelopes`, `Savings`, `MCSavings`, `SavingsProofs` – done.
3. `Bills`, `FixedExpenses`, `MCFixedExpenses`, `FixedExpensesProofs` – done.
4. `Rounding`, `Installments`, `Debt`, `Loans`, `MCLoans`, `SumsProofs`, `LoansProofs` – done.
5. `Investments`, `MCInvestments`, `InvestmentsProofs` – done.
6. `Schedules`, `Projection`, `MCProjection`, `ProjectionProofs` – done.
7. `Submissions`, `MCSubmissions`, `SubmissionsProofs` – done.

Theorems still worth proving: `PlanKept` for a salary, under the condition on pay dates and tolerance that makes
it true (`projection_salary` shows that some is needed).

## How a request is modelled

A request is a process.  Its program counter `pc[p]` goes from `idle` through named points to one of `done`,
`repeated` (the idempotent answer), `rejected` or `aborted`; `req[p]` is what was asked and `seen[p]` what it
has read so far.  The points lie where another request can come in between:

- each group of reads that is one statement is one step, because at READ COMMITTED every statement sees what is
  committed when it starts (Prisma turns the `findUnique` calls of one tick into one statement, so a transfer
  reads its two accounts together);
- `SELECT ... FOR UPDATE` is a step that waits until `lock` of that row is free and takes it;
- the writes of a handler are one step, its commit: nobody sees them before.  The commit waits for the lock of
  each row it updates or refers to by a foreign key.  In `Savings`, the row of the goal is updated before the
  account, so the lock it takes on the way is a step of its own.

`Begin` starts a request when fewer than `MaxInFlight` are running; the check of the idempotency key is part of
it, because every handler makes it first and outside the transaction.  `Abort` ends a request at any point with
its transaction rolled back: the server goes down, the five seconds of Prisma are over, or the database picked
it to break a deadlock.  A retry is another slot that is given the same request, with the same key.

Data is cut down to what the properties can tell apart: amounts are small integers, a text, a category and a
date do not exist (but for fixed expenses), every account belongs to the one user, and the unique key that the
server draws is `ServerKey`, different from all keys of clients.

`FixedExpenses` has time besides: `today` moves on by `Tick`, a due date is a month of a small calendar, and
what `computeDueDates` finds for a template over all time is the set `dates` of the template.  There accounts
have currencies, because a bill, its template and the account that pays it must agree on one.  The rows of bills
are not locked one by one: an edit takes effect on them at its commit, on those that it saw pending and that
still are, which is what `UPDATE ... WHERE paidDate IS NULL` finds once it has waited.  `bills` is the table
`FixedExpensePayment`, with one row per template and date at most, and `entries` holds the transaction each slot
has made.

In `Loans` there is one loan: two loans meet only in the accounts, which `Ledger` covers.  `loan` is its row,
`rows` the installments, `made` the payment or adjustment each slot has made and `entries` the transaction that
goes with it.  Money is whole cents, a rate a whole number of parts of `Unit`, and interest accrues by the
period; the division with banker's rounding is the one of the code (`Rounding`).  The steps between
`LockAccount`, `LockLoan` and `LockInstallment` are the locks of the code, one statement each; `Wants` says
which row a request waits for.

In `Investments` shares are whole and one asset is traded.  `Replay` plays all active trades in the order of
their dates, as `recomputeHoldingFromLedger` does, with the cost kept as a fraction, so that the only rounding
is that of the code.  What an edit or reversal takes effect on is what the transaction sees at its commit,
because the account is locked before.

`Projection` has no requests: the projection is a page that reads everything at once, so it is a function of the
state, and the actions are what happens between two looks at it.  `Schedules` holds the calendar; a day is a
number.

`Submissions` looks at the same requests from outside.  A call goes from `sent` through `checked` and `booked`
to `answered` or `refused`; a call or an answer may be lost at any time, and the user may see an error while the
server goes on (`lost`).  The transaction of the action is one step, `Book`, which the other modules justify;
the key makes a second one an `AnswerAgain`.  `Policy` is how long a form keeps its key: `"submit"` (deposits,
withdrawals, transfers and transactions draw one for every submit), `"opening"` (payments and adjustments of
loans) or `"kept"` until a success is confirmed (variable expenses, savings).  `Redrawing` are the forms whose
effect at the opening also depends on what the page hands them: `RegisterPaymentModal` draws another key and
stops waiting when the accounts change (`Refresh`), which happens when the refresh that an earlier close asked
for arrives; `redrawn` remembers the openings in which it did.

## Modules

| Module | What it models |
|---|---|
| `Ledger` | `createTransaction`, `updateTransaction`, `deleteTransaction`, `transferBetweenAccounts`, `reverseTransfer`, `payCreditCard`, `createBankAccount`, `createCreditCard`, `deleteBankAccount`, `deleteCreditCard`, `reconcileAccount`.  `status` and `cached` are `Account.isActive` and `balanceCents`, `rows` the `Transaction` table, `total` the sum that `getTrueBalance` computes (kept as a variable). |
| `Bank` | What the ledger promises: money moves in one step, only money that is there, once per key. |
| `LedgerBank` | The ledger as an implementation of the bank, and the invariant that makes it one. |
| `MCLedger` | Accounts A and B, a pocket of A, a card; the menus of requests of each scenario. |
| `LedgerProofs` | The theorems about the ledger and the bank. |
| `Savings` | `createSavingsGoal`, `updateSavingsGoal`, `deleteSavingsGoal`, `contributeToGoal`, `deleteTransaction` of a contribution, `reconcileGoalBalances`. |
| `Envelopes` | What saving promises: money is put aside once, if it is there, and given back once. |
| `SavingsProofs` | The theorems about savings and envelopes. |
| `MCSavings` | One account, two goals, the menus. |
| `FixedExpenses` | `createFixedExpense`, `updateFixedExpense`, `deleteFixedExpense`, `payFixedExpense`, `ensureUpcomingPayments` (called by every page that shows bills), `updateTransaction` (the amount) and `deleteTransaction` of the transaction of a payment (`Correct`). |
| `Bills` | What paying promises: a bill is settled once, with money that is there, by one operation of its key; what was paid may be corrected, and is taken back at most once. |
| `FixedExpensesProofs` | The theorems about fixed expenses and bills. |
| `MCFixedExpenses` | Templates T and U, accounts A and B of two currencies, the menus. |
| `Rounding` | `divideCents`: division with banker's rounding. |
| `Installments` | `buildAmortizationSchedule`: the rows of a French, German, American or custom schedule; `computeTermCountFromInstallment`: when installments of one size pay a debt off. |
| `Loans` | `createLoan`, `updateLoan`, `deleteLoan`, `registerLoanPayment`, `addLoanAdjustment` (disbursement, extra payment, new rate, new term, interest-only periods, custom installment), `reconcileLoans`. |
| `Debt` | What a loan promises: a debt that is lent once, grows and shrinks once per key, and is closed at most once. |
| `SumsProofs` | What the other proofs need of sums, of functions that are defined number by number, of folds and of `RoundDiv`. |
| `LoansProofs` | The theorems about schedules (`Installments`), loans and the debt. |
| `MCLoans` | A principal of 4 over two or three periods, one account, the menus. |
| `Investments` | `depositToInvestment`, `withdrawFromInvestment`, `buyAsset`, `sellAsset`, `updateInvestmentTrade`, `reverseInvestmentTrade`. |
| `InvestmentsProofs` | The theorems about investments. |
| `MCInvestments` | One asset, two currencies, the menus. |
| `Schedules` | `computeDueDates`, `expandIncomeOccurrences`, `expandBonusOccurrences`. |
| `Projection` | `getNetProjection` and `projectPeriod`, and a world in which plans are carried out. |
| `ProjectionProofs` | The theorems about the calendar, the due dates and the projection. |
| `MCProjection` | A calendar of fourteen months, eight templates, three bills, two installments, a salary, a bonus. |
| `Submissions` | The forms of the client, the network, the rate limit and the idempotency key. |
| `SubmissionsProofs` | The theorems about submissions. |
| `MCSubmissions` | One form of each kind. |

In each module, the definitions whose comment begins "Slip of" are not part of the specification: they are forms
that a plausible mistake in the code would take.  Each property is checked to fail when the definition is
replaced by its slip, so that none holds merely because the model cannot break it.  The comment of every module
says which files it stands for; `PROJECT.json` gives the lines of every definition.

## Runs

| Run | In flight | What it shows |
|---|---|---|
| `ledger_serial` | 1 of 3 | One request at a time, of every kind: caches exact whenever nothing runs, a deleted account empty, a card within its limit, a reversal the mirror of its transfer. |
| `ledger_overlap` | 3 of 3 | Any overlap of requests that debit under the lock, with retries: no overdraft, the cache of a pure source exact, one effect per key, and the refinement `ImplementsBank`, which makes transfers atomic.  With fairness: every request ends although two opposite transfers deadlock, and a reconciliation that runs after the last movement repairs the cache. |
| `savings` | 3 + page | The amount of a goal, its completion, the refinement `ImplementsEnvelopes`, and that what a page shows becomes right. |
| `fixed` | 3 + page | Paid bills and their transactions agree (but for amounts that were edited), success is answered only for what is paid, one edit or deletion leaves nothing behind, what is removed stays so, the refinement `ImplementsBills`, and the calendar is filled in the end. |
| `loans` | 2 of 4 | No deadlock; a deleted loan asks for nothing; paid parts stay; a loan closes only when settled; the cache follows the debt; a schedule in any style, new or rebuilt, asks for what is owed; the refinement `ImplementsDebt`. |
| `investments` | 2 of 4 | The holding and the caches are what the ledger says; cash is guarded; only requests of different kinds wait for one another; every request ends. |
| `projection` | – | Doing what is planned keeps the projection; nothing owed is dropped; due dates do not depend on the window. |
| `submissions` | 2 calls | What is wanted once is booked once (but for forms that began anew), success shown is success booked, the overrun of the limit. |
| `loans_extra_payment`, `investments_average`, `projection_salary`, `submissions_refresh` | 1, 1, –, 2 calls | Disagreements between the code and what it says of itself, see below. |

**Bounds.** `Procs` bounds the number of requests of a behaviour (3 or 4), `MaxInFlight` how many overlap, the
menus in the MC modules which requests there are, `Opening`, `CreditLimit`, `Target` and the amounts of the
requests (at most 3) the money.  Three requests are enough for every hazard listed in the ledger: a race needs
two, and a third makes the state they meet (a movement to delete, a debt to pay) or repeats the first.  The
amounts are chosen at the boundaries: A opens with 2 and is asked for 1, for exactly 2, for 3; the card has a
limit of 2 and is charged 1 and 2; the goal has a target of 2 and receives 1 and 2, from an account with 3.
Template T asks for 1 on each of days 0, 1 and 2, the calendar reaches one day back and one ahead and today
moves from 0 to 1 (`Back`, `Ahead`, `LastDay`), so that a day enters the calendar in the run and another becomes
overdue; A holds 2, enough for two bills of 1 or one of 2.  Two slots edit the amount of a payment's
transaction, to more, to less or to a sum of the wrong sign.  `ledger_overlap` has a shorter menu than
`ledger_serial`, in which no account is closed and no movement deleted or edited.  `Amounts` bounds the choices
of `Bank`, `Envelopes`, `Bills` and `Debt` in the refinement only.

For the loans: slot 1 creates, the others pay in full or in part, pay ahead, lend more, change the rate or the
term, delete, reconcile; a principal of 4 over at most `MaxTerm` = 3 installments at a quarter each (`Unit` = 4,
rate 1) is the smallest loan with a paid row, a row paid in part and one that is rebuilt, and its quotas do not
come out even, so that the last row has a rest to absorb.  Slot 1 borrows in every style, and once with an
installment of 3 from which the term of 2 follows and one of 6, which is more than all that is to be paid and
refused.  `InterestPart` and `Portion` are evaluated on every schedule of the run.

For the investments: a unit of foreign money costs `Rate` = 2 and 12 (`Opening`) are in the bank; the menus buy
2 shares, sell 1 or 2 of them on an earlier or the same day, edit the purchase up and down and undo both,
deposit and withdraw, with keys used twice.  Two in flight are what a deadlock and a race need; four slots give
the trades to edit.

For the projection: rates are whole numbers, so a difference of one cent between converting a sum and converting
its parts does not arise; no salary is late in the run, so what is said of late ones is shown of bills and
installments.  Days 28 to 43 (`FirstDay`, `LastDay`) cross the end of January in a calendar of fourteen months
with the lengths of a year that is no leap year, so that both the month and the year have a turn to come or to
be crossed; `Early` = 2 days early for a salary, `MaxInvested` = 1, `Tolerance` = 15 and `Cap` = 500 as in the
code.  The templates have every frequency, begin on the last days of a month, and end inside a window.

For the submissions: `MaxOpenings` = 3 openings, `MaxKeys` = 3 keys, `Slots` of two calls, `Limit` = 1: two
openings of one form, each submitted twice, the second refreshed, and another form beside them.  `Symmetry`
exchanges targets and call slots, which no definition tells apart; nowhere else is symmetry declared, because
the menus tell slots, keys and accounts apart.

`CHECK_DEADLOCK` stays on for the ledger, the savings and the fixed expenses: a state in which requests wait for
one another is no deadlock of the model, because each may still be aborted, and `AllOver` lets a run that is
complete stand still.  It is off in `loans`, `investments`, `projection` and `submissions` and the violations
that belong to them: there a behaviour ends when every slot has served its request, the last day is over, or no
opening is left.  What a deadlock of the locks is, `NoDeadlock` and `Deadlocked` say.

**Fairness** (`FairSpec`).  Weak fairness of `Step(p)`: a handler that has begun is driven by the runtime and
its awaits return.  Weak fairness of `BreakDeadlock`: PostgreSQL looks for cycles of waiting transactions
(`deadlock_timeout`) and rolls one back; no other abort is ever forced.  In `Investments` the same two:
`Step(p)` and `GiveUp`, which is the deadlock detector; `Abort` is never forced.  No request has to begin, but
for the daemons of `Savings` and `FixedExpenses`: a page that is opened again and again, which reconciles the
goals or fills the calendar.  Strong fairness of the three steps of a daemon says that a crash or timeout does
not hit every one of its rounds at the same point.

The reconciliation of accounts has no daemon: the comment at `services/reconciliation.service.ts:280` asks for a
schedule, and nothing in the repository starts it.  `ReconciliationRepairs` therefore speaks of one that has
begun: if all other requests are over, or are reconciliations that have not read the rows yet, the cache becomes
right or the reconciliation is aborted.  That drifts are repaired in the deployed program is not claimed.

## What is proved

Every theorem holds for every value of the constants that satisfies the named assumption of its module (an
opening balance is a natural number, a value that stands for nothing is none of the others, requests are of the
shape their schema admits) and the column "Assumes".

| Module | Theorem | Says | Assumes |
|---|---|---|---|
| `LedgerProofs` | `TypeCorrect` | `Spec => []TypeOK` | – |
| | `NeverOverdrawn` | `Spec => []NoOverdraft` | `LockedDebitsOnly` |
| | `KeysTakeEffectOnce` | `Spec => []OncePerKey` | – |
| | `LedgerIsABank` | `Spec => ImplementsBank` | `LockedDebitsOnly`, `NoneCloses`, `Amounts = Nat` |
| | `CacheStaysExact` | `Spec => []CacheExactWhenQuiet` | `MaxInFlight = 1` |
| | `CardsStayWithinLimit` | `Spec => []WithinLimit` | `MaxInFlight = 1` |
| | `ClosedAccountsAreEmpty` | `Spec => []ClosedIsEmpty` | `MaxInFlight = 1` |
| | `SourceCacheStaysExact` | `Spec => []SourceCacheExact` | – |
| | `ReversalsUndo` | `Spec => []ReversalUndoes` | – |
| `SavingsProofs` | `SavingsTypeCorrect` | `Spec => []TypeOK` | – |
| | `SavingsCacheTracksSaved` | `Spec => []CacheTracksSaved` | – |
| | `SavingsCompletedIffReached` | `Spec => []CompletedIffReached` | – |
| | `SavingsAreEnvelopes` | `Spec => ImplementsEnvelopes` | `Amounts = Nat` |
| `FixedExpensesProofs` | `BillsTypeCorrect` | `Spec => []TypeOK` | – |
| | `PaidNeverParted` | `Spec => []PaidByItsEntry` | – |
| | `AnswersAreTrue` | `Spec => []AnswerIsTrue` | – |
| | `RemovedStayRemoved` | `Spec => RemovedForGood` | – |
| | `PendingFollowsPlan` | `Spec => []FollowsPlan` | – |
| | `FixedExpensesAreBills` | `Spec => ImplementsBills` | `Amounts = Nat`, `OneEditEach` |
| `LoansProofs` | `RowsCarryThePrincipal` | the principals of `Rows(plan)` add up to `plan.principal` | – |
| | `LoansTypeCorrect` | `Spec => []TypeOK` | – |
| | `LoansDeletedHasNoPending` | `Spec => []DeletedHasNoPending` | – |
| | `LoansNoDeadlock` | `Spec => []NoDeadlock` | – |
| | `LoansHistoryKept` | `Spec => HistoryKept` | – |
| | `LoansCacheFollows` | `Spec => CacheFollows` | – |
| | `LoansCompleteWhenSettled` | `Spec => CompletesOnlyWhenSettled` | – |
| | `LoansRebuildCarriesDebt` | `Spec => RebuildCarriesDebt` | – |
| | `LoansAreADebt` | `Spec => ImplementsDebt` | `Amounts = Nat` |
| `InvestmentsProofs` | `InvestmentsTypeCorrect` | `Spec => []TypeOK` | – |
| | `HoldingAndCachesAreTrue` | `Spec => []LedgerIsTruth` | – |
| | `OnlyDifferentKindsDeadlock` | `Spec => []SameKindSerializes` | – |
| | `CashIsGuarded` | `Spec => CashGuarded` | – |
| `ProjectionProofs` | `WindowsShowTheSame` | `Spec => []SchedulesAgree` | `CapIsFar` |
| | `OwedStaysOwed` | `Spec => NothingOwedIsForgotten` | – |
| | `PaymentsKeepThePlan` | the part of `PlanKept` about bills, installments and deposits | – |
| `SubmissionsProofs` | `BookedOnce` | `Spec => []OncePerOpening` | – |
| | `ToldTheTruth` | `Spec => []ToldIsBooked` | – |
| | `LimitOverrun` | `Spec => []LimitHolds` | – |

The assumptions say when the code keeps its promise, not what the prover lacks.  `LockedDebitsOnly`: nothing is
taken from an account that is no card but by a transfer, its reversal or a card payment, the handlers that take
the row lock.  `MaxInFlight = 1`: requests do not overlap; with two of them in flight on the menus of
`ledger_serial`, TLC finds each of the three violated.  `OneEditEach`: no two requests edit the transaction of
the same payment; one that writes the amount it has read does not wait for the account
(`transaction.actions.ts:793`), and if another edit has committed in between, it takes money out under the lock
of a payment.  `Amounts = Nat`: the abstract module admits every amount; TLC needs a finite set.  `CapIsFar`: no
template has more dates in the whole calendar than `MAX_PAYMENTS_PER_TEMPLATE`; once dates are cut off, which
ones are left does depend on the window.  The modules themselves assume that the slots of `Loans` and
`Investments` and the rows and currencies of `Projection` are finite, because sums run over them, and that
templates that exist at first are open.

### The ledger

- **Types.** `TypeOK` alone is not inductive: a handler that has found its row uses the row's account.  The
  invariant adds that a request past its first read has one (`RowFound`).
- **No overdraft.** That a request checked the funds helps only if nobody else takes them before its commit.
  `FundsGuarded` says so: a request at `locked` holds the lock of its source and finds there what it will take.
  It is preserved because every other debit needs that lock.  `createTransaction` (an expense),
  `updateTransaction` and `deleteTransaction` check without a lock, or nothing at all, and with them the
  property is false.
- **Keys.** `KeysKept`: the rows that exist carry different keys of clients; a request that is done with a key
  has left the row that carries it; and a request that has not committed has left none.  Rows never disappear,
  only their `active` goes, so the key stays taken.
- **Bank.** `Traceable` adds to `FundsGuarded` that the rows of a slot which has not committed do not exist yet
  and an account that does not exist holds nothing, so each commit is one step of the bank and every other step
  a stutter.  `NoneCloses` is needed because closing an account drops the opening money (and a transfer does not
  look again whether its destination is open).
- **One at a time.** `SerialInv`: what the one request under way has read is still so (`Knows`), an open account
  shows its total (`Exact`), and the books balance (`Balanced`).  The last is what the limit of a card rests on,
  and holds only while nobody has asked for an edit or a deletion: each of them changes the books without a look
  at the limit.
- **Reversals.** `PairsKept`: the two legs of a transfer have opposite amounts as long as none is edited,
  whichever of them is deleted; a request to reverse has read such a pair and turned it round, and a transfer
  that is done has left one.
- **The cache of a source.** `SourceInv`: as long as every request so far pays out of the account or does not
  touch it, a request that holds its row has read a cache that is still the truth, and nobody writes it in
  between.  The slots remember the requests they served, so "so far" is a statement about one state.

### Savings

`SavingsInv` ties a request to what it has found: a contribution past its checks holds the account and finds the
money there, and then the goal; a deletion has found a contribution and holds the goal it is about to change;
the keys of the contributions differ.  `Tracking` is why a reconciliation loses no increment: without deletions
the sum only grows, so a page that read less than the sum and finds the amount unchanged cannot be about to
write over a later increment.  `Completing` is why two lock orders do not break the status: what a deletion
decided about the goal (`Weighed`) is still so under the lock.

### Fixed expenses

- **Paid bills.** Alone, `PaidByItsEntry` does not survive a payment: the amount it writes could be 0 and the
  currency another one than the account's.  `BillsKept` adds what a request relies on after its reads
  (`Served`): past the checks the sum is positive and the bill was in the currency of the account; a slot that
  has made a transaction is through, so that it makes no second one; a correction has found a transaction; an
  edit has found its template.  `updateTransaction` of the transaction that pays a bill looks at neither the
  bill nor its amount, so the property exempts the amounts of transactions that were edited (`Amended`), and
  only these.  The argument for edits and pages is `Respected`: whatever they do to a bill, a paid one keeps its
  amount and key and stays active, and no other one becomes paid.
- **Answers and removed bills** follow from `Respected` and from `Tables`, what each step leaves of the tables:
  a bill that an answer names stays paid with that key, and an update that could write over a removed bill holds
  its template, which is open.
- **Plan.** `Planned`: with one editor (`Solo`), what it has read of templates and pending bills is still so
  (`Informed`) until it writes, whatever payments come between.  The premise of `FollowsPlan` speaks of one
  slot, not of one kind of request: an edit and a page are two editors, and the property is false of them (see
  Findings).
- **Bills.** `Held` adds that no bill is settled twice.  `AllFunded`: a payment past its lock finds the money
  there, because whoever takes money from the account waits for its row.  What an edit makes of a payment is a
  step of its own in `Bills` (`Amend`), which moves the difference.

### Loans

- **Schedules.** The rows of a schedule are functions that are defined number by number (`f[n]` from `f[n -
  1]`).  That there is such a function and what it keeps (the balance after a row is never negative and never
  more than before) is shown by the smallest number at which it would fail, and that the sum over a finite set
  is what one expects by a smallest set for which it would not (`SumsProofs`).  So `RowsCarryThePrincipal` holds
  for every style, rate, term and principal: the last row absorbs what rounding leaves.
- **Control.** `Control`: a request holds exactly the locks of the steps it has passed, account before loan
  before installment.  `LoansNoDeadlock` takes, of a set of requests that all wait, one that holds the highest
  of the locks, which cannot wait for another of them.
- **Effect.** One lemma per handler says what its commit does to the tables (`Effect`: `Pays`, `Adjusted`,
  `Deleted`, ...), and the action properties and the refinement are read off it.  A rebuilt schedule leaves rows
  that carry a payment as they are (`Rearranged`) and asks in the others for the debt less what those still ask
  for.
- Two proofs changed their property.  `CompletesOnlyWhenSettled` speaks of loans whose cache was right when the
  operation began, because a reconciliation can have made it wrong; and `RebuildCarriesDebt` asks that a pending
  row lies within the term, because two adjustments that shorten the term can leave rows behind that no rebuild
  looks at.

### Investments

`Inv` has who holds which row (`Holders`) and what each request knows under its locks (`Knows`): a sale past its
check finds at its commit at least the shares it counted.  `LedgerIsTruth` is part of it.  `Replay` is a fold
over a set, played in the order of dates: the trades left after the latest is taken out are played first, which
determines the result and its number of shares (`FoldExists`, `ReplayIs`).  `HoldersSerialize` follows a circle
of waiting requests from lock to lock and meets both orders.

### Projection

`WindowsShowTheSame` says when a template falls due on a day without reference to a window (`Hits`) and shows
that a window selects the days within it; months are in order and without gaps (`FirstOf` is a sum of lengths).
For the two theorems on amounts, each of the sums over a set that changes is written as a sum over all rows in
which those outside the set count nothing, so that a step changes one summand; the rest (`Earnings`) is the same
before and after.

### Submissions

That rows carry different keys says nothing about openings.  `OwnWork` adds what ties them together (`Keyed`): a
key is used only by openings that exist and never before it is drawn, no two forms hold the same one, an opening
of a lasting form in which it did not begin anew uses one key, the one its form holds, and a key that is not
kept is used by one opening.  Then two rows of one opening have one key, so they are one row (`RowPerKey`).
`Backed` says that a call past its transaction has its row, which is what a success that is told rests on.  The
limit needs only that the calls past the check are slots and that each adds at most one attempt.

### Only model-checked

Every invariant was first checked by TLC on the instances above.  These stay with TLC: the liveness properties
(`RequestsTerminate` of the ledger and the investments, `ReconciliationRepairs`, `EventuallyReconciled` of the
savings, `CalendarFilled`), which are out of the prover's reach; the salary in `PlanKept`, which is false for
some salaries; and the four runs that end in a violation.  `InterestPart` and `Portion` have the lemmas on
rounding that the schedule needs, not the size of each interest portion.

## Findings

Each is a run that TLC must find violated.

- `loans_extra_payment`: an installment paid in part still asks for some principal.  When an extra payment
  leaves some debt, but less than that, `regenerateFutureSchedule` clamps the difference at zero
  (`services/loan.service.ts:1109`), removes all untouched rows and keeps the row as it is: the schedule asks
  for 2 of a debt of 1, against the invariant that the comment at `:1084` states.  (When nothing is left, the
  function is not reached, and the row that stays is meant to stay: `:1222`.)
- `investments_average`: after an edit or a reversal the average cost of a share is a hundred times too large,
  because `recomputeHoldingFromLedger` gives an amount that is in cents already to `decimalToCents`.
- `projection_salary`: a salary is paid on the 10th and the 25th.  On the 10th it is booked and matched with its
  own pay date; on the 11th only the 25th is left, 15 days away, and counts as received: the projection of the
  month lacks a salary.
- `submissions_refresh`: a payment form is opened, closed and opened again, and a payment of part of an
  installment submitted.  Then the page that the close asked for arrives
  (`components/loans/LoanDetailPanel.tsx:58`): the effect draws another key and lets the form be submitted again
  while the first call is under way (`components/loans/RegisterPaymentModal.tsx:72-89`).  Both calls are booked,
  though `:74` says that retries inside the same opening reuse the key.

Seen in runs that are not kept, to leave room.  Ledger: two transfers into the same account leave its cache
wrong (`transfer.actions.ts:309`); deleting one movement of a transfer leaves the other
(`transaction.actions.ts:516`), and editing one can change its sign, which `transaction.schema.ts:61` rules out;
two expenses of the whole balance at once both pass (`transaction.actions.ts:73`); an income can be edited down
after it was spent (`:785`); two payments of a card's whole debt from different accounts both pass, because the
card is not locked (`credit-card.actions.ts:582`); a movement of a deleted account can still be deleted; a
transfer can be reversed any number of times.  Savings: two pages that correct a goal, and a contribution
between them: the condition of the second update is met again, and the increment is overwritten
(`savings.service.ts:216`); a goal is deleted between the check that nothing is saved in it and the update,
while a contribution commits (`savings.actions.ts:232`); the target of a goal can be set below its amount by an
edit that races a contribution.  Fixed expenses: a page reads a template, the template is deleted, the month
turns, and the page writes a pending bill of the deleted template (`fixed-expense.service.ts:237`); an edit that
overlaps another one can leave the template with one amount and its bills with the other
(`fixed-expense.actions.ts:158`); the currency is edited between the check of a payment and its commit, so that
the paid bill and its transaction are in two currencies; an edit that moves the due dates writes over the amount
of a bill that a page inserted in between, even if it has been paid; deleting the transaction of a paid bill
leaves it paid, and editing its amount leaves the bill with the old one, because `updateTransaction` guards only
investments and savings (`transaction.actions.ts:737`, `:746`); such an edit checks the funds before it waits
for the account (`:778`), so that a payment in between can leave the account overdrawn.  Loans: a page reads the
loan, its rows and its adjustments one after another and may write a cache that was exact wrong
(`loan.service.ts:388`).  Projection: a bonus counts as still to come on the whole day on which it is paid, so
it counts twice once it is booked.  Forms: after a lost answer, forms that draw a key for every submit book a
second time (`DepositModal.tsx:107`, `WithdrawModal.tsx:108`, `TransferModal.tsx:228`,
`CreateTransactionModal.tsx:484`); a form that keeps its key is told of a success when it was the earlier
opening that was booked (`RegisterVariableExpenseModal.tsx:135` with `transaction.actions.ts:195`);
`TransferModal.tsx:226` stays waiting when the call throws; and `rate-limit.service.ts:161` says that all
attempts are counted, while the actions record only those that succeed.  Read, not run: the statement period of
a card that is cut on a day its month lacks is not clamped (`credit-card.actions.ts:119`; a test expects the
rollover), so that on the 1st of March the current period of a card cut on the 31st begins on the 3rd.

## Not modelled, and why

Reads that only show something; input validation beyond what `WellFormed`, `Request` and `Contract` keep of it;
prices and exchange rates that come from outside (a deposit converts at one constant rate, the projection at one
per currency); audit logs and cache revalidation, which follow the commit and are not read back; ownership
checks, because all requests are of one user who owns what it names; `updateBankAccount` (presentation) and
`updateCreditCard`, whose change of a limit would make `CreditLimit` a variable; the limits of login and
registration; the summaries of savings and fixed expenses and the cards and charts of the dashboard, which sum
rows; the conversion of a yearly, nominal or daily rate into a rate per period (`lib/loans/interest.ts`), which
needs roots of decimals; edits and deletions of the transaction of a loan payment, which leave loan, installment
and payment as they are and touch only the money of an account; changes of a paying transaction's date, category
or text; the seed data, the translations and all markup.
