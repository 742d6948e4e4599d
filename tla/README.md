# StepFi API: a TLA+ model

StepFi is a "buy now, pay later" backend for learners on Stellar/Soroban: a
NestJS service over a Supabase (Postgres) database, Redis, Horizon and Soroban
RPC. The API never holds keys: it builds unsigned transactions, a client signs
them and hands them back, and everything the service later says about loans,
payments and reputation is what it has learned from Horizon or from contract
events. What makes it hard is that every handler and every cron job is a
sequence of independent calls. There are no database transactions; consistency
rests on a few unique indexes, on conditional UPDATEs where somebody thought of
them, and on in-process flags (`isRunning`). These modules model those
sequences call by call and say what survives interleavings, failing calls, lost
answers and crashes.

## 1. Inventory

### The parts, their state and how they interact

| Part | State | Operations | Talks to |
|---|---|---|---|
| Transactions (`modules/transactions`) | `transactions` rows, Redis `transactions:status:*` (no expiry) | submit, status | Horizon, database, Redis |
| Status checker (`jobs/transaction-status-checker`) | `isRunning`; writes `transactions`, `loans`, `notifications` | cycle every 120 s: oldest 100 pending rows, look-up, conditional finalize, follow-up on the loan, notification, seven-day clean-up | Horizon, database |
| State reconciliation (`jobs/state-reconciliation`) | snapshots per run | every 15 min: loans, transactions (backfill, orphan sweep), liquidity, reputation against the indexed events, each step ending the run if it fails | database |
| Indexer (`indexer`) | `indexer_state` cursors, `loan_index`, `payment_index`, `reputation_history`, `reputation_cache`, `isRunning` | cycle every 60 s for two contracts: cursor, newest ledger, fast-forward, one page of events, persist, save the cursor; range recovery | Soroban RPC, database |
| Authentication (`modules/auth`) | `nonces`, `sessions` | nonce, verify with four signature schemes, refresh with rotation and replay handling; two clean-up crons | database |
| Accounts (`auth.service` register, `users`) | `users`, `user_preferences`, avatars in the storage | register with its compensation, first login, profile, preferences | database, storage |
| User status and roles (`user-status.service`, guards, `users`, `admin`) | 30 s in-process cache per instance | look-up on every request, set role once, force role, invalidate | database |
| API keys (`api-key.guard`, `vendors`) | `api_keys`, cached record, negative entries, counters | guard, issue, revoke | database, cache |
| Vendors and products | `vendors`, `vendor_products` | register, products, admin actions | database |
| Loans and credit scoring | `loans` | quote, create (`pending` / `under_review`), assess, repayment transaction, lists | reputation, contracts, database |
| Reputation | Redis, `reputation_cache` (60 min) | read through Redis, database, contract; persist | contracts, database |
| Liquidity and sponsors | `sponsor_pools`, `liquidity_positions`, cached summaries and overview; the pool itself is a contract | deposit, withdraw, quotes, figures, registration | contracts, database |
| Learners | `learner_profiles` | upsert of the profile, completion status | database |
| Vouching | `vouches` | request, approve, revoke | database |
| Reminders and notifications | `notifications`, `isRunning` | daily: one reminder per loan, type and day; mark as read | database |
| Administration, audit | the log | one INSERT | database |
| Stellar clients, health, metrics, configuration, MCP server | none of their own | I/O and wiring | network |

The parts share tables rather than call one another. `transactions` has four
writers: submit, status, checker, sweep, of which only the checker's UPDATE is
conditional. `loans` is written by createLoan, assessLoan, the checker's
follow-ups and the reconciliation; `reputation_cache` by the reputation
service, the indexer and the reconciliation; `users` by registration, login,
profile and role routes.

### Behaviours that are hard, and what correctness means

* **Transactions.** Two requests with one hash; a status request, the checker,
  the sweep and a failing submit resolving the same row; a Horizon answer that
  is lost; a crash between resolving a row and its follow-up. Correct: a
  transaction is submitted once and acts on its loan once per recording; what
  the API says for good is what the ledger says; a landed transaction gets
  resolved; balances account for every repayment.
* **Sessions and logins.** A refresh is a DELETE, a user look-up and an INSERT.
  Replays, revocations, clean-ups and other refreshes fall in between; refresh
  tokens carry no unique id, only the second they were signed in. Correct: a
  nonce opens one session and its signature is good for nothing else; a revoked
  family stays without sessions; a client that uses every token once is never
  signed out as a thief.
* **Indexer.** Events are persisted one call at a time and the cursor only
  after the page; the cursor may be fast-forwarded, recovered or unreadable;
  pages are cut at 100 events. Correct: nothing that the cursor has passed is
  missing without a reason, and a loan's status follows from its payments
  however often events are read again.
* **Caches** (user status, API keys, reputation). Values read before an await
  and stored after an invalidation. Correct: staleness is bounded, a revoked
  key stays refused, and the caches come back to the contract's score.
* **Loan book.** Four writers of one row, provisional ids, an assessment that
  is overtaken by an activation. Correct: a loan keeps its row, a decided loan
  is not reopened, balances only fall, the book follows the index.
* **Pool.** Figures read one by one while the pool moves, a fee that is read
  apart from them and counts as 0 if that fails, answers that are given again
  from the cache. Correct: as long as the pool stands still, what is shown of a
  withdrawal, a summary and an overview is the pool's; no deposit gains by
  rounding.
* **Accounts, vouches, profiles, reminders.** Check-then-act over several
  awaits and a compensation by hand. Correct: a failed registration leaves
  nothing behind; one active vouch per pair; `profile_complete` is what the
  row says; one reminder per day.

PROJECT.json lists each hazard at the line where it bites, with the properties
that cover it. One has none: the orphan sweep fails every pending row of thirty
minutes while nothing is indexed, and is never reached once something is
(section 5).

## 2. Modules

| Module | Contents |
|---|---|
| `TransactionPromise` | abstract specification: what the backend promises about a recorded transaction |
| `TransactionLifecycle` | submit, status, checker, orphan sweep, network, time, crashes |
| `Admission` | which XDRs are recorded, and what the checker takes them for afterwards |
| `StaleRegister` | abstract specification: a register whose readers see a value of the last `Bound` seconds |
| `Access` | user status and role, both instances of the cache, the guards, role choice, reset, block, restart |
| `Sessions` | nonce issue and claim, token generation, rotation, replay handling, clean-ups, time, crashes |
| `Challenge` | what a wallet signs, and the four schemes by which it is checked |
| `IndexedLoans` | abstract specification: what the index promises about loans and their payments |
| `Indexer` | a cycle for both contracts, cursor, page, event persistence, ledgers, crashes |
| `CreditTerms` | credit tiers, decision, terms and schedule of a loan, in cents |
| `LoanBook` (extends `CreditTerms`) | the loans of a wallet: create, assess, repay, follow-ups, reconciliation |
| `Quotes` (extends `CreditTerms`) | the answers to applications |
| `Vendors` | registration, products, admin actions, API keys and their guard |
| `Pool` | the liquidity pool's figures and quotes over both contract clients |
| `Standing` | a score in Redis, row and contract, with its writers; the order of a reconciliation run's steps |
| `Accounts` | registration with its clean-up, logins, profile, preferences, avatars |
| `Learners` | learner profile and sponsor registration |
| `Vouching` | request, approval, revocation |
| `Reminders` | the daily reminders of several processes |
| `MCTransactionLifecycle`, `MCAccess`, `MCSessions`, `MCIndexer`, `MCLoanBook`, `MCVendors`, `MCStanding` | instances and symmetry for TLC |
| `MCServices` | `Accounts`, `Learners`, `Vouching`, `Reminders`, `Challenge`, `Admission`, `Quotes` and `Pool` side by side |
| `Sums` | lemmas about sums over finite sets |
| `TransactionLifecycleProofs`, `AccessProofs`, `SessionsProofs`, `IndexerProofs`, `LoanBookProofs`, `VendorsProofs`, `ServicesProofs` | the theorems |

Three modules are shown to implement an abstract specification by an INSTANCE
with a refinement mapping: `TransactionLifecycle` implements
`TransactionPromise` (`PromiseKept`), `Access` implements `StaleRegister`
(`StalenessBounded`), `Indexer` implements `IndexedLoans` (`IndexKept`).
`MCServices` composes eight services that share no table with one another: a
behaviour chooses one (`service`, out of those that the instance is about,
`Exercised`) and exercises it, the others keep their initial state, so that it
is the sum of their behaviours.

### How the models correspond to the code

Node runs one callback at a time, so code between two awaits is atomic, and
every await is a point where other handlers run. Each handler is therefore a
small program counter (`subPc`, `chkPc`, `req[s].pc`, `cyc.pc`, `call[c].at`),
and each database, cache, Horizon or RPC call is an action named after the
function that makes it. An early return, an error branch and a call whose
result the code ignores are disjuncts or actions of their own.

*TransactionLifecycle.* `row`, `loan`, `cache` and `notices` are the tables and
the Redis entry; `ledger` and `flying` are the network. The order of
`submitted_at` is `older`; the 30 minutes and 7 days that the code compares
with are the age classes of a row. `recorded`, `submitted`, `applied` are
history. Rows are updated by hash without a condition, except in
`CycleFinalize` (`WHERE status = 'pending'`). Horizon accepts, rejects or
stays silent; a silent submission may have reached a validator, and depending
on the error's wording the code leaves the row (`timeout`, `network`) or marks
it failed (anything else).

*Admission.* An XDR is a sequence of operations with function, contract and
source, perhaps inside a fee bump. `record` holds what passed; the checker's
reading of the same XDR is a separate operator, and the property relates them.

*Access.* One wallet. `user` is the row in `users`, `cache` the Maps of
AuthModule's and AdminModule's instances of UserStatusService, `past` the
values of the last seconds. A look-up is started, is answered with the row as it
was up to `Latency` seconds ago, and stored; a failing one stores the default.

*Sessions.* One wallet; `sessions` is a set of rows with an id, because the
table has no unique index on the token's hash; a token is its family and its
second of signing. `.single()` is an error for no row and for several, and the
code takes both for a replay. The DELETE of a rotation looks at neither its
count nor its error. The histories `held`, `unspent`, `replayed` say which
copies of which tokens the client has presented; `disturbed` and `contained`
mark families that met a fault, and families that were revoked while none of
their rotations was under way.

*Challenge.* The clock runs in fractions of a second, since a nonce expires to
the millisecond and a signed transaction to the second. What is signed is a
record of the nonce, domain and network that the scheme binds.

*Indexer.* What the contracts emit is chosen in `Init` from `Chains` and
revealed as ledgers close: an immutable log with a read position. `Heal`,
`Recover`, `Page` and the skipping of failed events record in `jumped`, `cut`
and `skipped` why an event that the cursor has passed is not in its table. The
parser appears as the kinds of events: `"undated"` is a LOAN_CREATED whose due
date does not decode (its row violates `due_date NOT NULL`), `"other"` is
anything that the parser returns null for.

*CreditTerms, LoanBook, Quotes.* Amounts are cents. The code's floating-point
product before a floor may lose a cent, hence the slack of 0 or 1. In `LoanBook`
(one wallet) `book` is the table, `index` the loans that reached the contract;
both are functions of `Row`, for a loan of the contract is named by the row that
it was asked for in, and what the reconciliation writes is compared with that. A run of the reconciliation
keeps what it read at its start and may fail at each call. Creating a loan is
one step, for the score that it reads is only used at once.

*Vendors.* Every call may fail and every cache entry may vanish at any time: the
code passes seconds where the cache expects milliseconds, so an entry may be
gone before the next await. `readable` says whether the deployment lets the
anonymous client read the tables: the migrations enable row-level security and
define no policies.

*Pool.* One call at a time, for calls share nothing but the pool and the cached
answers; transactions land between the simulated contract calls (`moved`). Which
methods the contract has is chosen freely, and computed figures stand in for
the others; `blind` says which error was counted as a 0. The fee
(`getWithdrawalFeeBps`) is a reading of its own, after those of
`get_pool_stats` and along with the granular ones. The conversion of a deposit
does not wait for the other figures (`Converts`), that of a withdrawal does.
The answer of `getInvestmentSummary` and `getPoolOverview` may stay in the cache
while any number of transactions land (`"kept"`), and be given again
(`CacheHit`); whether the entry is still there is left open. (A hit before
anything has landed repeats the answer just given.) What the contract pays,
mints and charges is external: amounts in proportion, and a fee in basis points.

*Standing.* `chain`, `event`, `newest`, `index` are a score's way through the
contract and the indexer, `row` and `hot` the two caches, `sweep` a run of the
reconciliation. `hashes` says whether the index holds anything that
`authoritative-state.reader.ts:85` collects as a transaction's hash: loans,
payments and scores of any wallet do. A run that has read such a hash ends in
`SweepTransactions`, one that has not goes on to the scores. What
`reconcileLoans` does before is in `LoanBook`.

*Accounts, Learners, Vouching, Reminders.* One row of each table (pairs for the
vouches), the calls in progress, and histories of what made a guarantee
impossible: a lost answer or failed clean-up (`mishap`), an update from an
outdated reading (`torn`), crossing requests (`crossed`), a vouch revoked while
an approval is under way (`overtaken`), a failed duplicate check (`doubtful`).

`TransactionLifecycle`, `Indexer`, `LoanBook` and `Standing` assume one process
of the API, as the overlap guards (`isRunning`) are variables of a process:
with two, the checker's cycles would overlap and
`BalanceAccountsForRepayments` would fail, as the mutant of `MayStart` shows.
`Reminders` models several. The database, Redis and the network outlive a
crash; locals, guards and running requests do not.

Data is abstracted throughout: XDR encoding, signatures, message wording and
response layout are left out.

## 3. Runs

| Run | Question | Bounds |
|---|---|---|
| `tx_safety` | follow-ups, submissions and balances under the row's writers; refinement of the promise | two repayments of one loan, two submits at a time and two in all, two overlapping ticks, batch of two, one crash |
| `tx_answers` | is what the API says for good what the ledger says | one creation, two submits and a status request at a time, three submits in all, two ticks, one crash |
| `tx_settles` | does a landed transaction get resolved | a creation and another transaction, batch of one, fairness |
| `access_safety` | staleness, admission, role choice; refinement of the register | one role, two requests, TTL and latency of one second, two changes of the row, one fault |
| `sess_safety` | nonces, families and honest clients | two nonces, two families, two requests at a time, two seconds, two refreshes, one fault |
| `idx_safety` | completeness and statuses of the index; refinement of the index's promise | five ledgers, pages of two, two ledgers retained, two faults, four histories |
| `book_follows` | ids, reopened decisions, balances, convergence to the index | two rows of different amounts out of three, one request at a time, scores 0 and 75 |
| `vendor_keys` | revocation, request limit, registration | two wallets, one key, one product, two calls, limit of two |
| `standing_settles` | does what is served come back to the contract's score | two scores, two reads at a time, fairness |
| `standing_repairs` | does the reconciliation repair a stale row (it does not) | two scores, one read at a time, fairness |
| `services` | the properties of seven services | two calls at a time, two avatars, three vouches of one pair, three days, two nonces, transactions of two operations; amounts and scores on and around every limit, six terms |
| `pool` | is what is shown of the pool what is there; does a deposit gain | up to three units, a fee of a half, one transaction during a call, any number while an answer is cached |

All of them pass but `standing_repairs`, in which TLC finds the promise of
`progress-tracker.md:152` ("repairs stale database state") broken: see section
5. Why the bounds are enough. In `tx_safety` two submits and a
second tick are the smallest instance in which two handlers resolve one row,
two repayments are needed for a balance to be written over, and the crash may
fall at any await; `tx_answers` has the third submit that records a hash again
after its clean-up and the status request, which never touches a loan. In
`tx_settles` a batch of one makes an older row keep a younger one waiting. In
`access_safety` a second request's look-up crosses the first one's, and two
writes let a value change and change back within a TTL. In `sess_safety` two
families show that a revocation of one leaves the other alone, one second of
clock gives both same-second and distinct tokens, and two refreshes at a time
allow a replay, a revocation and a late insert. In `idx_safety` a page of two
is smaller than a burst of three events, two retained ledgers are fewer than
the five that close, so that fast-forward (retention 2, catch-up 1) and range
recovery both happen, and two faults allow a crash and a failing call while the
page is read again. In `book_follows` two rows can be confused by the matching,
one request overlaps with the run, the follow-ups and the chain, and of the
three amounts two are approved at the better score and one is reviewed; rows are
alike, so the constraint `InOrder` keeps one order of the amounts, and leaves out
two loans of one amount, of which three of the four properties say nothing. In
`vendor_keys` two requests suffice to lose a count and to carry a revoked
record past its deletion. In `services` two calls are the pair
that each check-then-act needs, a third vouch the one made after a revocation,
two days a reminder at three days and at one; the amounts lie on both sides of
every tier's limit and include some that neither 80 % nor the term divides. In
`pool` three units of liquidity give quotients that do not divide, an empty
pool, and a pool with liquidity but without shares, while the smallest deposit
of one unit can still round to no share, and half of an odd amount is a fee that
is rounded; one transaction may fall between any two readings. In
`standing_settles` two reads overtake each other and the indexer, and two scores
are an old and a new one; `standing_repairs` needs only one read, for it is no
read that keeps the row from being repaired. The theorems below remove the
bounds where there is one.

`sess_safety`, `services` and `pool` do not check deadlock (`CHECK_DEADLOCK FALSE`):
clock, requests, families, records and rows are bounded, so behaviours end. The
others check it.

The properties say, in short:

* `AppliedOncePerRecording`, `SubmittedOncePerRecording`,
  `AnswersMatchLedger`, `BalanceAccountsForRepayments`, `LandedRowSettles`, and
  `PromiseKept`, the refinement of `TransactionPromise`. `row = failed` is
  *not* promised to mean that the ledger says so.
* `FollowUpIsDeclared`: a transaction that the checker follows up on is one
  that was admitted as what it is taken for.
* `InvalidationTakesEffect` (when no look-up is under way), `RoleChosenOnce`,
  `AdmittedRightly`, and `StalenessBounded`, the refinement of `StaleRegister`.
* `NonceSucceedsOnce`, `HonestClientKeepsSession`, `RevokedFamilyStaysEmpty`
  (for families revoked while none of their rotations was running),
  `AcceptedIsBound`, `FreshIsAccepted`.
* `EventsAccountedFor` (nothing below the cursor is missing without an entry
  in the log), `PaidIsCovered` and `CoveredIsPaid` (a loan is paid in the
  index exactly when its indexed payments cover it; the second direction for
  loans that met no failure and no default), and `IndexKept`, the refinement of
  `IndexedLoans`.
* `RowsKeepTheirLoan` (while amounts tell the loans apart),
  `ReopenedByOvertaken` (a decided loan is reopened only by an assessment that
  was overtaken), `PreviewHolds`, `BookFollowsIndex`.
* `ScheduleRepaysLoan`, `NextPaymentIsPayable`, `ScreensAgree`.
* `RevokedIsRefused` (once no request carries the record), `LimitWithoutOverlap`,
  `ConflictIsAnswered`.
* `QuoteIsExact` (as long as no transaction has landed since the first reading;
  but for the very figure that an error was counted as 0 for),
  `DepositNeverGains`.
* `ScoreConverges` (of what is served: Redis, and the row for an hour). And
  `StaleRowIsRepaired`, which the code does not keep.
* `NothingLeftBehind`, `CompleteFlagRight`, `OneActiveVouch`,
  `RevokedStaysRevoked`, `ReminderOnceADay`.

Fairness, and why the code justifies it:

* `TransactionLifecycle!FairSpec`: weak fairness of the checker's next step (the
  cron keeps ticking and a started cycle gets to its next call) and strong
  fairness of each of its calls: the fetch, the look-up of each hash, the
  UPDATE, the reading and the writing of the loan (a call that is made in cycle
  after cycle succeeds some time; the code retries three times per cycle and
  again in every cycle). Clients, the network and the sweep owe nothing.
  `LandedRowSettles` promises only rows with fewer than `BatchLimit` older
  pending rows: the checker takes the oldest 100, and rows that never land and
  are never swept can fill the batch for ever.
* `LoanBook!Spec`: weak fairness of the reconciliation's next step, a cron
  without conditions. `BookFollowsIndex` has the premise that its runs fail
  only finitely often.
* `Standing!Spec`: weak fairness of the indexer's steps, of the expiry in Redis,
  of the row's ageing, of the sweep's next step, and of a read that was begun.
  The premise `Quiet` says that the contract changes and its calls fail only
  finitely often. `ScoreConverges` asks nothing of the reconciliation.
  `StaleRowIsRepaired` has the further premises that the indexer has seen the
  wallet's score and that a run ends early only where its own steps end it; it
  fails for `SweepTransactions` ends every run that has read an indexed hash.

## 4. Proofs

All theorems hold for every value of the constants, from the named assumptions
in the modules; bounds on requests, crashes and faults are arbitrary. All safety
invariants, action properties and refinements that the runs check are proved;
what TLC alone shows is liveness. The theorems named `TypeCorrect` (and the `Type`
lemmas of ServicesProofs) are the type invariants, which the runs need not repeat.

*TransactionLifecycleProofs.* `SafeInv` is inductive: at most one cycle is
active (`Alone`); the request that passed the unique index owns the right to
submit (`SubmitOwnsRow`), which gives `SubmittedOnce`; every verdict that a
handler still carries is the ledger's (`LocalsMatchLedger`), which gives
`AnswersTrue`; and a cycle that is about to apply a follow-up has one more
recording than applications (`FollowUpIsDue`), which gives `FollowUpOnce`. None
of the properties is inductive by itself: a row may be deleted and recorded
again while handlers still hold its hash. `KeepsPromise` maps each step to a
step of `TransactionPromise` or a stutter, using `SafeInv` on both sides.

`BalanceRight` proves `BalanceAccountsForRepayments`. Its invariant
(`BalanceInv`) joins `Alone` and `ActsAsCalled`: a balance that a cycle has read
is still the loan's balance when the cycle writes it, since no other cycle is
active and no other handler writes it, and the amount it takes off is the one of
the hash that is counted as applied by that same step.

*AccessProofs.* `SafeInv` joins to the types that the present value is in the
register's past, that an answer on its way is not older than `Latency`, that a
cache entry is not older than its age plus `Latency`, `InvalidationTakesEffect`,
and that a role is chosen only where there was none. `Staleness` adds a view
invariant and maps each step to a step of `StaleRegister`; `Admission` is about
the step that admits a request.

*SessionsProofs.* `SafeInv` strengthens the three properties by: a nonce that
is not used yet has not been verified (`NonceInv`); whatever mentions a family
mentions one that a login has drawn, so a fresh family is fresh everywhere
(`OpenedInv`); row ids are unique and the id by which a rotation deletes belongs
to its own family (`IdInv`); a family revoked in peace has neither a session nor
a rotation under way (`ContainedInv`); and of an undisturbed family no token of
which was replayed, either one request holds the token or the client has
exactly one, whose row is the only one (`HonestInv`).
`TypeCorrect`, `NonceOnce`, `RevokedEmpty` and `HonestKeeps` follow.

*IndexerProofs.* `TypeCorrect` rests on a local invariant of the cycle
(`CycleOK`), notably that a heal starts below the retention buffer, which keeps
cursors non-negative because the catch-up buffer is not larger.
`NothingLost` proves `EventsAccountedFor` from `AccountInv`: events below the
cursor, below the start ledger of a running cycle, and below whatever the
cursor will become are accounted for, the last except for the rest of the page.
`CoveredPaid` proves `CoveredIsPaid`: the sum is taken over the payments as
they are when the status is written (`RowsRead`), and a loan has its row
before its first repayment is looked at, since events are persisted in the
order of their ids and its creation is accounted for. `PaidCovered` needs the
same `RowsRead` and nothing else (`CoverInv`): payments are only ever added
(`TablesGrow`), so a sum that covers a loan goes on covering it. `PaidStays` (a
paid loan stays paid unless it defaults) follows, since a status that is decided
again is decided from a larger sum, and a creation that is read again leaves
the row. `KeepsIndex` maps each step to a
step of `IndexedLoans` or a stutter: an insert is `Enter`, the update after the
sum is `Settle`, because with `RowsRead` the sum taken one await earlier is the
sum of the table.

*LoanBookProofs.* `TypeInv` and `RunInv` (what a run read is still there: rows
are never deleted) give `TypeCorrect`, with the uniqueness of `loan_id`:
`NameInv` says that provisional names, names that a run has seen and names that
it is about to write do not collide, although the check and the write are two
calls. Every step creates a row, resolves one, writes an id, or keeps what a
decision is about (`StepKinds`); `DecidedStays` and `PreviewTheorem` follow from
it. `LoansKeepTheirRow` needs that amounts tell the loans apart
(`ToldApart`) for as long as a run uses what it read.

*VendorsProofs.* `Conflicts` needs only types and the unique index.
`RevocationHolds`: a revoked key that is clean (inactive, no record in the
cache, no request that carries one) stays clean (`CleanInv`). `LimitHolds`: in
a window without overlap the number passed is the counter, and of the requests
that count at most one is between its read and its write (`RateInv`).

*ServicesProofs.* `ServicesAlone`: every behaviour of `MCServices` is one of each
service's own specification, since a step of one leaves the others alone. Each
service is then proved about with its own invariant.

- *Learners* (`CompleteFlag`): an update that is not torn writes the flag from
  the very row that it was computed from.
- *Challenge* (`Bound`, `Fresh`): every stored nonce is an answer that some
  deployed configuration gave (`ChallengeInv`), from which each scheme recovers
  what it binds (SHA-256 is taken to be free of collisions).
- *Admission* (`FollowUp`): what is recorded passed the allowlist and was
  authorized by the wallet (`AdmissionInv`), for transactions of any length.
- *Reminders* (`OnceADay`): a process that is about to insert what was sent
  today, or what another one is about to insert, is in doubt about its check.
- *Vouching* (`OneActive`, `RevokedStays`): `PairOK` counts, for pairs whose
  requests never overlapped, rows and requests that may still make one.
- *Quotes* (`Repays`, `Payable`, `Screens`): a quote is one that some admissible
  application gets (`QuotesInv`); its schedule adds up because all payments but
  the last are the monthly one, and the last is the monthly one and at most one cent
  per month more. `QuotesAssumption` (at least 100 cents, one to
  twelve months) is what `loan-quote-request.dto.ts:16` and `:34` validate.
- *Accounts* (`Registrations`): unless something happened that the code cannot
  take back (`mishap`), a registered row has a success or a call in progress that
  answers for it, and a stored file has exactly one owner, the row or such a call
  (`Accounted`).
- *Pool* (`QuoteTheorem`, `DepositTheorem`): as long as nothing has moved, every
  figure that a call holds is the pool's, or the 0 that an error left in its
  place (`Figures`); nothing is decided before it has been read (`Decided`); and
  what is decided follows from the figures (`Withdrawal`, `Summary`, `Minting`).
  Of an answer that lies in the cache the invariant keeps only that the pool has
  moved. That a deposit is never worth more than was paid is then arithmetic
  about quotients (`MintedInProportion`, `NoGain`). No bound on the pool is used.

*Sums.* The models sum with `MapThenSumSet`, a recursive function over subsets.
The library's induction theorems cannot be applied with the provers at hand, so
the lemmas go through a smallest counterexample instead: the strict subsets of a
finite set are well-founded, hence among the subsets for which two sums differ
some are smallest, and taking one element off such a set gives the
contradiction. That the recursive function exists at all (`SumsExist`) is shown
in the same way. `TotalOfOneMore`, `TotalGrows` and `TotalOfChange` are what the
proofs about payments and repayments cite. They need finite sets: `Hash` is
finite by assumption, as is the set of events of a history. A behaviour sees
finitely many of either at any moment, for a table has finitely many rows.

Only model-checked: `LandedRowSettles`, `BookFollowsIndex` and `ScoreConverges`,
which are liveness properties under fairness. `Standing` has no other property,
hence no theorem.

## 5. What the code does that its readers may not expect

Each property is as strong as the code allows. What it excludes is here, with
the lines.

*Transactions.*
- The seven-day clean-up forgets hashes; afterwards a hash can be recorded,
  submitted and applied once more (`transaction-status-checker.service.ts:648`).
- The reconciliation takes the ids of events (`event-parser.service.ts:51`) for
  transaction hashes. As long as nothing is indexed, every pending row older than
  thirty minutes is failed; `progress-tracker.md:153` calls these rows orphaned.
  Once a loan, a payment or a score is indexed, every run calls `backfill` for
  it, whose upsert names `transaction_hash` (`transactions.repository.ts:60`)
  while the table has only a partial unique index on it (migration
  `20260825000001`, line 25). Postgres refuses the statement (42P10), and the
  run is over (`state-reconciliation.processor.ts:139`): the orphan sweep, the
  liquidity positions and the scores never come to their turn. Only the loans,
  which come first, are still reconciled. A stale row of `reputation_cache`
  stays; `vouching.service.ts:265` reads it whatever its age (the run
  `standing_repairs`).
- A submission whose answer is lost with an error other than a timeout or a
  network error is marked failed and may still land.
- A status request that comes before the checker resolves the row, and then
  nobody runs the follow-up: the loan is never activated.
- Repayments that the API builds call `repay_installment`; the checker's parser
  knows `repay_loan` only. It activates a loan for either creating function and
  looks at neither the contract nor the source.
- A follow-up that fails is not repeated, and the notification says it happened.
- `collectAuthorizedAddresses` looks for authorizations among the attributes of
  the host function, while the SDK keeps them with the operation: only the
  source counts.

*Accounts and sessions.*
- A rotation under way when its family is revoked stores its session
  afterwards. Any error of the look-up in a refresh counts as theft.
- The `sep0010` scheme does not check the domain, although the comment at
  `auth.service.ts:184` says that every canonical scheme does; its transaction
  expires at the whole second below the nonce's time.
- A wallet that logged in before it registered can never register (409). A
  compensation deletes the row with the preferences and sessions of other logins,
  and leaves the row that a login put into `learner_profiles`. `updateProfile`
  leaves the old avatar. Two avatars of one millisecond share a name.
- If the relation `user_preferences` is answered as an object,
  `GET /users/me` fails once preferences exist (`users.repository.ts:73`).
- A role reset invalidates the instance of AdminModule, not the one that the
  guards ask (`admin-roles.controller.ts:38`, `admin.module.ts:12`,
  `auth.module.ts:27`). The documented bound of thirty seconds is the TTL plus
  one look-up. RolesGuard does not look at the status; nothing in the code sets it.

*Vendors.*
- A request that carries the record over a revocation puts it back; "within one
  TTL" (`vendors.service.ts:671`) is not guaranteed. TTLs are seconds passed as
  milliseconds. No controller uses the guard. `vendors.status` and `verified`
  are written by nothing.
- Without policies for row-level security the anonymous client sees no rows:
  a second registration then ends in 500, not 409.

*Loans.*
- A loan that is approved after review never gets a transaction. A matched row
  stays a candidate; rejected rows and rows under review are candidates, too.
  An unrelated loan on the chain is written over the wallet's only provisional
  row. An amount whose 80 % is no whole cent does not fit its own loan
  (`state-reconciliation.processor.ts:116`).
- The reconciliation writes `paid`, which the filter of `getMyLoans` does not
  know. `next_payment_due` is written once and never advanced
  (`loans.service.ts:156`), so overdue reminders come daily until the loan is
  no longer active; `loan_payments` is never written, so the next payment is
  always the first of the schedule.
- The assessment counts active loans only: several may be made before the
  first is active.

*Reputation, pool, others.*
- A wallet whose score the indexer never saw keeps the 0 of a failed call for an
  hour. `invalidateReputation` has no caller.
- A HostError of `getLpShares` counts as no shares. Any error of the three
  methods for the withdrawal fee counts as a fee of 0, and the whole amount is
  shown as the net one (`liquidity-contract.client.ts:345`). A summary and an
  overview are given again from the cache after the pool has moved, and an
  overview whose figures could not be read is one of zeros that is kept as well
  (`liquidity.service.ts:160`). Its TTL of 60 is handed to the cache as
  milliseconds. A deposit into a pool with
  liquidity but without shares gains (the premise of `DepositNeverGains`).
  `sponsors.getPool` mixes loans of the database with liquidity of the chain:
  a utilization above 100 % is possible. `sponsor_pools` totals and
  `investments_index` are written by nothing; `liquidity_positions` has no
  unique index on the wallet.
- Events beyond a page of 100 are never read. A recovery may set the cursor to a
  ledger that a server with a short window has dropped a minute later. A loan
  default that is read twice outlives the repayment between them:
  `persistLoanDefaulted` has no check for duplicates.
- `upsertProfile` writes back the onboarding date that it read earlier
  (`learners.service.ts:100`), over one that another update has set since.
- `expires_at` of a vouch is enforced by nothing; two pending vouches make the
  approval fail. Two concurrent `markAsRead` both answer 1.
- Reminders are sent only exactly three and one days before; a loan may have
  been paid since the run read it.

## 6. Not modelled, and the plan

Out of scope: XDR and Soroban value decoding, signature arithmetic, Horizon and
RPC clients, health, metrics, configuration, filters, the MCP server (I/O and
wiring); the audit log (one INSERT); lists, dashboards and statistics, which
read and promise nothing over time; the per-wallet throttle; the counter of
addresses in the API key guard, which is an arbitrary refusal; markSucceeded of
the reconciliation, for no row has an event's id as its hash; the liquidity
positions, which a run reaches only while nothing is indexed and which follow
`investments_index`, a table that nothing writes; the parts of a summary that
come from tables (what was invested, loans, investors); sessions from before
families existed; the floating-point sums of the indexer, which add small
integers in the model. The BullMQ copy of the checker is wired by no module.

What is left to do, in this order: an abstract specification of a session family
that `Sessions` implements; a composition of `Indexer` with `LoanBook` and
`Standing` (today they meet in the index's rows, which `LoanBook` sees as its
environment and `Standing` as three variables of its own) and a safety property
of `Standing`, which has only liveness so far; a property of the orphan sweep's
cutoff; liveness of the indexer's cursor, with ledgers relative to the newest
one; several wallets in `LoanBook`.
