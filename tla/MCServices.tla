--------------------------------- MODULE MCServices ---------------------------------
(* Instances for TLC of the services that share no table with one another: a        *)
(* behaviour exercises one of them, and the others stay where they began.            *)
EXTENDS Integers, TLC

CONSTANTS c1, c2, f1, f2,
  Call, File, Required, Pair, Vouch, Loan, MaxNotes, LastDay,
  Nonce, Domain, Network, TTL, Second, Sunset, LastTick,
  Wallet, Contract, MaxOps, MaxRecords,
  Cents, Months, Standing,
  MaxPool, MaxMoves, MinDeposit, Scale, FeeBps,
  Exercised   \* the services that an instance is about

VARIABLES
  asArray, user, prefs, files, call, kept, settled, mishap,   \* Accounts
  learner, sponsor, ask, torn,                                \* Learners
  vouch, turn, overtaken, crossed,                            \* Vouching
  today, due, note, job, doubtful,                            \* Reminders
  now, config, row,                                           \* Challenge
  contractId, record,                                         \* Admission
  quote,                                                      \* Quotes
  liquidity, locked, shares, mine, poolCall, moved, blind,    \* Pool
  service                                                     \* the one that is exercised

A == INSTANCE Accounts
L == INSTANCE Learners WITH Caller <- Call
V == INSTANCE Vouching WITH Actor <- Call
R == INSTANCE Reminders WITH Process <- Call
C == INSTANCE Challenge
D == INSTANCE Admission
Q == INSTANCE Quotes
P == INSTANCE Pool WITH total <- liquidity, call <- poolCall

\* An avatar has a name of its own; a profile has required fields.
ASSUME AccountsAssumption == {A!None, A!Link} \cap File = {}
ASSUME LearnersAssumption == Required # {}

\* NONCE_EXPIRATION_SECONDS is a number, and a second is some ticks.
ASSUME ChallengeAssumption == TTL \in Nat /\ Second \in Nat \ {0}

\* LoanQuoteRequestDto: amount and term are validated before the request is handled.
ASSUME QuotesAssumption ==
  /\ \A amount \in Cents : amount \in Nat /\ amount >= 100
  /\ Months \subseteq 1 .. 12
  /\ Standing \subseteq Int

\* SHARE_PRICE_BPS and MIN_DEPOSIT_AMOUNT are positive, and so are the bounds; there
\* may be a fee.
ASSUME PoolAssumption == {MaxPool, MaxMoves, MinDeposit, Scale} \subseteq Nat \ {0} /\ FeeBps \in Nat

ASSUME ExercisedAssumption ==
  Exercised \subseteq {"accounts", "learners", "vouching", "reminders", "challenge", "admission", "quotes", "pool"}

accounts  == <<asArray, user, prefs, files, call, kept, settled, mishap>>
learners  == <<learner, sponsor, ask, torn>>
vouching  == <<vouch, turn, overtaken, crossed>>
reminders == <<today, due, note, job, doubtful>>
challenge == <<now, config, row>>
admission == <<contractId, record>>
pool      == <<liquidity, locked, shares, mine, poolCall, moved, blind>>
vars == <<accounts, learners, vouching, reminders, challenge, admission, quote, pool, service>>

\* One initial state of each of the services that are not exercised.
Init ==
  /\ service \in Exercised
  /\ A!Init /\ (service = "accounts" \/ asArray)
  /\ L!Init
  /\ V!Init
  /\ R!Init /\ (service = "reminders" \/ \A l \in Loan : due[l] = R!NotDue)
  /\ C!Init /\ (service = "challenge" \/ config = CHOOSE c \in C!Configs : TRUE)
  /\ D!Init /\ (service = "admission" \/ contractId = [f \in D!Flow |-> D!Unset])
  /\ Q!Init
  /\ P!Init

Accounts  == service = "accounts"  /\ A!Next /\ UNCHANGED <<learners, vouching, reminders, challenge, admission, quote, pool, service>>
Learners  == service = "learners"  /\ L!Next /\ UNCHANGED <<accounts, vouching, reminders, challenge, admission, quote, pool, service>>
Vouching  == service = "vouching"  /\ V!Next /\ UNCHANGED <<accounts, learners, reminders, challenge, admission, quote, pool, service>>
Reminders == service = "reminders" /\ R!Next /\ UNCHANGED <<accounts, learners, vouching, challenge, admission, quote, pool, service>>
Challenge == service = "challenge" /\ C!Next /\ UNCHANGED <<accounts, learners, vouching, reminders, admission, quote, pool, service>>
Admission == service = "admission" /\ D!Next /\ UNCHANGED <<accounts, learners, vouching, reminders, challenge, quote, pool, service>>
Quotes    == service = "quotes"    /\ Q!Next /\ UNCHANGED <<accounts, learners, vouching, reminders, challenge, admission, pool, service>>
Pool      == service = "pool"      /\ P!Next /\ UNCHANGED <<accounts, learners, vouching, reminders, challenge, admission, quote, service>>

Next == Accounts \/ Learners \/ Vouching \/ Reminders \/ Challenge \/ Admission \/ Quotes \/ Pool

Spec == Init /\ [][Next]_vars

Slots == Permutations(Call) \cup Permutations(File)

\* Around the limits of the tiers and of the clamp.
Scores == {-1, 0, 1, 59, 60, 61, 74, 75, 76, 89, 90, 91, 100, 101}

\* The least and the greatest amount, amounts around the limits of the tiers and their
\* 80 %, and some that do not divide.
Amounts == {100, 101, 137, 12345, 80000, 80001, 100000, 100001, 200000, 200001, 250000,
            250001, 400000, 400001, 500000, 500001, 800000, 800001, 1000000}

\* The properties of the services, each stated where its service is modelled: what a
\* failed registration leaves (Accounts);
NothingLeftBehind   == A!NothingLeftBehind
\* what profile_complete says (Learners);
CompleteFlagRight   == L!CompleteFlagRight
\* how many vouches are active (Vouching),
OneActiveVouch      == V!OneActiveVouch
\* and that a revoked one stays revoked;
RevokedStaysRevoked == V!RevokedStaysRevoked
\* how often a reminder is sent (Reminders);
ReminderOnceADay    == R!ReminderOnceADay
\* what a login's signature is accepted for (Challenge),
AcceptedIsBound     == C!AcceptedIsBound
\* and that an honest one is.
FreshIsAccepted     == C!FreshIsAccepted
\* What the checker follows up on is what was submitted (Admission).
FollowUpIsDeclared  == D!FollowUpIsDeclared
\* The schedule of a quote adds up (Quotes),
ScheduleRepaysLoan  == Q!ScheduleRepaysLoan
\* the next payment can be made,
NextPaymentIsPayable == Q!NextPaymentIsPayable
\* and the preview and the assessment agree.
ScreensAgree        == Q!ScreensAgree
\* What is shown of a withdrawal, a summary, an overview is the pool's (Pool),
QuoteIsExact        == P!QuoteIsExact
\* and a quoted deposit is never worth more than it is.
DepositNeverGains   == P!DepositNeverGains
=============================================================================
