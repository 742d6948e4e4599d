---------------------------------- MODULE Indexer ----------------------------------
(***************************************************************************)
(* The blockchain indexer (IndexerService.runIndexer): once a minute, for the  *)
(* loan contract and then for the reputation contract, it reads its cursor     *)
(* from indexer_state, reads the newest ledger from Soroban, fetches one page  *)
(* of events and copies them to loan_index, payment_index and                  *)
(* reputation_history, event by event, before it saves the cursor. Every await *)
(* is a step of its own; ledgers close, calls fail and the process dies in     *)
(* between. What the contracts emit is chosen once, in Init; ledgers reveal it.*)
(***************************************************************************)
EXTENDS Integers, FiniteSets, FiniteSetsExt

CONSTANTS
  Chains,          \* the possible histories of events, sets of Event
  Loan, Wallet,    \* what events are about
  Principal,       \* principal_amount of a loan
  Interest,        \* interest_amount of a loan
  PageLimit,       \* events per getEvents call (100)
  RetentionBuffer, \* LEDGER_RETENTION_BUFFER (100,000 ledgers)
  CatchUpBuffer,   \* CATCH_UP_BUFFER (1,000 ledgers)
  Window,          \* ledgers that the RPC server retains
  MaxLedger,       \* bound on ledgers
  MaxFault         \* bound on crashes and failing calls

LoanKind  == {"created", "undated", "repaid", "defaulted"}
OtherKind == {"score", "other"}
Event     == [id : Nat, ledger : Nat \ {0}, kind : LoanKind \cup OtherKind,
              of : Loan \cup Wallet, value : Nat]

\* A ledger has finitely many events. Event ids grow with the ledgers, every loan or
\* wallet gets its own events, and a loan is created before it is repaid.
ASSUME ChainsAssumption ==
  \A C \in Chains :
    /\ C \subseteq Event /\ IsFiniteSet(C)
    /\ \A e, d \in C : /\ e.id = d.id => e = d
                       /\ e.id < d.id => e.ledger <= d.ledger
    /\ \A e \in C : IF e.kind \in LoanKind THEN e.of \in Loan ELSE e.of \in Wallet
    /\ \A e \in C : e.kind = "repaid" =>
         \E d \in C : d.kind \in {"created", "undated"} /\ d.of = e.of /\ d.id < e.id

ASSUME BoundsAssumption ==
  /\ Principal \in Nat /\ Interest \in Nat
  /\ PageLimit \in Nat \ {0} /\ Window \in Nat \ {0}
  /\ RetentionBuffer \in Nat /\ CatchUpBuffer \in Nat /\ CatchUpBuffer <= RetentionBuffer
  /\ MaxLedger \in Nat \ {0} /\ MaxFault \in Nat

VARIABLES
  chain,     \* every event that the contracts emit in this behaviour
  tip,       \* newest ledger of the network
  cursor,    \* indexer_state.last_ledger per contract, 0 without a row
  loanIndex, \* loan_index.status, "none" without a row
  payments,  \* payment_index: the LOAN_REPAID events that have a row
  history,   \* reputation_history: the score events that have a row
  score,     \* reputation_cache.score, as far as the indexer writes it
  cyc,       \* the running cycle
  skipped,   \* history: events that met a failing call, a refused row or a crash
  cut,       \* history: events beyond the page of a fetch whose cursor passes them
  jumped,    \* history: events passed over by a heal or a recovery
  faults     \* bounded by MaxFault

tables == <<loanIndex, payments, history, score>>
past   == <<skipped, cut, jumped>>
vars   == <<chain, tip, cursor, tables, cyc, past, faults>>

Contract == {"loan", "reputation"}
EventsOf(c) == {e \in chain : (e.kind \in LoanKind) = (c = "loan")}

Cycle == [pc : {"idle", "cursor", "tip", "heal", "fetch", "recover", "event", "sum", "status",
                "cache", "save"},
          c : Contract, start : Nat, latest : Nat, max : Nat, batch : SUBSET chain,
          rows : SUBSET chain]

Idle == [pc |-> "idle", c |-> "loan", start |-> 0, latest |-> 0, max |-> 0, batch |-> {},
         rows |-> {}]

Init ==
  /\ chain \in Chains
  /\ tip = 1
  /\ cursor = [c \in Contract |-> 0]
  /\ loanIndex = [l \in Loan |-> "none"]
  /\ payments = {}
  /\ history = {}
  /\ score = [w \in Wallet |-> 0]
  /\ cyc = Idle
  /\ skipped = {}
  /\ cut = {}
  /\ jumped = {}
  /\ faults = 0

Larger(a, b) == IF a > b THEN a ELSE b

Fault == faults < MaxFault /\ faults' = faults + 1

\* The oldest ledger that the RPC server still has.
Oldest == Larger(1, tip - Window + 1)

PaymentsOf(l) == {e \in payments : e.of = l}
TotalPaid(S) == MapThenSumSet(LAMBDA e : e.value, S)

\* The end of indexContract, by return or by throw: on to the next contract.
NextContract ==
  IF cyc.c = "loan" THEN [Idle EXCEPT !.pc = "cursor", !.c = "reputation"] ELSE Idle

-----------------------------------------------------------------------------
(* indexContract up to the fetched page.                                     *)

\* A cron tick; ticks during a cycle return at once (isRunning).
RunIndexer ==
  /\ cyc.pc = "idle"
  /\ cyc' = [Idle EXCEPT !.pc = "cursor"]
  /\ UNCHANGED <<chain, tip, cursor, tables, past, faults>>

\* getCursor: without a row, and on any error, the answer is 0.
ReadCursor ==
  /\ cyc.pc = "cursor"
  /\ cyc' = [cyc EXCEPT !.pc = "tip", !.start = cursor[cyc.c] + 1]
  /\ UNCHANGED <<chain, tip, cursor, tables, past, faults>>

ReadCursorFails ==
  /\ cyc.pc = "cursor"
  /\ Fault
  /\ cyc' = [cyc EXCEPT !.pc = "tip", !.start = 1]
  /\ UNCHANGED <<chain, tip, cursor, tables, past>>

\* getLatestNetworkLedger, and the decision of healStaleCursor.
ReadTip ==
  /\ cyc.pc = "tip"
  /\ cyc' = [cyc EXCEPT !.latest = tip,
                        !.pc = IF cyc.start >= tip - RetentionBuffer THEN "fetch" ELSE "heal"]
  /\ UNCHANGED <<chain, tip, cursor, tables, past, faults>>

\* getLatestLedger fails, or getEvents does (not for the range), or recovering or
\* saving the cursor does: nothing is saved. (A cursor that is saved all the same is
\* the step that saves it, followed by the next failure.)
CallFails ==
  /\ cyc.pc \in {"tip", "heal", "fetch", "recover", "save"}
  /\ Fault
  /\ cyc' = NextContract
  /\ UNCHANGED <<chain, tip, cursor, tables, past>>

\* The events that the cursor passes over when it moves on to ledger n.
PassedOver(n) == {e \in EventsOf(cyc.c) : cyc.start <= e.ledger /\ e.ledger < n}

\* healStaleCursor outside the retention buffer.
Heal ==
  LET catchUpLedger == cyc.latest - CatchUpBuffer IN
  /\ cyc.pc = "heal"
  /\ cursor' = [cursor EXCEPT ![cyc.c] = catchUpLedger - 1]
  /\ jumped' = jumped \cup PassedOver(catchUpLedger)
  /\ cyc' = [cyc EXCEPT !.pc = "fetch", !.start = catchUpLedger]
  /\ UNCHANGED <<chain, tip, tables, skipped, cut, faults>>

\* What getEvents has from the start ledger on, and the first page of it.
Found == {e \in EventsOf(cyc.c) : cyc.start <= e.ledger /\ e.ledger <= tip}
Page  == {e \in Found : Cardinality({d \in Found : d.id <= e.id}) <= PageLimit}

\* Mutant: the cursor is saved before the events are.
FetchSavesCursor ==
  /\ cyc.pc = "fetch"
  /\ cyc.start <= cyc.latest /\ cyc.start >= Oldest
  /\ cursor' = [cursor EXCEPT ![cyc.c] = cyc.latest]
  /\ cyc' = [cyc EXCEPT !.batch = Page, !.max = cyc.start,
                        !.pc = IF Page = {} THEN "save" ELSE "event"]
  /\ cut' = cut \cup {e \in Found \ Page : \/ e.ledger <= cyc.latest
                                           \/ \E d \in Page : e.ledger <= d.ledger}
  /\ UNCHANGED <<chain, tip, tables, skipped, jumped, faults>>

\* One page of events; the events after it that the cursor is going to pass are cut.
Fetch ==
  /\ cyc.pc = "fetch"
  /\ cyc.start <= cyc.latest /\ cyc.start >= Oldest
  /\ cyc' = [cyc EXCEPT !.batch = Page, !.max = cyc.start,
                        !.pc = IF Page = {} THEN "save" ELSE "event"]
  /\ cut' = cut \cup {e \in Found \ Page : \/ e.ledger <= cyc.latest
                                           \/ \E d \in Page : e.ledger <= d.ledger}
  /\ UNCHANGED <<chain, tip, cursor, tables, skipped, jumped, faults>>

\* startLedger > latestLedger: no events, without a call.
FetchNothing ==
  /\ cyc.pc = "fetch"
  /\ cyc.start > cyc.latest
  /\ cyc' = [cyc EXCEPT !.pc = "save"]
  /\ UNCHANGED <<chain, tip, cursor, tables, past, faults>>

\* "startLedger must be within the ledger range": the RPC server no longer has it.
FetchOutOfRange ==
  /\ cyc.pc = "fetch"
  /\ cyc.start <= cyc.latest /\ cyc.start < Oldest
  /\ cyc' = [cyc EXCEPT !.pc = "recover", !.latest = Oldest]
  /\ UNCHANGED <<chain, tip, cursor, tables, past, faults>>

\* recoverFromRangeError: the cursor goes before the oldest ledger of the message.
Recover ==
  /\ cyc.pc = "recover"
  /\ cursor' = [cursor EXCEPT ![cyc.c] = cyc.latest - 1]
  /\ jumped' = jumped \cup PassedOver(cyc.latest)
  /\ cyc' = NextContract
  /\ UNCHANGED <<chain, tip, tables, skipped, cut, faults>>

-----------------------------------------------------------------------------
(* The loop over the page: parseEvent and persistEvent.                      *)

\* The event being persisted.
Current == CHOOSE e \in cyc.batch : \A d \in cyc.batch : e.id <= d.id

Leave(max) ==
  cyc' = [cyc EXCEPT !.batch = @ \ {Current}, !.max = max, !.rows = {},
                     !.pc = IF cyc.batch = {Current} THEN "save" ELSE "event"]

\* The event counts for the cursor, or it does not (not parsed, or an error).
Persisted    == Leave(Larger(cyc.max, Current.ledger))
NotPersisted == Leave(cyc.max)

SkipUnparsed ==
  /\ cyc.pc = "event" /\ Current.kind = "other"
  /\ NotPersisted
  /\ UNCHANGED <<chain, tip, cursor, tables, past, faults>>

\* Mutant: the upsert does not ignore duplicates.
LoanCreatedAgain ==
  /\ cyc.pc = "event" /\ Current.kind = "created"
  /\ loanIndex' = [loanIndex EXCEPT ![Current.of] = "active"]
  /\ Persisted
  /\ UNCHANGED <<chain, tip, cursor, payments, history, score, past, faults>>

\* persistLoanCreated: an upsert that ignores an event_id it has, and whose other
\* unique key is the loan's id.
LoanCreated ==
  /\ cyc.pc = "event" /\ Current.kind = "created"
  /\ loanIndex' = [loanIndex EXCEPT ![Current.of] = IF @ = "none" THEN "active" ELSE @]
  /\ Persisted
  /\ UNCHANGED <<chain, tip, cursor, payments, history, score, past, faults>>

\* Without a due date the row is refused: loan_index.due_date is NOT NULL.
LoanCreatedUndated ==
  /\ cyc.pc = "event" /\ Current.kind = "undated"
  /\ skipped' = skipped \cup {Current}
  /\ NotPersisted
  /\ UNCHANGED <<chain, tip, cursor, tables, cut, jumped, faults>>

\* persistLoanRepaid: the payment; one that is there ends the event.
LoanRepaidInsert ==
  /\ cyc.pc = "event" /\ Current.kind = "repaid"
  /\ IF Current \in payments
       THEN Persisted /\ UNCHANGED payments
       ELSE payments' = payments \cup {Current} /\ cyc' = [cyc EXCEPT !.pc = "sum"]
  /\ UNCHANGED <<chain, tip, cursor, loanIndex, history, score, past, faults>>

\* Mutant: the payments are read before the new one is there.
LoanRepaidSumOfOthers ==
  /\ cyc.pc = "sum"
  /\ cyc' = [cyc EXCEPT !.pc = "status", !.rows = PaymentsOf(Current.of) \ {Current}]
  /\ UNCHANGED <<chain, tip, cursor, tables, past, faults>>

\* The payments of the loan are read.
LoanRepaidSum ==
  /\ cyc.pc = "sum"
  /\ cyc' = [cyc EXCEPT !.pc = "status", !.rows = PaymentsOf(Current.of)]
  /\ UNCHANGED <<chain, tip, cursor, tables, past, faults>>

\* Mutant: the interest is forgotten.
LoanRepaidPrincipal ==
  /\ cyc.pc = "status"
  /\ loanIndex' = [loanIndex EXCEPT ![Current.of] =
       IF @ = "none" THEN @ ELSE IF TotalPaid(cyc.rows) >= Principal THEN "paid" ELSE "active"]
  /\ Persisted
  /\ UNCHANGED <<chain, tip, cursor, payments, history, score, past, faults>>

\* The status follows from the sum, if the loan has a row.
LoanRepaidStatus ==
  /\ cyc.pc = "status"
  /\ loanIndex' = [loanIndex EXCEPT ![Current.of] =
       IF @ = "none" THEN @
       ELSE IF TotalPaid(cyc.rows) >= Principal + Interest THEN "paid" ELSE "active"]
  /\ Persisted
  /\ UNCHANGED <<chain, tip, cursor, payments, history, score, past, faults>>

\* The sum, the loan or the update fails: not an error of the event. (The update's
\* result is not looked at, and may have been applied.)
LoanRepaidFollowUpFails ==
  /\ cyc.pc \in {"sum", "status"}
  /\ Fault
  /\ skipped' = skipped \cup {Current}
  /\ Persisted
  /\ UNCHANGED <<chain, tip, cursor, tables, cut, jumped>>

\* persistLoanDefaulted.
LoanDefaulted ==
  /\ cyc.pc = "event" /\ Current.kind = "defaulted"
  /\ loanIndex' = [loanIndex EXCEPT ![Current.of] = IF @ = "none" THEN @ ELSE "defaulted"]
  /\ Persisted
  /\ UNCHANGED <<chain, tip, cursor, payments, history, score, past, faults>>

\* persistScoreChanged: the history; an event that is there ends here.
ScoreHistory ==
  /\ cyc.pc = "event" /\ Current.kind = "score"
  /\ IF Current \in history
       THEN Persisted /\ UNCHANGED history
       ELSE history' = history \cup {Current} /\ cyc' = [cyc EXCEPT !.pc = "cache"]
  /\ UNCHANGED <<chain, tip, cursor, loanIndex, payments, score, past, faults>>

ScoreCache ==
  /\ cyc.pc = "cache"
  /\ score' = [score EXCEPT ![Current.of] = Current.value]
  /\ Persisted
  /\ UNCHANGED <<chain, tip, cursor, loanIndex, payments, history, past, faults>>

\* The cache update fails: a warning, "history was saved".
ScoreCacheFails ==
  /\ cyc.pc = "cache"
  /\ Fault
  /\ skipped' = skipped \cup {Current}
  /\ Persisted
  /\ UNCHANGED <<chain, tip, cursor, tables, cut, jumped>>

\* The row that the first call for e writes.
Stored(e) ==
  /\ loanIndex' = [l \in Loan |->
       CASE l = e.of /\ e.kind = "created" /\ loanIndex[l] = "none"   -> "active"
         [] l = e.of /\ e.kind = "defaulted" /\ loanIndex[l] # "none" -> "defaulted"
         [] OTHER                                                    -> loanIndex[l]]
  /\ payments' = IF e.kind = "repaid" THEN payments \cup {e} ELSE payments
  /\ history' = IF e.kind = "score" THEN history \cup {e} ELSE history
  /\ UNCHANGED score

\* The first call of an event reports an error, whether or not its row is stored:
\* "Failed to persist event -- skipping".
PersistFails ==
  /\ cyc.pc = "event" /\ Current.kind \in {"created", "repaid", "defaulted", "score"}
  /\ Fault
  /\ skipped' = skipped \cup {Current}
  /\ UNCHANGED tables \/ Stored(Current)
  /\ NotPersisted
  /\ UNCHANGED <<chain, tip, cursor, cut, jumped>>

\* The cursor passes the newest ledger read before the fetch, and every event that
\* was persisted.
SaveCursor ==
  /\ cyc.pc = "save"
  /\ cursor' = [cursor EXCEPT ![cyc.c] = Larger(cyc.max, cyc.latest)]
  /\ cyc' = NextContract
  /\ UNCHANGED <<chain, tip, tables, past, faults>>

-----------------------------------------------------------------------------

CloseLedger ==
  /\ tip < MaxLedger
  /\ tip' = tip + 1
  /\ UNCHANGED <<chain, cursor, tables, cyc, past, faults>>

Crash ==
  /\ cyc.pc # "idle"
  /\ Fault
  /\ cyc' = Idle
  /\ skipped' = IF cyc.pc \in {"sum", "status", "cache"} THEN skipped \cup {Current} ELSE skipped
  /\ UNCHANGED <<chain, tip, cursor, tables, cut, jumped>>

FetchNext ==
  \/ RunIndexer \/ ReadCursor \/ ReadCursorFails \/ ReadTip \/ CallFails \/ Heal
  \/ Fetch \/ FetchNothing \/ FetchOutOfRange \/ Recover

LoanNext ==
  \/ LoanCreated \/ LoanCreatedUndated \/ LoanRepaidInsert \/ LoanRepaidSum
  \/ LoanRepaidStatus \/ LoanRepaidFollowUpFails \/ LoanDefaulted

EventNext ==
  \/ LoanNext \/ SkipUnparsed \/ ScoreHistory \/ ScoreCache \/ ScoreCacheFails
  \/ PersistFails \/ SaveCursor

Next == FetchNext \/ EventNext \/ CloseLedger \/ Crash

Spec == Init /\ [][Next]_vars

-----------------------------------------------------------------------------
(* Properties.                                                               *)

\* Every variable stays within its type; in particular no cursor is negative.
TypeOK ==
  /\ chain \in Chains
  /\ tip \in 1 .. MaxLedger
  /\ cursor \in [Contract -> Nat]
  /\ loanIndex \in [Loan -> {"none", "active", "paid", "defaulted"}]
  /\ payments \in SUBSET chain
  /\ history \in SUBSET chain
  /\ score \in [Wallet -> Nat]
  /\ cyc \in Cycle
  /\ skipped \in SUBSET chain
  /\ cut \in SUBSET chain
  /\ jumped \in SUBSET chain
  /\ faults \in 0 .. MaxFault

\* What the tables show of an event.
Indexed(e) ==
  CASE e.kind = "created" -> loanIndex[e.of] # "none"
    [] e.kind = "repaid"  -> e \in payments
    [] e.kind = "score"   -> e \in history
    [] OTHER              -> TRUE

\* An event at or below the saved cursor, which no later cycle looks at again, is in
\* its table, unless the log tells why not: it failed, it lay beyond the page, or the
\* cursor was fast-forwarded over it. A crash before the cursor is saved loses nothing.
EventsAccountedFor ==
  \A c \in Contract : \A e \in EventsOf(c) :
    e.ledger <= cursor[c] => Indexed(e) \/ e \in skipped \cup cut \cup jumped

\* A loan is paid in the index only when the payments in the index cover it, and then
\* also when events failed, were lost or were read again.
PaidIsCovered ==
  \A l \in Loan : loanIndex[l] = "paid" => TotalPaid(PaymentsOf(l)) >= Principal + Interest

\* The detailed model implements what the index promises: whatever is interrupted,
\* fails or is read again, a status follows from all payments as if computed at once.
Index == INSTANCE IndexedLoans WITH status <- loanIndex, Due <- Principal + Interest
IndexKept == Index!Spec

Undisturbed(l) ==
  \A e \in chain : e.of = l => /\ e \notin skipped \cup cut \cup jumped
                               /\ e.kind # "undated"

\* persistLoanRepaid of a payment of l is between its calls.
BeingPaid(l) == cyc.pc \in {"sum", "status"} /\ Current.of = l

\* The other way round, for a loan that is never in default: once the payments in the
\* index cover it, it is paid, and stays paid when events are read again after a crash
\* or an error.
CoveredIsPaid ==
  \A l \in Loan :
    (/\ Undisturbed(l) /\ ~BeingPaid(l)
     /\ \A e \in chain : e.of = l => e.kind # "defaulted"
     /\ PaymentsOf(l) # {} /\ TotalPaid(PaymentsOf(l)) >= Principal + Interest)
    => loanIndex[l] = "paid"

=============================================================================
