-------------------------- MODULE TransactionLifecycle --------------------------
(***************************************************************************)
(* The life of a signed Stellar transaction in the API: the transactions    *)
(* table, the loans it acts on, and everything that writes them --           *)
(*   - POST /transactions/submit   (TransactionsService.submitTransaction)   *)
(*   - GET /transactions/:hash     (TransactionsService.getTransactionStatus)*)
(*   - the status checker cron     (TransactionStatusCheckerService)         *)
(*   - the orphan sweep of the state reconciliation cron                     *)
(*     (StateReconciliationProcessor.reconcileTransactions)                  *)
(* together with the network behind Horizon and with process crashes. Each   *)
(* await in the code is a point where other handlers run, so a handler is a  *)
(* sequence of actions, one for each database, cache or Horizon call.        *)
(***************************************************************************)
EXTENDS Integers, FiniteSets, FiniteSetsExt

CONSTANTS
  Hash,      \* hashes of the signed transactions clients may submit
  Loan,      \* loan_id values
  Submit,    \* slots for concurrent POST /transactions/submit requests
  Poll,      \* slots for concurrent GET /transactions/:hash requests
  Cycle,     \* slots for status checker cycles (cron ticks)
  CallOf,    \* CallOf[h]: the contract function h invokes
  LoanOf,    \* LoanOf[h]: the loan h acts on
  AmountOf,  \* AmountOf[h]: the amount h repays, in cents
  Principal, \* Principal[l]: remaining_balance of l when it is created
  BatchLimit,\* rows fetched by one checker cycle (100 in the code)
  MaxAsk,    \* bound on submit requests in a behaviour
  MaxCrash   \* bound on process crashes in a behaviour

Calls == {"create_loan", "repay_loan", "repay_installment", "other"}

ASSUME ConstantsAssumption ==
  /\ Hash # {} /\ IsFiniteSet(Hash)
  /\ CallOf \in [Hash -> Calls]
  /\ LoanOf \in [Hash -> Loan]
  /\ AmountOf \in [Hash -> Nat]
  /\ Principal \in [Loan -> Nat]
  /\ BatchLimit \in Nat \ {0}
  /\ MaxAsk \in Nat
  /\ MaxCrash \in Nat

VARIABLES
  row,        \* transactions table: "none" or the status of the row of h
  age,        \* age class of the row: "fresh", "stale" (> 30 min), "old" (> 7 d)
  older,      \* older[h]: the rows submitted (submitted_at) before the row of h
  loan,       \* loans table: [status, balance] of each loan
  cache,      \* Redis transactions:status:<hash>: "none" or the cached verdict
  ledger,     \* the network: "absent" or the final verdict on h
  flying,     \* hashes a validator holds but no ledger contains yet
  subPc, subHash,                        \* submit requests
  pollPc, pollHash, pollFound, pollOut,  \* status requests
  isRunning,                             \* the checker's overlap guard
  chkPc, chkTodo, chkHash, chkOut, chkSeen, \* checker cycles
  sweepPc, sweepTodo,                    \* the reconciliation's orphan sweep
  recorded, submitted, applied,          \* history: inserts, submissions, follow-ups
  notices,                               \* notifications inserted for h
  asks, crashes                          \* history, bounded by MaxAsk, MaxCrash

ageVars   == <<age, older>>
netVars   == <<ledger, flying>>
subVars   == <<subPc, subHash>>
pollVars  == <<pollPc, pollHash, pollFound, pollOut>>
chkVars   == <<isRunning, chkPc, chkTodo, chkHash, chkOut, chkSeen>>
sweepVars == <<sweepPc, sweepTodo>>
histVars  == <<recorded, submitted, applied, notices>>
boundVars == <<asks, crashes>>

vars == <<row, ageVars, loan, cache, netVars, subVars, pollVars, chkVars, sweepVars,
          histVars, boundVars>>

Verdict   == {"success", "failed"}
RowStatus == {"none", "pending"} \cup Verdict
Age       == {"fresh", "stale", "old"}
LoanStatus == {"pending", "active", "completed"}
LoanRow   == [status : LoanStatus, balance : Nat]
Notice    == {"transaction_failed", "transaction_success", "loan_create_success",
              "loan_repay_success"}

SubPc   == {"idle", "insert", "horizon", "mark"}
PollPc  == {"idle", "find", "lookup", "cache", "persist"}
ChkPc   == {"off", "loop", "finalize", "activate", "activateWrite", "repay",
            "repayWrite", "notify"}
SweepPc == {"off", "loop"}

\* One value per type, for slots that hold nothing yet.
NoHash == CHOOSE h \in Hash : TRUE
NoRow  == [status |-> "pending", balance |-> 0]

\* A loan that a create_loan transaction is still to activate was stored by
\* createLoan with status pending; the others have been activated already.
InitLoan(l) ==
  [status  |-> IF \E h \in Hash : CallOf[h] = "create_loan" /\ LoanOf[h] = l
               THEN "pending" ELSE "active",
   balance |-> Principal[l]]

Init ==
  /\ row = [h \in Hash |-> "none"]
  /\ age = [h \in Hash |-> "fresh"]
  /\ older = [h \in Hash |-> {}]
  /\ loan = [l \in Loan |-> InitLoan(l)]
  /\ cache = [h \in Hash |-> "none"]
  /\ ledger = [h \in Hash |-> "absent"]
  /\ flying = {}
  /\ subPc = [s \in Submit |-> "idle"]
  /\ subHash = [s \in Submit |-> NoHash]
  /\ pollPc = [p \in Poll |-> "idle"]
  /\ pollHash = [p \in Poll |-> NoHash]
  /\ pollFound = [p \in Poll |-> FALSE]
  /\ pollOut = [p \in Poll |-> "failed"]
  /\ isRunning = FALSE
  /\ chkPc = [c \in Cycle |-> "off"]
  /\ chkTodo = [c \in Cycle |-> {}]
  /\ chkHash = [c \in Cycle |-> NoHash]
  /\ chkOut = [c \in Cycle |-> "failed"]
  /\ chkSeen = [c \in Cycle |-> NoRow]
  /\ sweepPc = "off"
  /\ sweepTodo = {}
  /\ recorded = [h \in Hash |-> 0]
  /\ submitted = [h \in Hash |-> 0]
  /\ applied = [h \in Hash |-> 0]
  /\ notices = [h \in Hash |-> {}]
  /\ asks = 0
  /\ crashes = 0

-----------------------------------------------------------------------------
(* The network behind Horizon (external).                                    *)

\* A held transaction reaches a ledger, where it succeeds or fails for good.
Land(h) ==
  /\ h \in flying
  /\ \E v \in Verdict : ledger' = [ledger EXCEPT ![h] = v]
  /\ flying' = flying \ {h}
  /\ UNCHANGED <<row, ageVars, loan, cache, subVars, pollVars, chkVars,
                 sweepVars, histVars, boundVars>>

\* A held transaction expires (time bounds, mempool eviction).
Drop(h) ==
  /\ h \in flying
  /\ flying' = flying \ {h}
  /\ UNCHANGED <<row, ageVars, loan, cache, ledger, subVars, pollVars,
                 chkVars, sweepVars, histVars, boundVars>>

-----------------------------------------------------------------------------
(* POST /transactions/submit.                                                *)

\* The request is over and its locals go out of scope.
SubmitDone(s) ==
  /\ subPc' = [subPc EXCEPT ![s] = "idle"]
  /\ subHash' = [subHash EXCEPT ![s] = NoHash]

\* The request was validated; look the hash up in the transactions table. A
\* recorded hash is answered as it stands (duplicate: true).
SubmitFind(s, h) ==
  /\ subPc[s] = "idle"
  /\ asks < MaxAsk
  /\ asks' = asks + 1
  /\ IF row[h] = "none"
       THEN /\ subPc' = [subPc EXCEPT ![s] = "insert"]
            /\ subHash' = [subHash EXCEPT ![s] = h]
       ELSE UNCHANGED subVars
  /\ UNCHANGED <<row, ageVars, loan, cache, netVars, pollVars, chkVars,
                 sweepVars, histVars, crashes>>

\* persistTransactionRecord: the unique index admits one row per hash. Only the
\* request whose insert succeeded goes on to Horizon.
SubmitInsert(s) ==
  LET h == subHash[s] IN
  /\ subPc[s] = "insert"
  /\ row[h] = "none"
  /\ row' = [row EXCEPT ![h] = "pending"]
  /\ age' = [age EXCEPT ![h] = "fresh"]
  /\ older' = [older EXCEPT ![h] = {g \in Hash : row[g] # "none"}]
  /\ recorded' = [recorded EXCEPT ![h] = @ + 1]
  /\ subPc' = [subPc EXCEPT ![s] = "horizon"]
  /\ UNCHANGED <<loan, cache, netVars, subHash, pollVars, chkVars, sweepVars,
                 submitted, applied, notices, boundVars>>

\* Mutant: a refused insert is only logged, and the submission goes ahead.
SubmitInsertRefusedIgnored(s) ==
  /\ subPc[s] = "insert"
  /\ subPc' = [subPc EXCEPT ![s] = "horizon"]
  /\ UNCHANGED <<row, ageVars, loan, cache, netVars, subHash, pollVars, chkVars,
                 sweepVars, histVars, boundVars>>

\* The insert hit the unique index (answered as a duplicate after a second
\* look-up) or failed (TRANSACTION_PERSISTENCE_FAILED): nothing is submitted.
SubmitInsertRefused(s) ==
  /\ subPc[s] = "insert"
  /\ SubmitDone(s)
  /\ UNCHANGED <<row, ageVars, loan, cache, netVars, pollVars, chkVars,
                 sweepVars, histVars, boundVars>>

SendToHorizon(s) ==
  /\ subPc[s] = "horizon"
  /\ submitted' = [submitted EXCEPT ![subHash[s]] = @ + 1]
  /\ UNCHANGED <<row, ageVars, loan, cache, pollVars, chkVars, sweepVars,
                 recorded, applied, notices, boundVars>>

\* Horizon answers once the transaction is in a ledger, at once when it is
\* there already: the row stays pending for the status checker.
HorizonAccepts(s) ==
  LET h == subHash[s] IN
  /\ SendToHorizon(s)
  /\ ledger[h] # "failed"
  /\ ledger' = [ledger EXCEPT ![h] = "success"]
  /\ flying' = flying \ {h}
  /\ SubmitDone(s)

\* Horizon answers with result codes: refused before reaching a ledger, or
\* included in a ledger and failed there.
HorizonRejects(s) ==
  LET h == subHash[s] IN
  /\ SendToHorizon(s)
  /\ h \notin flying
  /\ ledger[h] # "success"
  /\ \E v \in {ledger[h], "failed"} : ledger' = [ledger EXCEPT ![h] = v]
  /\ subPc' = [subPc EXCEPT ![s] = "mark"]
  /\ UNCHANGED <<flying, subHash>>

\* No answer: the transaction may or may not have reached a validator. An
\* error that names a timeout or the network maps to 503 and leaves the row
\* alone; any other error (a reset socket, say) maps to 500.
HorizonSilent(s) ==
  LET h == subHash[s] IN
  /\ SendToHorizon(s)
  /\ \/ UNCHANGED flying
     \/ ledger[h] = "absent" /\ flying' = flying \cup {h}
  /\ \/ SubmitDone(s)
     \/ subPc' = [subPc EXCEPT ![s] = "mark"] /\ UNCHANGED subHash
  /\ UNCHANGED ledger

\* Mutant: the row is put back to pending for another try.
SubmitMarkForRetry(s) ==
  LET h == subHash[s] IN
  /\ subPc[s] = "mark"
  /\ row' = IF row[h] = "none" THEN row ELSE [row EXCEPT ![h] = "pending"]
  /\ SubmitDone(s)
  /\ UNCHANGED <<ageVars, loan, cache, netVars, pollVars, chkVars, sweepVars,
                 histVars, boundVars>>

\* markTransactionFailed: UPDATE by hash, whatever the row's status is by now.
SubmitMark(s) ==
  LET h == subHash[s] IN
  /\ subPc[s] = "mark"
  /\ row' = IF row[h] = "none" THEN row ELSE [row EXCEPT ![h] = "failed"]
  /\ SubmitDone(s)
  /\ UNCHANGED <<ageVars, loan, cache, netVars, pollVars, chkVars, sweepVars,
                 histVars, boundVars>>

\* The best-effort update failed; the client still gets the Horizon error.
SubmitMarkLost(s) ==
  /\ subPc[s] = "mark"
  /\ SubmitDone(s)
  /\ UNCHANGED <<row, ageVars, loan, cache, netVars, pollVars, chkVars,
                 sweepVars, histVars, boundVars>>

SubmitNext ==
  \E s \in Submit :
    \/ \E h \in Hash : SubmitFind(s, h)
    \/ SubmitInsert(s) \/ SubmitInsertRefused(s)
    \/ HorizonAccepts(s) \/ HorizonRejects(s) \/ HorizonSilent(s)
    \/ SubmitMark(s) \/ SubmitMarkLost(s)

-----------------------------------------------------------------------------
(* GET /transactions/:hash, public.                                          *)

PollDone(p) ==
  /\ pollPc' = [pollPc EXCEPT ![p] = "idle"]
  /\ pollHash' = [pollHash EXCEPT ![p] = NoHash]
  /\ pollFound' = [pollFound EXCEPT ![p] = FALSE]
  /\ pollOut' = [pollOut EXCEPT ![p] = "failed"]

\* A cache miss. (A cached verdict is returned as it is.)
PollRead(p, h) ==
  /\ pollPc[p] = "idle"
  /\ cache[h] = "none"
  /\ pollPc' = [pollPc EXCEPT ![p] = "find"]
  /\ pollHash' = [pollHash EXCEPT ![p] = h]
  /\ UNCHANGED <<row, ageVars, loan, cache, netVars, subVars, pollFound,
                 pollOut, chkVars, sweepVars, histVars, boundVars>>

\* The local record, if there is one.
PollFind(p) ==
  /\ pollPc[p] = "find"
  /\ pollPc' = [pollPc EXCEPT ![p] = "lookup"]
  /\ pollFound' = [pollFound EXCEPT ![p] = row[pollHash[p]] # "none"]
  /\ UNCHANGED <<row, ageVars, loan, cache, netVars, subVars, pollHash,
                 pollOut, chkVars, sweepVars, histVars, boundVars>>

\* Mutant: a 404 of Horizon is taken for a failed transaction.
PollLookupNotFoundFails(p) ==
  LET verdict == ledger[pollHash[p]] IN
  /\ pollPc[p] = "lookup"
  /\ pollOut' = [pollOut EXCEPT ![p] = IF verdict = "absent" THEN "failed" ELSE verdict]
  /\ pollPc' = [pollPc EXCEPT ![p] = "cache"]
  /\ UNCHANGED <<row, ageVars, loan, cache, netVars, subVars, pollHash,
                 pollFound, chkVars, sweepVars, histVars, boundVars>>

\* Horizon knows the transaction.
PollLookup(p) ==
  /\ pollPc[p] = "lookup"
  /\ ledger[pollHash[p]] # "absent"
  /\ pollOut' = [pollOut EXCEPT ![p] = ledger[pollHash[p]]]
  /\ pollPc' = [pollPc EXCEPT ![p] = "cache"]
  /\ UNCHANGED <<row, ageVars, loan, cache, netVars, subVars, pollHash,
                 pollFound, chkVars, sweepVars, histVars, boundVars>>

\* The finalized answer is cached without expiry, before the row is updated.
PollCache(p) ==
  /\ pollPc[p] = "cache"
  /\ cache' = [cache EXCEPT ![pollHash[p]] = pollOut[p]]
  /\ IF pollFound[p]
       THEN /\ pollPc' = [pollPc EXCEPT ![p] = "persist"]
            /\ UNCHANGED <<pollHash, pollFound, pollOut>>
       ELSE PollDone(p)
  /\ UNCHANGED <<row, ageVars, loan, netVars, subVars, chkVars, sweepVars,
                 histVars, boundVars>>

\* persistFinalizedTransaction: UPDATE by hash, whatever the row's status; no
\* follow-up and no notification.
PollPersist(p) ==
  LET h == pollHash[p] IN
  /\ pollPc[p] = "persist"
  /\ row' = IF row[h] = "none" THEN row ELSE [row EXCEPT ![h] = pollOut[p]]
  /\ PollDone(p)
  /\ UNCHANGED <<ageVars, loan, cache, netVars, subVars, chkVars, sweepVars,
                 histVars, boundVars>>

\* Not on Horizon yet (pending or 404), or a Horizon, cache or database error.
PollGivesUp(p) ==
  /\ pollPc[p] # "idle"
  /\ PollDone(p)
  /\ UNCHANGED <<row, ageVars, loan, cache, netVars, subVars, chkVars,
                 sweepVars, histVars, boundVars>>

PollNext ==
  \E p \in Poll :
    \/ \E h \in Hash : PollRead(p, h)
    \/ PollFind(p) \/ PollLookup(p) \/ PollCache(p) \/ PollPersist(p) \/ PollGivesUp(p)

-----------------------------------------------------------------------------
(* The status checker, every 120 s.                                          *)

Pending == {h \in Hash : row[h] = "pending"}

\* The result of fetchPendingTransactions: the oldest pending rows, BatchLimit
\* of them at most.
Batches ==
  {B \in SUBSET Pending :
     \/ B = Pending /\ Cardinality(B) <= BatchLimit
     \/ /\ Cardinality(B) = BatchLimit
        /\ \A h \in B : older[h] \cap Pending \subseteq B}

\* Mutant: no overlap guard.
MayStartAnyway == TRUE

\* A tick finds the previous cycle still running and is skipped, or starts one.
MayStart == ~isRunning

CycleFetch(c) ==
  /\ chkPc[c] = "off"
  /\ MayStart
  /\ isRunning' = TRUE
  /\ \E B \in Batches : chkTodo' = [chkTodo EXCEPT ![c] = B]
  /\ chkPc' = [chkPc EXCEPT ![c] = "loop"]
  /\ UNCHANGED <<row, ageVars, loan, cache, netVars, subVars, pollVars,
                 chkHash, chkOut, chkSeen, sweepVars, histVars, boundVars>>

\* The read of the pending rows failed: only the clean-up of this cycle is left.
CycleFetchFails(c) ==
  /\ chkPc[c] = "off"
  /\ MayStart
  /\ isRunning' = TRUE
  /\ chkTodo' = [chkTodo EXCEPT ![c] = {}]
  /\ chkPc' = [chkPc EXCEPT ![c] = "loop"]
  /\ UNCHANGED <<row, ageVars, loan, cache, netVars, subVars, pollVars,
                 chkHash, chkOut, chkSeen, sweepVars, histVars, boundVars>>

\* The loop takes the batch in the order of submission.
IsNext(c, h) == h \in chkTodo[c] /\ older[h] \cap chkTodo[c] = {}

\* checkTransactionStatus found h on Horizon, within its three attempts.
CycleLookup(c, h) ==
  /\ chkPc[c] = "loop"
  /\ IsNext(c, h)
  /\ ledger[h] # "absent"
  /\ chkTodo' = [chkTodo EXCEPT ![c] = @ \ {h}]
  /\ chkHash' = [chkHash EXCEPT ![c] = h]
  /\ chkOut' = [chkOut EXCEPT ![c] = ledger[h]]
  /\ chkPc' = [chkPc EXCEPT ![c] = "finalize"]
  /\ UNCHANGED <<row, ageVars, loan, cache, netVars, subVars, pollVars,
                 isRunning, chkSeen, sweepVars, histVars, boundVars>>

\* h is not on Horizon, or the look-up failed for good: h waits for a later cycle.
CycleSkip(c, h) ==
  /\ chkPc[c] = "loop"
  /\ IsNext(c, h)
  /\ chkTodo' = [chkTodo EXCEPT ![c] = @ \ {h}]
  /\ UNCHANGED <<row, ageVars, loan, cache, netVars, subVars, pollVars,
                 isRunning, chkPc, chkHash, chkOut, chkSeen, sweepVars,
                 histVars, boundVars>>

\* The loop moves on and the locals of this transaction go out of scope.
NextTransaction(c) ==
  /\ chkPc' = [chkPc EXCEPT ![c] = "loop"]
  /\ chkHash' = [chkHash EXCEPT ![c] = NoHash]
  /\ chkOut' = [chkOut EXCEPT ![c] = "failed"]
  /\ chkSeen' = [chkSeen EXCEPT ![c] = NoRow]

\* The conditional UPDATE: rows that something else resolved are left alone.
MayFinalize(h) == row[h] = "pending"

\* Where applyFollowUpActions goes for a transaction with verdict v. Its
\* metadata parser knows create_loan and repay_loan only.
FollowUpPc(h, v) ==
  CASE v = "success" /\ CallOf[h] = "create_loan" -> "activate"
    [] v = "success" /\ CallOf[h] = "repay_loan"  -> "repay"
    [] OTHER -> "notify"

\* Mutant: the follow-up runs first and the row is to be updated after it.
CycleFinalizeLater(c) ==
  LET h == chkHash[c] IN
  /\ chkPc[c] = "finalize"
  /\ MayFinalize(h)
  /\ chkPc' = [chkPc EXCEPT ![c] = FollowUpPc(h, chkOut[c])]
  /\ UNCHANGED <<row, ageVars, loan, cache, netVars, subVars, pollVars,
                 isRunning, chkTodo, chkHash, chkOut, chkSeen, sweepVars,
                 histVars, boundVars>>

CycleFinalize(c) ==
  LET h == chkHash[c] IN
  /\ chkPc[c] = "finalize"
  /\ MayFinalize(h)
  /\ row' = [row EXCEPT ![h] = chkOut[c]]
  /\ chkPc' = [chkPc EXCEPT ![c] = FollowUpPc(h, chkOut[c])]
  /\ UNCHANGED <<ageVars, loan, cache, netVars, subVars, pollVars, isRunning,
                 chkTodo, chkHash, chkOut, chkSeen, sweepVars, histVars,
                 boundVars>>

\* Zero rows updated, or a database error: no follow-up, no notification.
CycleFinalizeFails(c) ==
  /\ chkPc[c] = "finalize"
  /\ NextTransaction(c)
  /\ UNCHANGED <<row, ageVars, loan, cache, netVars, subVars, pollVars,
                 isRunning, chkTodo, sweepVars, histVars, boundVars>>

\* Both follow-ups read the loan first; activation needs status pending.
CycleReadLoan(c) ==
  LET seen == loan[LoanOf[chkHash[c]]] IN
  /\ chkPc[c] \in {"activate", "repay"}
  /\ chkSeen' = [chkSeen EXCEPT ![c] = seen]
  /\ chkPc' = [chkPc EXCEPT ![c] =
                 IF @ = "repay" THEN "repayWrite"
                 ELSE IF seen.status = "pending" THEN "activateWrite" ELSE "notify"]
  /\ UNCHANGED <<row, ageVars, loan, cache, netVars, subVars, pollVars,
                 isRunning, chkTodo, chkHash, chkOut, sweepVars, histVars,
                 boundVars>>

\* activatePendingLoan: UPDATE ... WHERE status = 'pending'.
CycleActivate(c) ==
  LET h == chkHash[c]
      l == LoanOf[h]
      hit == loan[l].status = "pending" IN
  /\ chkPc[c] = "activateWrite"
  /\ loan' = IF hit THEN [loan EXCEPT ![l].status = "active"] ELSE loan
  /\ applied' = IF hit THEN [applied EXCEPT ![h] = @ + 1] ELSE applied
  /\ chkPc' = [chkPc EXCEPT ![c] = "notify"]
  /\ UNCHANGED <<row, ageVars, cache, netVars, subVars, pollVars, isRunning,
                 chkTodo, chkHash, chkOut, chkSeen, sweepVars, recorded,
                 submitted, notices, boundVars>>

\* The loan row after a repayment of amt, computed from the row read before. The
\* status column is written only when the balance reaches zero and the row read
\* was not completed yet.
Repaid(now, seen, amt) ==
  LET left == IF seen.balance > amt THEN seen.balance - amt ELSE 0 IN
  [status  |-> IF left = 0 /\ seen.status # "completed" THEN "completed" ELSE now.status,
   balance |-> left]

\* applyLoanRepayment: the UPDATE has no condition on what was read.
CycleRepay(c) ==
  LET h == chkHash[c]
      l == LoanOf[h] IN
  /\ chkPc[c] = "repayWrite"
  /\ loan' = [loan EXCEPT ![l] = Repaid(@, chkSeen[c], AmountOf[h])]
  /\ applied' = [applied EXCEPT ![h] = @ + 1]
  /\ chkPc' = [chkPc EXCEPT ![c] = "notify"]
  /\ UNCHANGED <<row, ageVars, cache, netVars, subVars, pollVars, isRunning,
                 chkTodo, chkHash, chkOut, chkSeen, sweepVars, recorded,
                 submitted, notices, boundVars>>

\* A read or write of the follow-up failed: logged, and never tried again.
CycleFollowUpFails(c) ==
  /\ chkPc[c] \in {"activate", "activateWrite", "repay", "repayWrite"}
  /\ chkPc' = [chkPc EXCEPT ![c] = "notify"]
  /\ UNCHANGED <<row, ageVars, loan, cache, netVars, subVars, pollVars,
                 isRunning, chkTodo, chkHash, chkOut, chkSeen, sweepVars,
                 histVars, boundVars>>

\* buildNotificationPayload.
NoticeOf(h, v) ==
  CASE v = "failed" -> "transaction_failed"
    [] v = "success" /\ CallOf[h] = "create_loan" -> "loan_create_success"
    [] v = "success" /\ CallOf[h] \in {"repay_loan", "repay_installment"}
         -> "loan_repay_success"
    [] OTHER -> "transaction_success"

CycleNotify(c) ==
  LET h == chkHash[c] IN
  /\ chkPc[c] = "notify"
  /\ notices' = [notices EXCEPT ![h] = @ \cup {NoticeOf(h, chkOut[c])}]
  /\ NextTransaction(c)
  /\ UNCHANGED <<row, ageVars, loan, cache, netVars, subVars, pollVars,
                 isRunning, chkTodo, sweepVars, recorded, submitted, applied,
                 boundVars>>

CycleNotifyFails(c) ==
  /\ chkPc[c] = "notify"
  /\ NextTransaction(c)
  /\ UNCHANGED <<row, ageVars, loan, cache, netVars, subVars, pollVars,
                 isRunning, chkTodo, sweepVars, histVars, boundVars>>

\* cleanupOldTransactions: rows older than seven days that are not pending. (A
\* cycle that found nothing pending deletes twice; the second finds nothing.)
Expired == {h \in Hash : row[h] \in Verdict /\ age[h] = "old"}

\* Mutant: isRunning is not reset (no finally block).
CycleEndStillRunning(c) ==
  /\ chkPc[c] = "loop"
  /\ chkTodo[c] = {}
  /\ chkPc' = [chkPc EXCEPT ![c] = "off"]
  /\ UNCHANGED <<row, ageVars, loan, cache, netVars, subVars, pollVars,
                 isRunning, chkTodo, chkHash, chkOut, chkSeen, sweepVars,
                 histVars, boundVars>>

CycleEnd(c) ==
  /\ chkPc[c] = "loop"
  /\ chkTodo[c] = {}
  /\ row' = [h \in Hash |-> IF h \in Expired THEN "none" ELSE row[h]]
  /\ age' = [h \in Hash |-> IF h \in Expired THEN "fresh" ELSE age[h]]
  /\ older' = [h \in Hash |-> IF h \in Expired THEN {} ELSE older[h] \ Expired]
  /\ chkPc' = [chkPc EXCEPT ![c] = "off"]
  /\ isRunning' = FALSE
  /\ UNCHANGED <<loan, cache, netVars, subVars, pollVars, chkTodo, chkHash,
                 chkOut, chkSeen, sweepVars, histVars, boundVars>>

\* The deletion failed: logged, the cycle ends all the same.
CycleEndUncleaned(c) ==
  /\ chkPc[c] = "loop"
  /\ chkTodo[c] = {}
  /\ chkPc' = [chkPc EXCEPT ![c] = "off"]
  /\ isRunning' = FALSE
  /\ UNCHANGED <<row, ageVars, loan, cache, netVars, subVars, pollVars,
                 chkTodo, chkHash, chkOut, chkSeen, sweepVars, histVars,
                 boundVars>>

CycleNext ==
  \E c \in Cycle :
    \/ CycleFetch(c) \/ CycleFetchFails(c)
    \/ \E h \in Hash : CycleLookup(c, h) \/ CycleSkip(c, h)
    \/ CycleFinalize(c) \/ CycleFinalizeFails(c)
    \/ CycleReadLoan(c) \/ CycleActivate(c) \/ CycleRepay(c) \/ CycleFollowUpFails(c)
    \/ CycleNotify(c) \/ CycleNotifyFails(c)
    \/ CycleEnd(c) \/ CycleEndUncleaned(c)

-----------------------------------------------------------------------------
(* The orphan sweep of the reconciliation, every 15 minutes. The hashes it    *)
(* compares with come from indexed events, which carry the event id and not   *)
(* the transaction hash, so no recorded hash is ever among them. A run ends in *)
(* the backfill of the first such hash (module Standing): it comes as far as   *)
(* the sweep only while nothing is indexed, which is when the sweep happens    *)
(* here; that it need not happen is left to the absence of fairness.           *)

\* The snapshot of the table: pending rows older than thirty minutes.
Stale == {h \in Pending : age[h] # "fresh"}

SweepRead ==
  /\ sweepPc = "off"
  /\ sweepPc' = "loop"
  /\ sweepTodo' = Stale
  /\ UNCHANGED <<row, ageVars, loan, cache, netVars, subVars, pollVars,
                 chkVars, histVars, boundVars>>

\* markOrphaned: UPDATE by id, whatever the row's status is by now.
SweepMark(h) ==
  /\ sweepPc = "loop"
  /\ h \in sweepTodo
  /\ row' = IF row[h] = "none" THEN row ELSE [row EXCEPT ![h] = "failed"]
  /\ sweepTodo' = sweepTodo \ {h}
  /\ UNCHANGED <<ageVars, loan, cache, netVars, subVars, pollVars, chkVars,
                 sweepPc, histVars, boundVars>>

\* Nothing is left to mark, or a database error aborted the run.
SweepEnd ==
  /\ sweepPc = "loop"
  /\ sweepPc' = "off"
  /\ sweepTodo' = {}
  /\ UNCHANGED <<row, ageVars, loan, cache, netVars, subVars, pollVars,
                 chkVars, histVars, boundVars>>

SweepNext == SweepRead \/ (\E h \in Hash : SweepMark(h)) \/ SweepEnd

-----------------------------------------------------------------------------
(* Time and crashes.                                                         *)

SubmitQuiet == \A s \in Submit : subPc[s] = "idle"
Quiet ==
  /\ SubmitQuiet
  /\ \A p \in Poll : pollPc[p] = "idle"
  /\ \A c \in Cycle : chkPc[c] = "off"
  /\ sweepPc = "off"

\* Thirty minutes pass after the insert: longer than any submit request and
\* than the time bounds (30 and 300 s) of the transactions the API builds.
GrowStale(h) ==
  /\ row[h] # "none" /\ age[h] = "fresh"
  /\ \A g \in older[h] : age[g] # "fresh"
  /\ h \notin flying
  /\ SubmitQuiet
  /\ age' = [age EXCEPT ![h] = "stale"]
  /\ UNCHANGED <<row, older, loan, cache, netVars, subVars, pollVars, chkVars,
                 sweepVars, histVars, boundVars>>

\* Seven days pass: longer than any handler or cron cycle.
GrowOld(h) ==
  /\ row[h] # "none" /\ age[h] = "stale"
  /\ \A g \in older[h] : age[g] = "old"
  /\ Quiet
  /\ age' = [age EXCEPT ![h] = "old"]
  /\ UNCHANGED <<row, older, loan, cache, netVars, subVars, pollVars, chkVars,
                 sweepVars, histVars, boundVars>>

\* The process dies and restarts: handlers and the overlap guard are gone, the
\* database, Redis and the network keep what they have.
Crash ==
  /\ crashes < MaxCrash
  /\ crashes' = crashes + 1
  /\ subPc' = [s \in Submit |-> "idle"]
  /\ subHash' = [s \in Submit |-> NoHash]
  /\ pollPc' = [p \in Poll |-> "idle"]
  /\ pollHash' = [p \in Poll |-> NoHash]
  /\ pollFound' = [p \in Poll |-> FALSE]
  /\ pollOut' = [p \in Poll |-> "failed"]
  /\ isRunning' = FALSE
  /\ chkPc' = [c \in Cycle |-> "off"]
  /\ chkTodo' = [c \in Cycle |-> {}]
  /\ chkHash' = [c \in Cycle |-> NoHash]
  /\ chkOut' = [c \in Cycle |-> "failed"]
  /\ chkSeen' = [c \in Cycle |-> NoRow]
  /\ sweepPc' = "off"
  /\ sweepTodo' = {}
  /\ UNCHANGED <<row, ageVars, loan, cache, netVars, histVars, asks>>

EnvNext == (\E h \in Hash : Land(h) \/ Drop(h) \/ GrowStale(h) \/ GrowOld(h)) \/ Crash

Next == SubmitNext \/ PollNext \/ CycleNext \/ SweepNext \/ EnvNext

Spec == Init /\ [][Next]_vars

-----------------------------------------------------------------------------
(* Fairness: the checker's cron keeps ticking, a started cycle gets to its     *)
(* next call, and a call that the checker makes again and again succeeds some *)
(* time. Clients and the network owe nothing, and neither does the orphan     *)
(* sweep: with an event in the index no run of the reconciliation gets there.  *)

Fairness ==
  /\ WF_vars(CycleNext)
  /\ SF_vars(\E c \in Cycle : CycleFetch(c))
  /\ \A h \in Hash : SF_vars(\E c \in Cycle : CycleLookup(c, h))
  /\ SF_vars(\E c \in Cycle : CycleFinalize(c))
  /\ SF_vars(\E c \in Cycle : CycleReadLoan(c))
  /\ SF_vars(\E c \in Cycle : CycleActivate(c) \/ CycleRepay(c))

FairSpec == Spec /\ Fairness

-----------------------------------------------------------------------------
(* Properties.                                                               *)

\* Every variable stays within its type; in particular a loan's balance never
\* goes below zero (the Math.max(0, ...) of applyLoanRepayment).
TypeOK ==
  /\ row \in [Hash -> RowStatus]
  /\ age \in [Hash -> Age]
  /\ older \in [Hash -> SUBSET Hash]
  /\ loan \in [Loan -> LoanRow]
  /\ cache \in [Hash -> {"none"} \cup Verdict]
  /\ ledger \in [Hash -> {"absent"} \cup Verdict]
  /\ flying \in SUBSET Hash
  /\ subPc \in [Submit -> SubPc]
  /\ subHash \in [Submit -> Hash]
  /\ pollPc \in [Poll -> PollPc]
  /\ pollHash \in [Poll -> Hash]
  /\ pollFound \in [Poll -> BOOLEAN]
  /\ pollOut \in [Poll -> Verdict]
  /\ isRunning \in BOOLEAN
  /\ chkPc \in [Cycle -> ChkPc]
  /\ chkTodo \in [Cycle -> SUBSET Hash]
  /\ chkHash \in [Cycle -> Hash]
  /\ chkOut \in [Cycle -> Verdict]
  /\ chkSeen \in [Cycle -> LoanRow]
  /\ sweepPc \in SweepPc
  /\ sweepTodo \in SUBSET Hash
  /\ recorded \in [Hash -> Nat]
  /\ submitted \in [Hash -> Nat]
  /\ applied \in [Hash -> Nat]
  /\ notices \in [Hash -> SUBSET Notice]
  /\ asks \in Nat
  /\ crashes \in Nat

\* A transaction's follow-up changes its loan at most once for each time the
\* transaction was recorded, although status requests, the orphan sweep and
\* failed submits rewrite the same row and a cycle may die between its steps.
AppliedOncePerRecording == \A h \in Hash : applied[h] <= recorded[h]

\* A transaction goes to Horizon at most once for each time it was recorded:
\* of any number of concurrent or repeated requests, only the one whose insert
\* passed the unique index submits.
SubmittedOncePerRecording == \A h \in Hash : submitted[h] <= recorded[h]

\* What the API says for good is what the ledger says: a cached status answer
\* is the ledger's verdict, a row reads success only for a transaction that
\* succeeded, and the notifications sent tell the verdict. (A row may read failed
\* for a transaction that succeeded: the sweep fails every stale row.)
AnswersMatchLedger ==
  \A h \in Hash :
    /\ cache[h] # "none" => cache[h] = ledger[h]
    /\ row[h] = "success" => ledger[h] = "success"
    /\ "transaction_failed" \in notices[h] => ledger[h] = "failed"
    /\ notices[h] \ {"transaction_failed"} # {} => ledger[h] = "success"

\* What the repayments take from a loan, each as often as it was applied.
RepaidOf(l, times) ==
  MapThenSumSet(LAMBDA h : times[h] * AmountOf[h],
                {h \in Hash : LoanOf[h] = l /\ CallOf[h] = "repay_loan"})

\* A loan's balance is its principal less every repayment applied to it: no
\* checker step loses another's read-modify-write of remaining_balance.
BalanceAccountsForRepayments ==
  \A l \in Loan :
    LET repaid == RepaidOf(l, applied) IN
    loan[l].balance = IF repaid > Principal[l] THEN 0 ELSE Principal[l] - repaid

\* The detailed model implements the promise about recorded transactions.
Promise == INSTANCE TransactionPromise WITH
  row <- row, ledger <- ledger, recorded <- recorded, applied <- applied
PromiseKept == Promise!Spec

\* A recorded transaction that has reached a ledger does not stay pending: once
\* fewer than BatchLimit pending rows are older, the checker or something faster
\* resolves its row. (Behind a full batch of rows that never land it may starve.)
LandedRowSettles ==
  \A h \in Hash :
    (/\ row[h] = "pending" /\ ledger[h] # "absent"
     /\ Cardinality(older[h] \cap Pending) < BatchLimit)
      ~> row[h] # "pending"

=============================================================================
