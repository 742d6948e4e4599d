--------------------------------- MODULE LoanBook ---------------------------------
(***************************************************************************)
(* The loans table of one wallet and everything that writes it --             *)
(*   - POST /loans/create            (LoansService.createLoan)               *)
(*   - POST /loans/:id/assess        (LoansService.assessLoan)               *)
(*   - the follow-ups of the status checker on confirmed transactions        *)
(*   - the reconciliation with the index (reconcileLoans)                    *)
(* and POST /loans/:id/pay, which reads it twice. A row is made under a        *)
(* provisional loan_id; the contract knows the loan under an id of its own,     *)
(* which the reconciliation has to match with the row. Every await is a step    *)
(* of its own, so that these handlers overlap; the borrower, the ledger and      *)
(* the index (Indexer) are the environment.                                    *)
(***************************************************************************)
EXTENDS CreditTerms, FiniteSets, FiniteSetsExt, Functions

CONSTANTS
  Row,       \* rows of loans (their uuid)
  Req,       \* slots for concurrent requests
  Amount,    \* amounts of the applications
  Payment,   \* amounts of repayments
  Term,      \* months of the applications
  Standing,  \* scores that getReputationScore may answer
  MaxAsk     \* bound on assess requests and repayments

ASSUME BookAssumption ==
  /\ Amount \subseteq Nat \ {0} /\ Payment \subseteq Nat \ {0}
  /\ Term \in 1 .. 12
  /\ Standing \subseteq Int
  /\ MaxAsk \in Nat
  /\ Row # {}

VARIABLES
  book,      \* loans table: the row, or NoLoan
  req,       \* requests in progress
  signed,    \* rows whose create_loan transaction the borrower holds
  index,     \* loan_index.status of the loan that came from the row, "none" without a row
  confirmed, \* follow-ups of transactions that the checker has resolved as successful
  chk,       \* the repayment follow-up in progress
  rec,       \* the reconciliation in progress
  stray,     \* history: a reconciliation had read a loan of the index, but not its row
  asks       \* bounded by MaxAsk

env  == <<signed, index, confirmed>>
vars == <<book, req, env, chk, rec, stray, asks>>

\* loan_id: provisional, or the contract's, of the loan that was asked for in row r.
Prov(r)  == [row |-> r, by |-> "api"]
Chain(r) == [row |-> r, by |-> "contract"]
Name == [row : Row, by : {"api", "contract"}]

Undecided == {"pending", "under_review"}
OnLedger  == {"active", "paid", "defaulted"}   \* loan_index.status
Decided   == {"rejected", "completed"} \cup OnLedger

Loan == [status : Undecided \cup Decided, name : Name, amount : Amount, owed : Nat]
NoLoan == [status |-> "none"]

Rows(b) == {r \in Row : b[r] # NoLoan}

\* remaining_balance summed over the active loans: what runCreditAssessment and
\* getAvailableCredit count as used.
CreditUsed(b) == MapThenSumSet(LAMBDA r : b[r].owed, {r \in Rows(b) : b[r].status = "active"})

Request == [pc : {"idle", "decide", "write", "recheck"},
            row : Row, owed : Nat,
            seen : Undecided \cup {"none"},
            status : Undecided \cup {"rejected", "none"}]
Idle == [pc |-> "idle", row |-> CHOOSE r \in Row : TRUE, owed |-> 0,
         seen |-> "none", status |-> "none"]

NoCheck == [pc |-> "idle", name |-> Prov(CHOOSE r \in Row : TRUE), owed |-> 0, done |-> FALSE]
NoRun   == [pc |-> "idle", rows |-> <<>>, index |-> <<>>]

Init ==
  /\ book = [r \in Row |-> NoLoan]
  /\ req = [q \in Req |-> Idle]
  /\ signed = {}
  /\ index = [r \in Row |-> "none"]
  /\ confirmed = {}
  /\ chk = NoCheck
  /\ rec = NoRun
  /\ stray = FALSE
  /\ asks = 0

-----------------------------------------------------------------------------
(* POST /loans/create.                                                       *)

\* What runCreditAssessment takes as used: an error of its query counts as no loans.
UsedAsRead == {CreditUsed(book), 0}

\* createLoan: prepareLoanPreview reads the reputation and computes the terms;
\* runCreditAssessment reads the reputation again, and the active loans; the row is
\* inserted under a fresh provisional id. One step, because nothing in between depends
\* on what other handlers write, but for the active loans, and an error in reading
\* those counts as none. With the row the borrower gets the transaction of an approved
\* loan, unless the answer of the INSERT is lost.
CreateLoan(amount, score, again) ==
  /\ PreviewAdmits(score, amount)
  /\ \E used \in UsedAsRead, r \in Row \ Rows(book) :
       LET decision == Assess(again, amount, used)
           status == IF decision = "approved" THEN "pending" ELSE "under_review"
       IN /\ decision # "rejected"
          /\ book' = [book EXCEPT ![r] = [status |-> status, name |-> Prov(r), amount |-> amount,
                                          owed |-> TotalRepayment(score, amount, Term)]]
          /\ \/ signed' = IF decision = "approved" THEN signed \cup {r} ELSE signed
             \/ signed' = signed
  /\ UNCHANGED <<req, index, confirmed, chk, rec, stray, asks>>

\* Any other end of a request.
RequestFails(q) ==
  /\ req[q].pc # "idle"
  /\ req' = [req EXCEPT ![q] = Idle]
  /\ UNCHANGED <<book, env, chk, rec, stray, asks>>

-----------------------------------------------------------------------------
(* POST /loans/:id/assess.                                                   *)

\* Mutant: any loan may be assessed.
AssessReadAny(q, r) ==
  /\ req[q].pc = "idle"
  /\ asks < MaxAsk
  /\ r \in Rows(book)
  /\ asks' = asks + 1
  /\ req' = [req EXCEPT ![q] = [Idle EXCEPT !.pc = "decide", !.row = r,
               !.seen = book[r].status]]
  /\ UNCHANGED <<book, env, chk, rec, stray>>

\* The row of the caller's loan, which must not have been decided yet.
AssessRead(q, r) ==
  /\ req[q].pc = "idle"
  /\ asks < MaxAsk
  /\ r \in Rows(book) /\ book[r].status \in Undecided
  /\ asks' = asks + 1
  /\ req' = [req EXCEPT ![q] = [Idle EXCEPT !.pc = "decide", !.row = r,
               !.seen = book[r].status]]
  /\ UNCHANGED <<book, env, chk, rec, stray>>

AssessDecide(q, score) ==
  /\ req[q].pc = "decide"
  /\ \E used \in UsedAsRead :
       LET decision == Assess(score, book[req[q].row].amount, used) IN
       req' = [req EXCEPT ![q].pc = "write", ![q].status =
         CASE decision = "rejected" -> "rejected"
           [] decision = "approved" -> "pending"
           [] OTHER                 -> "under_review"]
  /\ UNCHANGED <<book, env, chk, rec, stray, asks>>

\* UPDATE loans SET status WHERE id, whatever the status is by now. An approval makes
\* no transaction: the borrower of a reviewed loan never gets one.
AssessWrite(q) ==
  /\ req[q].pc = "write"
  /\ book' = [book EXCEPT ![req[q].row].status = req[q].status]
  /\ req' = [req EXCEPT ![q] = Idle]
  /\ UNCHANGED <<env, chk, rec, stray, asks>>

-----------------------------------------------------------------------------
(* POST /loans/:id/pay.                                                      *)

\* repayLoan reads the balance for its preview ...
PayRead(q, r) ==
  /\ req[q].pc = "idle"
  /\ r \in Rows(book)
  /\ req' = [req EXCEPT ![q] = [Idle EXCEPT !.pc = "recheck", !.row = r, !.owed = book[r].owed]]
  /\ UNCHANGED <<book, env, chk, rec, stray, asks>>

\* Mutant: the amount is not held against the balance.
PayableAnyAmount(r, amount) == book[r].status = "active"

\* ... and buildRepaymentXdr reads the row again and checks it.
Payable(r, amount) == book[r].status = "active" /\ amount <= book[r].owed

\* The answer: an unsigned transaction and the preview, of which owed is newBalance.
Answered(q, amount) ==
  /\ req[q].pc = "recheck"
  /\ Payable(req[q].row, amount)
PayAnswer(q, amount) ==
  /\ Answered(q, amount)
  /\ req' = [req EXCEPT ![q] = Idle]
  /\ UNCHANGED <<book, env, chk, rec, stray, asks>>

-----------------------------------------------------------------------------
(* The borrower, the ledger, the index.                                      *)

\* The contract makes the loan. The checker learns of it if the transaction was
\* submitted through the API, the index in any case.
LoanLands(r) ==
  /\ r \in signed
  /\ signed' = signed \ {r}
  /\ index' = [index EXCEPT ![r] = "active"]
  /\ \/ confirmed' = confirmed \cup {[kind |-> "create", name |-> Prov(r), amount |-> 0]}
     \/ confirmed' = confirmed
  /\ UNCHANGED <<book, req, chk, rec, stray, asks>>

\* A repay_loan transaction for the loan under one of its ids is confirmed.
RepaymentLands(r, name, amount) ==
  /\ asks < MaxAsk
  /\ index[r] # "none"
  /\ asks' = asks + 1
  /\ confirmed' = confirmed \cup {[kind |-> "repay", name |-> name, amount |-> amount]}
  /\ UNCHANGED <<book, req, signed, index, chk, rec, stray>>

\* The index learns that the loan is in default, or of a repayment: it is paid then, or
\* active (again).
IndexDefault(r) ==
  /\ index[r] = "active"
  /\ index' = [index EXCEPT ![r] = "defaulted"]
  /\ UNCHANGED <<book, req, signed, confirmed, chk, rec, stray, asks>>

IndexRepaid(r, status) ==
  /\ asks < MaxAsk
  /\ index[r] \in {"active", "defaulted"}
  /\ asks' = asks + 1
  /\ index' = [index EXCEPT ![r] = status]
  /\ UNCHANGED <<book, req, signed, confirmed, chk, rec, stray>>

-----------------------------------------------------------------------------
(* The follow-ups of the status checker, one at a time.                      *)

Named(n) == {r \in Rows(book) : book[r].name = n}

\* activatePendingLoan reads the row by its loan_id and updates it if it is pending at
\* both times: the same as doing so at the time of the UPDATE alone.
FollowUpActivate(f) ==
  /\ chk.pc = "idle" /\ f \in confirmed /\ f.kind = "create"
  /\ confirmed' = confirmed \ {f}
  /\ book' = [r \in Row |-> IF r \in Named(f.name) /\ book[r].status = "pending"
                            THEN [book[r] EXCEPT !.status = "active"] ELSE book[r]]
  /\ UNCHANGED <<req, signed, index, chk, rec, stray, asks>>

\* applyLoanRepayment reads the balance and the status ...
FollowUpRepayRead(f) ==
  /\ chk.pc = "idle" /\ f \in confirmed /\ f.kind = "repay"
  /\ confirmed' = confirmed \ {f}
  /\ chk' = IF Named(f.name) = {} THEN NoCheck
            ELSE LET loan == book[CHOOSE r \in Named(f.name) : TRUE]
                     left == IF loan.owed > f.amount THEN loan.owed - f.amount ELSE 0
                 IN  [pc |-> "write", name |-> f.name, owed |-> left,
                      done |-> left = 0 /\ loan.status # "completed"]
  /\ UNCHANGED <<book, req, signed, index, rec, stray, asks>>

\* ... and writes the balance, and 'completed' when nothing is left, to the row that
\* has the loan_id by then, if any.
FollowUpRepayWrite ==
  /\ chk.pc = "write"
  /\ book' = [r \in Row |-> IF r \in Named(chk.name)
                THEN [book[r] EXCEPT !.owed = chk.owed,
                                     !.status = IF chk.done THEN "completed" ELSE @]
                ELSE book[r]]
  /\ chk' = NoCheck
  /\ UNCHANGED <<req, env, rec, stray, asks>>

\* A follow-up that fails is not repeated.
FollowUpFails ==
  /\ \/ \E f \in confirmed : confirmed' = confirmed \ {f} /\ UNCHANGED chk
     \/ chk.pc = "write" /\ chk' = NoCheck /\ UNCHANGED confirmed
  /\ UNCHANGED <<book, req, signed, index, rec, stray, asks>>

-----------------------------------------------------------------------------
(* The reconciliation, every fifteen minutes, one run at a time.             *)

\* What a run uses of the rows (their amounts never change), and of the index.
RowsRead  == [r \in Rows(book) |-> [name |-> book[r].name, status |-> book[r].status]]
IndexRead == [r \in {c \in Row : index[c] # "none"} |-> index[r]]

\* Promise.all: the index and the rows are read at the same time, in either order.
ReconcileStart ==
  /\ rec.pc = "idle"
  /\ \/ rec' = [NoRun EXCEPT !.pc = "rows", !.index = IndexRead]
     \/ rec' = [NoRun EXCEPT !.pc = "index", !.rows = RowsRead]
  /\ UNCHANGED <<book, req, env, chk, stray, asks>>

\* The loop over the loans of the index that x holds, to its end.
Loop(rows, x) == IF DOMAIN x = {} THEN NoRun ELSE [pc |-> "loans", rows |-> rows, index |-> x]

ReconcileRead ==
  /\ \/ rec.pc = "rows" /\ rec' = Loop(RowsRead, rec.index)
     \/ rec.pc = "index" /\ rec' = Loop(rec.rows, IndexRead)
  /\ stray' = (stray \/ ~(DOMAIN rec'.index \subseteq DOMAIN rec'.rows))
  /\ UNCHANGED <<book, req, env, chk, asks>>

\* Loan c of the index has had its turn.
Done(c) == rec' = Loop(rec.rows, Restrict(rec.index, DOMAIN rec.index \ {c}))

\* The row that had the contract's id of loan c when the rows were read.
Known(c) == {r \in DOMAIN rec.rows : rec.rows[r].name = Chain(c)}

\* The other rows that had a provisional id; those matched in this run are still among
\* them, whatever their status.
Candidates == {r \in DOMAIN rec.rows : rec.rows[r].name.by = "api"}

\* principal_amount of the loan in the index, and the rows that fit it: the contract
\* reports what it lends, and a row fits by its amount or by 80 % of it.
Principal(c) == LoanAmount(book[c].amount)
FitsAmount(amount, principal) == amount = principal \/ 8 * amount = 10 * principal
Fits(c, r) == FitsAmount(book[r].amount, Principal(c))

\* Mutant: the first provisional row is taken.
MatchesFirst(c) == Candidates

\* A row that fits, or else the only candidate.
Matches(c) ==
  IF \E r \in Candidates : Fits(c, r) THEN {r \in Candidates : Fits(c, r)}
  ELSE IF Cardinality(Candidates) = 1 THEN Candidates ELSE {}

\* updateStatus of a row that had another status when it was read.
ReconcileKnown(c) ==
  /\ rec.pc = "loans" /\ c \in DOMAIN rec.index /\ Known(c) # {}
  /\ \E r \in Known(c) :
       book' = IF rec.rows[r].status = rec.index[c] THEN book
               ELSE [book EXCEPT ![r].status = rec.index[c]]
  /\ Done(c)
  /\ UNCHANGED <<req, env, chk, stray, asks>>

\* Mutant: the status is written, and the id is not.
ReconcileProvisionalUnnamed(c) ==
  /\ rec.pc = "loans" /\ c \in DOMAIN rec.index /\ Known(c) = {}
  /\ \E r \in Matches(c) : book' = [book EXCEPT ![r].status = rec.index[c]]
  /\ Done(c)
  /\ UNCHANGED <<req, env, chk, stray, asks>>

\* resolveProvisionalId of a matching row.
ReconcileProvisional(c) ==
  /\ rec.pc = "loans" /\ c \in DOMAIN rec.index /\ Known(c) = {}
  /\ \E r \in Matches(c) :
       book' = [book EXCEPT ![r].name = Chain(c), ![r].status = rec.index[c]]
  /\ Done(c)
  /\ UNCHANGED <<req, env, chk, stray, asks>>

\* "missing_loan_row" is counted, and not repaired.
ReconcileMissing(c) ==
  /\ rec.pc = "loans" /\ c \in DOMAIN rec.index /\ Known(c) = {} /\ Matches(c) = {}
  /\ Done(c)
  /\ UNCHANGED <<book, req, env, chk, stray, asks>>

\* A call fails, or the process dies: the rest of the run is left to the next one.
ReconcileFails ==
  /\ rec.pc # "idle"
  /\ rec' = NoRun
  /\ UNCHANGED <<book, req, env, chk, stray, asks>>

-----------------------------------------------------------------------------

RequestNext ==
  \/ \E amount \in Amount, score, again \in Standing : CreateLoan(amount, score, again)
  \/ \E q \in Req :
       \/ \E score \in Standing : AssessDecide(q, score)
       \/ AssessWrite(q) \/ RequestFails(q)
       \/ \E r \in Row : AssessRead(q, r) \/ PayRead(q, r)
       \/ \E amount \in Payment : PayAnswer(q, amount)

LedgerNext ==
  \E r \in Row :
    \/ LoanLands(r)
    \/ \E name \in {Prov(r), Chain(r)}, amount \in Payment : RepaymentLands(r, name, amount)
    \/ IndexDefault(r)
    \/ \E status \in {"active", "paid"} : IndexRepaid(r, status)

FollowUpNext ==
  \/ \E f \in confirmed : FollowUpActivate(f) \/ FollowUpRepayRead(f)
  \/ FollowUpRepayWrite \/ FollowUpFails

ReconcileStep ==
  \/ ReconcileStart \/ ReconcileRead
  \/ \E c \in Row : ReconcileKnown(c) \/ ReconcileProvisional(c) \/ ReconcileMissing(c)

Next == RequestNext \/ LedgerNext \/ FollowUpNext \/ ReconcileStep \/ ReconcileFails

\* The cron starts the reconciliation again and again, and its calls return.
Spec == Init /\ [][Next]_vars /\ WF_vars(ReconcileStep)

-----------------------------------------------------------------------------
(* Properties.                                                               *)

\* Every variable stays within its type, and loan_id is unique.
TypeOK ==
  /\ book \in [Row -> Loan \cup {NoLoan}]
  /\ \A r, s \in Rows(book) : book[r].name = book[s].name => r = s
  /\ req \in [Req -> Request]
  /\ signed \subseteq Rows(book)
  /\ index \in [Row -> OnLedger \cup {"none"}]
  /\ \A f \in confirmed : f.kind \in {"create", "repay"} /\ f.name \in Name /\ f.amount \in Nat
  /\ chk.pc \in {"idle", "write"} /\ chk.name \in Name /\ chk.owed \in Nat
  /\ rec.pc \in {"idle", "rows", "index", "loans"} /\ DOMAIN rec.index \subseteq Row
  /\ stray \in BOOLEAN

\* A row fits the principal of its own loan (it does not, if 80 % of the amount are no
\* whole cents) and of no other, and no run has had a loan without its row.
ToldApart ==
  /\ \A r, s \in Rows(book) : FitsAmount(book[s].amount, Principal(r)) <=> r = s
  /\ ~stray

\* The reconciliation gives every loan of the contract the row it was asked for in, as
\* long as the amounts tell the loans apart and no run had the loan without its row:
\* also when rows are made, assessed and activated, and runs die, in between.
RowsKeepTheirLoan ==
  ToldApart =>
    \A r \in Rows(book) : book[r].name \in {Prov(r), Chain(r)}

\* A loan that was decided is opened again only by an assessment that had read it while
\* it was not: one that an activation, an assessment or the reconciliation overtook.
ReopenedByOvertaken ==
  [][\A r \in Rows(book) :
       book[r].status \in Decided /\ book'[r].status \in Undecided
       => \E q \in Req : req[q].pc = "write" /\ req[q].row = r /\ req[q].seen \in Undecided]_vars

\* A repayment that is offered never takes the balance of its preview below zero,
\* though preview and check read the row at different times: balances only fall.
PreviewHolds ==
  [][\A q \in Req, amount \in Payment :
       ToldApart /\ PayAnswer(q, amount) => req[q].owed - amount >= 0]_vars

\* If from some time on the runs of the reconciliation do not fail, the book comes to
\* agree with the index for good, whatever was lost, overwritten or left half done
\* before, as long as the amounts tell the loans apart. (A run that fails where it had
\* nothing left to write looks like one that ends.)
BookFollowsIndex ==
  <>[][ReconcileFails => ReconcileStep]_vars =>
    <>[](ToldApart => \A r \in DOMAIN IndexRead :
                        book[r].name = Chain(r) /\ book[r].status = index[r])

=============================================================================
