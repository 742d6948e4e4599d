------------------------------- MODULE LoanBookProofs -------------------------------
(* Proofs about LoanBook: a row keeps the id of its loan, balances only fall, and a  *)
(* decided loan is opened again only by an assessment that was overtaken.            *)
EXTENDS LoanBook, TLAPS

-----------------------------------------------------------------------------
\* The figures

LEMMA RateIsNat == ASSUME NEW score \in Int PROVE InterestRate(score) \in Nat
  <1>1. Clamped(score) \in 0 .. 100
    BY DEF Clamped
  <1>2. \E t \in Tiers :
          /\ Clamped(score) >= MinScore[t]
          /\ \A u \in Tiers : Clamped(score) >= MinScore[u] => MinScore[u] <= MinScore[t]
    <2>1. CASE Clamped(score) >= 90
      BY <1>1, <2>1 DEF Tiers, MinScore
    <2>2. CASE Clamped(score) >= 75 /\ Clamped(score) < 90
      BY <1>1, <2>2 DEF Tiers, MinScore
    <2>3. CASE Clamped(score) >= 60 /\ Clamped(score) < 75
      BY <1>1, <2>3 DEF Tiers, MinScore
    <2>4. CASE Clamped(score) < 60
      BY <1>1, <2>4 DEF Tiers, MinScore
    <2> QED
      BY <1>1, <2>1, <2>2, <2>3, <2>4
  <1>3. Tier(score) \in Tiers
    BY <1>2 DEF Tier
  <1> QED
    BY <1>3 DEF InterestRate, Tiers

LEMMA ProductIsNat == ASSUME NEW a \in Nat, NEW b \in Nat PROVE a * b \in Nat
  OBVIOUS

LEMMA RepaymentIsNat ==
  ASSUME NEW score \in Int, NEW amount \in Nat
  PROVE  TotalRepayment(score, amount, Term) \in Nat
  <1>1. LoanAmount(amount) \in Nat
    BY DEF LoanAmount, Rounded
  <1>2. InterestRate(score) \in Nat /\ Term \in Nat
    BY RateIsNat, BookAssumption
  <1>3. InterestRate(score) * Term \in Nat
    BY <1>2, ProductIsNat
  <1>4. 1200 + InterestRate(score) * Term \in Nat
    BY <1>3
  <1> DEFINE a == LoanAmount(amount) * (1200 + InterestRate(score) * Term)
  <1>5. a \in Nat
    BY <1>1, <1>4, ProductIsNat
  <1> HIDE DEF a
  <1>6. Rounded(a, 1200) \in Nat
    BY <1>5 DEF Rounded
  <1> QED
    BY <1>6 DEF TotalRepayment, a

-----------------------------------------------------------------------------
\* The types

Status == Undecided \cup Decided
RowRead == [name : Name, status : Status]
RowsOf  == UNION {[S -> RowRead] : S \in SUBSET Row}
IndexOf == UNION {[S -> OnLedger] : S \in SUBSET Row}

Check == [pc : {"idle", "write"}, name : Name, owed : Nat, done : BOOLEAN]
Run   == [pc : {"idle", "rows", "index", "loans"}, rows : RowsOf, index : IndexOf]

\* TypeOK, with what a request, a follow-up and a run hold.
TypeInv ==
  /\ book \in [Row -> Loan \cup {NoLoan}]
  /\ req \in [Req -> Request]
  /\ signed \subseteq Rows(book)
  /\ index \in [Row -> OnLedger \cup {"none"}]
  /\ \A f \in confirmed : f.kind \in {"create", "repay"} /\ f.name \in Name /\ f.amount \in Nat
  /\ chk \in Check
  /\ rec \in Run
  /\ stray \in BOOLEAN
  /\ \A q \in Req : /\ req[q].pc # "idle" => req[q].row \in Rows(book)
                    /\ req[q].pc \in {"decide", "write"} => req[q].seen \in Undecided
                    /\ req[q].pc = "write" => req[q].status \in Undecided \cup {"rejected"}

LEMMA Constants ==
  /\ Idle \in Request /\ NoCheck \in Check /\ NoRun \in Run
  /\ Idle.pc = "idle" /\ NoCheck.pc = "idle" /\ NoRun.pc = "idle"
  /\ \A r \in Row : Prov(r) \in Name /\ Chain(r) \in Name
  /\ \A r, s \in Row : Prov(r) # Chain(s) /\ (Prov(r) = Prov(s) => r = s) /\ (Chain(r) = Chain(s) => r = s)
  <1>1. (CHOOSE r \in Row : TRUE) \in Row
    BY BookAssumption
  <1>2. \A r \in Row : Prov(r) \in Name /\ Chain(r) \in Name
    BY DEF Prov, Chain, Name
  <1>3. \A r, s \in Row : Prov(r) # Chain(s) /\ (Prov(r) = Prov(s) => r = s) /\ (Chain(r) = Chain(s) => r = s)
    BY DEF Prov, Chain
  <1>4. <<>> \in RowsOf /\ <<>> \in IndexOf
    <2>1. <<>> \in [{} -> RowRead] /\ <<>> \in [{} -> OnLedger]
      OBVIOUS
    <2> QED
      BY <2>1 DEF RowsOf, IndexOf
  <1>5. Idle \in Request /\ NoCheck \in Check /\ NoRun \in Run
    BY <1>1, <1>2, <1>4 DEF Idle, Request, NoCheck, Check, NoRun, Run
  <1> QED
    BY <1>2, <1>3, <1>5 DEF Idle, NoCheck, NoRun

\* A row that is there has the fields of a loan.
LEMMA RowFacts ==
  ASSUME book \in [Row -> Loan \cup {NoLoan}]
  PROVE  /\ Rows(book) \subseteq Row
         /\ \A r \in Rows(book) : book[r] \in Loan
         /\ \A r \in Row : r \in Rows(book) <=> book[r] # NoLoan
         /\ \A loan \in Loan : loan # NoLoan
  <1>1. \A loan \in Loan : loan.status # NoLoan.status
    BY DEF Loan, NoLoan, Undecided, Decided, OnLedger
  <1> QED
    BY <1>1 DEF Rows

LEMMA TypeInit == Init => TypeInv
  BY Constants DEF Init, TypeInv, Rows

\* The rows after a step that changes some of their statuses, balances and names.
LEMMA RowsKept ==
  ASSUME TypeInv, NEW R \in SUBSET Rows(book), NEW new \in [R -> Loan],
         book' = [r \in Row |-> IF r \in R THEN new[r] ELSE book[r]]
  PROVE  /\ book' \in [Row -> Loan \cup {NoLoan}] /\ Rows(book)' = Rows(book)
         /\ \A r \in R : book'[r] = new[r]
         /\ \A r \in Row \ R : book'[r] = book[r]
  <1>1. book' \in [Row -> Loan \cup {NoLoan}]
    BY RowFacts DEF TypeInv
  <1>2. R \subseteq Row /\ \A r \in R : new[r] # NoLoan /\ book[r] # NoLoan
    BY RowFacts DEF TypeInv
  <1> QED
    BY <1>1, <1>2 DEF Rows

\* Steps of requests, and of the borrower, the ledger and the index.
Elsewhere ==
  \/ \E q \in Req : \/ \E r \in Row : AssessRead(q, r) \/ PayRead(q, r)
                    \/ \E score \in Standing : AssessDecide(q, score)
                    \/ RequestFails(q)
                    \/ \E amount \in Payment : PayAnswer(q, amount)
  \/ LedgerNext
  \/ FollowUpFails

LEMMA TypeElsewhere == TypeInv /\ Elsewhere => TypeInv' /\ UNCHANGED <<book, rec, stray>>
  <1> SUFFICES ASSUME TypeInv, Elsewhere PROVE TypeInv' /\ UNCHANGED <<book, rec, stray>>
    OBVIOUS
  <1>0. UNCHANGED <<book, rec, stray>> /\ Rows(book)' = Rows(book)
    BY DEF Elsewhere, AssessRead, PayRead, AssessDecide, RequestFails, PayAnswer, LedgerNext, LoanLands,
       RepaymentLands, IndexDefault, IndexRepaid, FollowUpFails, Rows
  \* A request goes on, and nothing else changes.
  <1>a. ASSUME NEW q \in Req, NEW x \in Request, req' = [req EXCEPT ![q] = x], UNCHANGED <<env, chk>>,
               x.pc # "idle" => x.row \in Rows(book),
               x.pc \in {"decide", "write"} => x.seen \in Undecided,
               x.pc = "write" => x.status \in Undecided \cup {"rejected"}
        PROVE  TypeInv'
    BY <1>0, <1>a DEF TypeInv, env
  <1>1. ASSUME NEW q \in Req, NEW r \in Row, AssessRead(q, r) PROVE TypeInv'
    <2> DEFINE x == [Idle EXCEPT !.pc = "decide", !.row = r, !.seen = book[r].status]
    <2>1. x \in Request /\ x.row = r /\ x.pc = "decide" /\ x.seen \in Undecided /\ r \in Rows(book)
      BY <1>1, Constants DEF AssessRead, Request
    <2>2. req' = [req EXCEPT ![q] = x] /\ UNCHANGED <<env, chk>>
      BY <1>1 DEF AssessRead
    <2> HIDE DEF x
    <2> QED
      BY <1>a, <2>1, <2>2
  <1>2. ASSUME NEW q \in Req, NEW r \in Row, PayRead(q, r) PROVE TypeInv'
    <2> DEFINE x == [Idle EXCEPT !.pc = "recheck", !.row = r, !.owed = book[r].owed]
    <2>0. r \in Rows(book) /\ book[r].owed \in Nat
      BY <1>2, RowFacts DEF PayRead, TypeInv, Loan
    <2>1. x \in Request /\ x.row = r /\ x.pc = "recheck"
      BY <2>0, Constants DEF Request
    <2>2. req' = [req EXCEPT ![q] = x] /\ UNCHANGED <<env, chk>>
      BY <1>2 DEF PayRead
    <2> HIDE DEF x
    <2> QED
      BY <1>a, <2>0, <2>1, <2>2
  <1>3. ASSUME NEW q \in Req, NEW score \in Standing, AssessDecide(q, score) PROVE TypeInv'
    <2>1. PICK status \in {"rejected", "pending", "under_review"} :
            req' = [req EXCEPT ![q].pc = "write", ![q].status = status]
      BY <1>3 DEF AssessDecide
    <2> DEFINE x == [req[q] EXCEPT !.pc = "write", !.status = status]
    <2>2. /\ x \in Request /\ x.row = req[q].row /\ x.pc = "write" /\ x.seen = req[q].seen
          /\ x.status \in Undecided \cup {"rejected"}
      BY <2>1 DEF TypeInv, Request, Undecided
    <2>3. req' = [req EXCEPT ![q] = x] /\ UNCHANGED <<env, chk>> /\ req[q].pc = "decide"
      BY <1>3, <2>1 DEF AssessDecide, TypeInv
    <2>4. req[q].row \in Rows(book) /\ req[q].seen \in Undecided
      BY <2>3 DEF TypeInv
    <2> HIDE DEF x
    <2> QED
      BY <1>a, <2>2, <2>3, <2>4
  <1>4. ASSUME NEW q \in Req, NEW amount \in Payment, RequestFails(q) \/ PayAnswer(q, amount) PROVE TypeInv'
    <2>1. req' = [req EXCEPT ![q] = Idle] /\ UNCHANGED <<env, chk>>
      BY <1>4 DEF RequestFails, PayAnswer
    <2> QED
      BY <1>a, <2>1, Constants
  <1>4a. ASSUME NEW q \in Req, RequestFails(q) PROVE TypeInv'
    <2>1. req' = [req EXCEPT ![q] = Idle] /\ UNCHANGED <<env, chk>>
      BY <1>4a DEF RequestFails
    <2> QED
      BY <1>a, <2>1, Constants
  <1>5. CASE LedgerNext
    <2>1. PICK r \in Row : \/ LoanLands(r)
                           \/ \E name \in {Prov(r), Chain(r)}, amount \in Payment : RepaymentLands(r, name, amount)
                           \/ IndexDefault(r)
                           \/ \E status \in {"active", "paid"} : IndexRepaid(r, status)
      BY <1>5 DEF LedgerNext
    <2>2. UNCHANGED <<req, chk>> /\ signed' \subseteq signed
      BY <2>1 DEF LoanLands, RepaymentLands, IndexDefault, IndexRepaid
    <2>3. index' \in [Row -> OnLedger \cup {"none"}]
      BY <2>1 DEF LoanLands, RepaymentLands, IndexDefault, IndexRepaid, TypeInv, OnLedger
    <2>4. \A f \in confirmed' : f.kind \in {"create", "repay"} /\ f.name \in Name /\ f.amount \in Nat
      <3>1. confirmed' \subseteq confirmed \cup {[kind |-> k, name |-> n, amount |-> m] :
                                                   k \in {"create", "repay"}, n \in Name, m \in Nat}
        BY <2>1, Constants, BookAssumption DEF LoanLands, RepaymentLands, IndexDefault, IndexRepaid
      <3> QED
        BY <3>1 DEF TypeInv
    <2> QED
      BY <1>0, <2>2, <2>3, <2>4 DEF TypeInv
  <1>6. CASE FollowUpFails
    <2>1. UNCHANGED <<req, signed, index>> /\ confirmed' \subseteq confirmed /\ chk' \in {chk, NoCheck}
      BY <1>6 DEF FollowUpFails
    <2> QED
      BY <1>0, <2>1, Constants DEF TypeInv
  <1> QED
    BY <1>0, <1>1, <1>2, <1>3, <1>4, <1>4a, <1>5, <1>6 DEF Elsewhere

LEMMA CreateEffect ==
  ASSUME TypeInv, NEW amount \in Amount, NEW score \in Standing, NEW again \in Standing,
         CreateLoan(amount, score, again)
  PROVE  \E r \in Row \ Rows(book), loan \in Loan :
           /\ loan.name = Prov(r)
           /\ book' = [book EXCEPT ![r] = loan]
           /\ signed' \subseteq signed \cup {r}
           /\ UNCHANGED <<req, index, confirmed, chk, rec, stray>>
  <1>1. PICK r \in Row \ Rows(book), status \in {"pending", "under_review"} :
          /\ book' = [book EXCEPT ![r] = [status |-> status, name |-> Prov(r), amount |-> amount,
                                          owed |-> TotalRepayment(score, amount, Term)]]
          /\ signed' \subseteq signed \cup {r}
    BY DEF CreateLoan
  <1> DEFINE loan == [status |-> status, name |-> Prov(r), amount |-> amount,
                      owed |-> TotalRepayment(score, amount, Term)]
  <1>2. loan \in Loan /\ loan.name = Prov(r)
    <2>1. TotalRepayment(score, amount, Term) \in Nat
      BY RepaymentIsNat, BookAssumption
    <2> QED
      BY <2>1, Constants DEF Loan, Undecided
  <1> QED
    BY <1>1, <1>2 DEF CreateLoan

\* The fields that a change of the status keeps.
StatusOnly ==
  /\ book' \in [Row -> Loan \cup {NoLoan}] /\ Rows(book)' = Rows(book)
  /\ \A r \in Rows(book) : /\ book'[r].name = book[r].name /\ book'[r].amount = book[r].amount
                           /\ book'[r].owed = book[r].owed

LEMMA StatusKept ==
  ASSUME TypeInv, NEW R \in SUBSET Rows(book), NEW st \in [R -> Status],
         book' = [r \in Row |-> IF r \in R THEN [book[r] EXCEPT !.status = st[r]] ELSE book[r]]
  PROVE  StatusOnly /\ \A r \in R : book'[r].status = st[r]
  <1> DEFINE new == [r \in R |-> [book[r] EXCEPT !.status = st[r]]]
  <1>1. \A r \in R : book[r] \in Loan
    BY RowFacts DEF TypeInv
  <1>2. \A r \in R : new[r] \in Loan /\ new[r].name = book[r].name /\ new[r].amount = book[r].amount
                     /\ new[r].owed = book[r].owed /\ new[r].status = st[r]
    BY <1>1 DEF Loan, Status
  <1>3. new \in [R -> Loan] /\ book' = [r \in Row |-> IF r \in R THEN new[r] ELSE book[r]]
    BY <1>2
  <1> HIDE DEF new
  <1>4. /\ book' \in [Row -> Loan \cup {NoLoan}] /\ Rows(book)' = Rows(book)
        /\ \A r \in R : book'[r] = new[r]
        /\ \A r \in Row \ R : book'[r] = book[r]
    BY <1>3, RowsKept
  <1> QED
    BY <1>2, <1>4, RowFacts DEF StatusOnly, TypeInv

LEMMA AssessEffect ==
  ASSUME TypeInv, NEW q \in Req, AssessWrite(q)
  PROVE  StatusOnly
  <1>1. req[q].row \in Rows(book) /\ req[q].status \in Status /\ book' = [book EXCEPT ![req[q].row].status = req[q].status]
    BY DEF AssessWrite, TypeInv, Status, Decided
  <1> DEFINE R == {req[q].row}
             st == [r \in R |-> req[q].status]
  <1>2. R \in SUBSET Rows(book) /\ st \in [R -> Status]
    BY <1>1
  <1>3. book' = [r \in Row |-> IF r \in R THEN [book[r] EXCEPT !.status = st[r]] ELSE book[r]]
    BY <1>1 DEF TypeInv
  <1> HIDE DEF R, st
  <1> QED
    BY <1>2, <1>3, StatusKept

LEMMA ActivateEffect ==
  ASSUME TypeInv, NEW f \in confirmed, FollowUpActivate(f)
  PROVE  StatusOnly /\ \A r \in Rows(book) : book'[r].status \in {book[r].status, "active"}
  <1> DEFINE R == {r \in Named(f.name) : book[r].status = "pending"}
             st == [r \in R |-> "active"]
  <1>1. R \in SUBSET Rows(book) /\ st \in [R -> Status]
    BY DEF Named, Status, Decided, OnLedger
  <1>2. book' = [r \in Row |-> IF r \in R THEN [book[r] EXCEPT !.status = st[r]] ELSE book[r]]
    BY DEF FollowUpActivate
  <1>3. \A r \in R : st[r] = "active"
    OBVIOUS
  <1>4. \A r \in Row \ R : book'[r] = book[r]
    BY <1>2
  <1> HIDE DEF R, st
  <1> QED
    BY <1>1, <1>2, <1>3, <1>4, StatusKept, RowFacts DEF TypeInv

\* A run's copy of the rows and of the index.
LEMMA RunFacts ==
  ASSUME TypeInv
  PROVE  /\ rec.pc \in {"idle", "rows", "index", "loans"}
         /\ rec.rows \in [DOMAIN rec.rows -> RowRead] /\ DOMAIN rec.rows \subseteq Row
         /\ rec.index \in [DOMAIN rec.index -> OnLedger] /\ DOMAIN rec.index \subseteq Row
  BY DEF TypeInv, Run, RowsOf, IndexOf

LEMMA KnownEffect ==
  ASSUME TypeInv, DOMAIN rec.rows \subseteq Rows(book), NEW c \in Row, ReconcileKnown(c)
  PROVE  StatusOnly /\ \A r \in Rows(book) : book'[r].status \in {book[r].status} \cup OnLedger
  <1>1. PICK r \in Known(c) : book' = IF rec.rows[r].status = rec.index[c] THEN book
                                      ELSE [book EXCEPT ![r].status = rec.index[c]]
    BY DEF ReconcileKnown
  <1>2. r \in Rows(book) /\ rec.index[c] \in OnLedger /\ r \in Row
    BY RunFacts, RowFacts DEF Known, ReconcileKnown, TypeInv
  <1>3. CASE UNCHANGED book
    BY <1>3 DEF StatusOnly, TypeInv, Rows
  <1>4. CASE book' = [book EXCEPT ![r].status = rec.index[c]]
    <2> DEFINE R == {r}
               st == [x \in R |-> rec.index[c]]
    <2>1. R \in SUBSET Rows(book) /\ st \in [R -> Status] /\ \A x \in R : st[x] \in OnLedger
      BY <1>2 DEF Status, Decided
    <2>2. book' = [x \in Row |-> IF x \in R THEN [book[x] EXCEPT !.status = st[x]] ELSE book[x]]
      BY <1>4 DEF TypeInv
    <2>3. \A x \in Row \ R : book'[x] = book[x]
      BY <2>2
    <2> HIDE DEF R, st
    <2> QED
      BY <2>1, <2>2, <2>3, StatusKept, RowFacts DEF TypeInv
  <1> QED
    BY <1>1, <1>3, <1>4

\* The row that has the loan_id gets the balance; the names stay.
LEMMA RepayEffect ==
  ASSUME TypeInv, FollowUpRepayWrite
  PROVE  /\ book' \in [Row -> Loan \cup {NoLoan}] /\ Rows(book)' = Rows(book)
         /\ \A r \in Rows(book) : /\ book'[r].name = book[r].name /\ book'[r].amount = book[r].amount
                                  /\ book'[r].owed = IF r \in Named(chk.name) THEN chk.owed ELSE book[r].owed
                                  /\ book'[r].status \in {book[r].status, "completed"}
  <1> DEFINE R   == Named(chk.name)
             new == [r \in R |-> [book[r] EXCEPT !.owed = chk.owed,
                                                 !.status = IF chk.done THEN "completed" ELSE @]]
  <1>0. R \in SUBSET Rows(book) /\ chk.owed \in Nat
    BY DEF Named, TypeInv, Check
  <1>1. \A r \in R : book[r] \in Loan
    BY <1>0, RowFacts DEF TypeInv
  <1>2. \A r \in R : /\ new[r] \in Loan /\ new[r].name = book[r].name /\ new[r].amount = book[r].amount
                     /\ new[r].owed = chk.owed /\ new[r].status \in {book[r].status, "completed"}
    BY <1>0, <1>1 DEF Loan, Decided
  <1>3. new \in [R -> Loan] /\ book' = [r \in Row |-> IF r \in R THEN new[r] ELSE book[r]]
    BY <1>2 DEF FollowUpRepayWrite
  <1> HIDE DEF new
  <1>4. /\ book' \in [Row -> Loan \cup {NoLoan}] /\ Rows(book)' = Rows(book)
        /\ \A r \in R : book'[r] = new[r]
        /\ \A r \in Row \ R : book'[r] = book[r]
    BY <1>0, <1>3, RowsKept
  <1> QED
    BY <1>2, <1>4, RowFacts DEF TypeInv

\* A row gets the contract's id of a loan, and its status.
LEMMA ResolveEffect ==
  ASSUME TypeInv, DOMAIN rec.rows \subseteq Rows(book), NEW c \in Row, ReconcileProvisional(c)
  PROVE  \E r \in Matches(c) :
           /\ r \in Rows(book)
           /\ book' \in [Row -> Loan \cup {NoLoan}] /\ Rows(book)' = Rows(book)
           /\ book'[r].name = Chain(c) /\ book'[r].status \in OnLedger
           /\ book'[r].amount = book[r].amount /\ book'[r].owed = book[r].owed
           /\ \A s \in Row \ {r} : book'[s] = book[s]
  <1>1. PICK r \in Matches(c) : book' = [book EXCEPT ![r].name = Chain(c), ![r].status = rec.index[c]]
    BY DEF ReconcileProvisional
  <1>2. r \in Rows(book) /\ r \in Row /\ rec.index[c] \in OnLedger /\ book[r] \in Loan
    <2>1. Matches(c) \subseteq DOMAIN rec.rows
      BY DEF Matches, Candidates
    <2> QED
      BY <2>1, RunFacts, RowFacts DEF ReconcileProvisional, TypeInv
  <1> DEFINE R   == {r}
             x   == [book[r] EXCEPT !.name = Chain(c), !.status = rec.index[c]]
             new == [s \in R |-> x]
  <1>3. /\ x \in Loan /\ x.name = Chain(c) /\ x.status \in OnLedger
        /\ x.amount = book[r].amount /\ x.owed = book[r].owed
    BY <1>2, Constants DEF Loan, Decided
  <1>4. book' = [book EXCEPT ![r] = x]
    BY <1>1
  <1> HIDE DEF x
  <1>5. R \in SUBSET Rows(book) /\ new \in [R -> Loan]
        /\ book' = [s \in Row |-> IF s \in R THEN new[s] ELSE book[s]]
    BY <1>2, <1>3, <1>4 DEF TypeInv
  <1>6. new[r] = x /\ r \in R /\ Row \ R = Row \ {r}
    OBVIOUS
  <1> HIDE DEF new, R
  <1>7. /\ book' \in [Row -> Loan \cup {NoLoan}] /\ Rows(book)' = Rows(book)
        /\ \A s \in R : book'[s] = new[s]
        /\ \A s \in Row \ R : book'[s] = book[s]
    BY <1>5, RowsKept
  <1> QED
    BY <1>2, <1>3, <1>6, <1>7

\* What a follow-up has read.
LEMMA RepayReadEffect ==
  ASSUME TypeInv, NEW f \in confirmed, FollowUpRepayRead(f)
  PROVE  \/ chk' = NoCheck
         \/ \E r \in Named(f.name) :
              chk' \in Check /\ chk'.pc = "write" /\ chk'.name = f.name /\ chk'.owed <= book[r].owed
  <1> SUFFICES ASSUME Named(f.name) # {}
               PROVE  \E r \in Named(f.name) :
                        chk' \in Check /\ chk'.pc = "write" /\ chk'.name = f.name /\ chk'.owed <= book[r].owed
    BY DEF FollowUpRepayRead
  <1> DEFINE r == CHOOSE s \in Named(f.name) : TRUE
  <1>1. r \in Named(f.name)
    OBVIOUS
  <1>2. book[r].owed \in Nat /\ f.amount \in Nat /\ f.name \in Name
    <2>1. r \in Rows(book)
      BY <1>1 DEF Named
    <2> QED
      BY <2>1, RowFacts DEF TypeInv, Loan
  <1> HIDE DEF r
  <1>3. PICK left \in Nat, done \in BOOLEAN :
          left <= book[r].owed /\ chk' = [pc |-> "write", name |-> f.name, owed |-> left, done |-> done]
    <2> DEFINE left == IF book[r].owed > f.amount THEN book[r].owed - f.amount ELSE 0
    <2>1. left \in Nat /\ left <= book[r].owed
      BY <1>2
    <2>2. chk' = [pc |-> "write", name |-> f.name, owed |-> left,
                  done |-> left = 0 /\ book[r].status # "completed"]
      BY DEF FollowUpRepayRead, r
    <2> HIDE DEF left
    <2> QED
      BY <2>1, <2>2
  <1> QED
    BY <1>1, <1>2, <1>3 DEF Check

\* What a run has read.
LEMMA ReadTypes ==
  ASSUME TypeInv
  PROVE  /\ RowsRead \in RowsOf /\ DOMAIN RowsRead = Rows(book)
         /\ \A r \in Rows(book) : RowsRead[r].name = book[r].name
         /\ IndexRead \in IndexOf
         /\ \A rows \in RowsOf, x \in IndexOf : Loop(rows, x) \in Run
  <1>1. RowsRead \in [Rows(book) -> RowRead]
    BY RowFacts DEF TypeInv, RowsRead, RowRead, Loan, Status
  <1>2. Rows(book) \in SUBSET Row
    BY DEF Rows
  <1>3. RowsRead \in RowsOf
    BY <1>1, <1>2 DEF RowsOf
  <1> DEFINE S == {c \in Row : index[c] # "none"}
  <1>4. IndexRead \in [S -> OnLedger] /\ S \in SUBSET Row
    BY DEF TypeInv, IndexRead
  <1>5. IndexRead \in IndexOf
    BY <1>4 DEF IndexOf
  <1>6. \A rows \in RowsOf, x \in IndexOf : Loop(rows, x) \in Run
    BY Constants DEF Loop, Run
  <1> QED
    BY <1>3, <1>5, <1>6 DEF RowsRead

LEMMA DoneEffect ==
  ASSUME TypeInv, NEW c \in Row, Done(c)
  PROVE  /\ rec' \in Run
         /\ \/ rec' = NoRun
            \/ /\ rec'.pc = "loans" /\ rec'.rows = rec.rows
               /\ DOMAIN rec'.index = DOMAIN rec.index \ {c}
  <1> DEFINE x == Restrict(rec.index, DOMAIN rec.index \ {c})
  <1>1. x \in [DOMAIN rec.index \ {c} -> OnLedger]
    BY RunFacts DEF Restrict
  <1>2. DOMAIN rec.index \ {c} \in SUBSET Row
    BY RunFacts
  <1>3. x \in IndexOf /\ DOMAIN x = DOMAIN rec.index \ {c}
    BY <1>1, <1>2 DEF IndexOf
  <1>4. rec.rows \in RowsOf
    BY DEF TypeInv, Run
  <1>5. rec' = Loop(rec.rows, x)
    BY DEF Done
  <1> HIDE DEF x
  <1>6. rec' \in Run
    BY <1>3, <1>4, <1>5, ReadTypes
  <1> QED
    BY <1>3, <1>5, <1>6 DEF Loop

-----------------------------------------------------------------------------
\* Types hold, and a run has read no row that is not there.

RunInv == TypeInv /\ DOMAIN rec.rows \subseteq Rows(book)

\* A step that leaves the requests as they are and takes no row away.
LEMMA TypeFrame ==
  ASSUME TypeInv, book' \in [Row -> Loan \cup {NoLoan}], Rows(book) \subseteq Rows(book)',
         UNCHANGED <<req, index>>, signed' \subseteq Rows(book)', confirmed' \subseteq confirmed,
         chk' \in Check, rec' \in Run, stray' \in BOOLEAN
  PROVE  TypeInv'
  BY DEF TypeInv

\* What every step does to the run's copy of the rows.
LEMMA RunStep == RunInv /\ [Next]_vars => RunInv'
  <1> SUFFICES ASSUME RunInv, [Next]_vars PROVE TypeInv' /\ DOMAIN rec'.rows \subseteq Rows(book)'
    BY DEF RunInv
  <1> USE DEF RunInv
  <1>a. chk \in Check /\ rec \in Run /\ stray \in BOOLEAN /\ signed \subseteq Rows(book)
    BY DEF TypeInv
  <1>b. DOMAIN NoRun.rows \subseteq Rows(book)
    BY DEF NoRun
  <1>1. ASSUME NEW amount \in Amount, NEW score \in Standing, NEW again \in Standing,
               CreateLoan(amount, score, again)
        PROVE  TypeInv' /\ DOMAIN rec'.rows \subseteq Rows(book)'
    <2>1. PICK r \in Row \ Rows(book), loan \in Loan :
            /\ book' = [book EXCEPT ![r] = loan]
            /\ signed' \subseteq signed \cup {r}
            /\ UNCHANGED <<req, index, confirmed, chk, rec, stray>>
      BY <1>1, CreateEffect
    <2>2. book' \in [Row -> Loan \cup {NoLoan}] /\ Rows(book)' = Rows(book) \cup {r}
      BY <2>1, RowFacts DEF TypeInv, Rows
    <2> QED
      BY <1>a, <2>1, <2>2, TypeFrame
  <1>2. CASE Elsewhere
    BY <1>2, TypeElsewhere DEF Rows
  <1>3. ASSUME NEW q \in Req, AssessWrite(q) PROVE TypeInv' /\ DOMAIN rec'.rows \subseteq Rows(book)'
    <2>1. book' \in [Row -> Loan \cup {NoLoan}] /\ Rows(book)' = Rows(book)
      BY <1>3, AssessEffect DEF StatusOnly
    <2>2. req' = [req EXCEPT ![q] = Idle] /\ UNCHANGED <<env, chk, rec, stray>>
      BY <1>3 DEF AssessWrite
    <2> QED
      BY <2>1, <2>2, Constants DEF TypeInv, env
  <1>4. ASSUME NEW f \in confirmed, FollowUpActivate(f)
        PROVE  TypeInv' /\ DOMAIN rec'.rows \subseteq Rows(book)'
    <2>1. book' \in [Row -> Loan \cup {NoLoan}] /\ Rows(book)' = Rows(book)
      BY <1>4, ActivateEffect DEF StatusOnly
    <2>2. UNCHANGED <<req, signed, index, chk, rec, stray>> /\ confirmed' \subseteq confirmed
      BY <1>4 DEF FollowUpActivate
    <2> QED
      BY <1>a, <2>1, <2>2, TypeFrame
  <1>5. ASSUME NEW f \in confirmed, FollowUpRepayRead(f)
        PROVE  TypeInv' /\ DOMAIN rec'.rows \subseteq Rows(book)'
    <2>1. chk' \in Check
      BY <1>5, RepayReadEffect, Constants
    <2>2. UNCHANGED <<book, req, signed, index, rec, stray>> /\ confirmed' \subseteq confirmed
      BY <1>5 DEF FollowUpRepayRead
    <2>3. Rows(book)' = Rows(book) /\ book' \in [Row -> Loan \cup {NoLoan}]
      BY <2>2 DEF Rows, TypeInv
    <2> QED
      BY <1>a, <2>1, <2>2, <2>3, TypeFrame
  <1>6. CASE FollowUpRepayWrite
    <2>1. book' \in [Row -> Loan \cup {NoLoan}] /\ Rows(book)' = Rows(book)
      BY <1>6, RepayEffect
    <2>2. UNCHANGED <<req, signed, index, confirmed, rec, stray>> /\ chk' \in Check
      BY <1>6, Constants DEF FollowUpRepayWrite, env
    <2> QED
      BY <1>a, <2>1, <2>2, TypeFrame
  \* Only the run and its history change.
  <1>r. ASSUME rec' \in Run, DOMAIN rec'.rows \subseteq Rows(book), stray' \in BOOLEAN, UNCHANGED <<book, req, env, chk>>
        PROVE  TypeInv' /\ DOMAIN rec'.rows \subseteq Rows(book)'
    <2>1. Rows(book)' = Rows(book) /\ book' \in [Row -> Loan \cup {NoLoan}] /\ UNCHANGED <<req, signed, index, confirmed, chk>>
      BY <1>r DEF Rows, TypeInv, env
    <2> QED
      BY <1>a, <1>r, <2>1, TypeFrame
  <1>7. CASE ReconcileStart
    <2>1. \/ rec' = [NoRun EXCEPT !.pc = "rows", !.index = IndexRead]
          \/ rec' = [NoRun EXCEPT !.pc = "index", !.rows = RowsRead]
      BY <1>7 DEF ReconcileStart
    <2>2. rec' \in Run /\ DOMAIN rec'.rows \subseteq Rows(book)
      BY <1>b, <2>1, Constants, ReadTypes DEF Run
    <2> QED
      BY <1>7, <1>a, <1>r, <2>2 DEF ReconcileStart
  <1>8. CASE ReconcileRead
    <2>1. PICK rows \in RowsOf, x \in IndexOf : rec' = Loop(rows, x) /\ DOMAIN rows \subseteq Rows(book)
      BY <1>8, ReadTypes DEF ReconcileRead, TypeInv, Run
    <2>2. rec' \in Run /\ DOMAIN rec'.rows \subseteq Rows(book)
      BY <1>b, <2>1, ReadTypes DEF Loop
    <2>3. stray' \in BOOLEAN /\ UNCHANGED <<book, req, env, chk>>
      BY <1>8 DEF ReconcileRead
    <2> QED
      BY <1>r, <2>2, <2>3
  <1>d. ASSUME NEW c \in Row, Done(c) PROVE rec' \in Run /\ DOMAIN rec'.rows \subseteq Rows(book)
    BY <1>b, <1>d, DoneEffect
  <1>9. ASSUME NEW c \in Row, ReconcileKnown(c) PROVE TypeInv' /\ DOMAIN rec'.rows \subseteq Rows(book)'
    <2>1. book' \in [Row -> Loan \cup {NoLoan}] /\ Rows(book)' = Rows(book)
      BY <1>9, KnownEffect DEF StatusOnly
    <2>2. UNCHANGED <<req, signed, index, confirmed, chk, stray>> /\ rec' \in Run /\ DOMAIN rec'.rows \subseteq Rows(book)
      BY <1>9, <1>d DEF ReconcileKnown, env
    <2> QED
      BY <1>a, <2>1, <2>2, TypeFrame
  <1>10. ASSUME NEW c \in Row, ReconcileProvisional(c) PROVE TypeInv' /\ DOMAIN rec'.rows \subseteq Rows(book)'
    <2>1. book' \in [Row -> Loan \cup {NoLoan}] /\ Rows(book)' = Rows(book)
      BY <1>10, ResolveEffect
    <2>2. UNCHANGED <<req, signed, index, confirmed, chk, stray>> /\ rec' \in Run /\ DOMAIN rec'.rows \subseteq Rows(book)
      BY <1>10, <1>d DEF ReconcileProvisional, env
    <2> QED
      BY <1>a, <2>1, <2>2, TypeFrame
  <1>11. ASSUME NEW c \in Row, ReconcileMissing(c) PROVE TypeInv' /\ DOMAIN rec'.rows \subseteq Rows(book)'
    BY <1>11, <1>a, <1>d, <1>r DEF ReconcileMissing
  <1>12. CASE ReconcileFails
    BY <1>12, <1>a, <1>b, <1>r, Constants DEF ReconcileFails
  <1>13. CASE UNCHANGED vars
    BY <1>13, <1>a, <1>r DEF vars
  <1> QED
    BY <1>1, <1>2, <1>3, <1>4, <1>5, <1>6, <1>7, <1>8, <1>9, <1>10, <1>11, <1>12, <1>13
       DEF Next, RequestNext, FollowUpNext, ReconcileStep, Elsewhere

LEMMA RunInvariant == Spec => []RunInv
  <1>1. Init => RunInv
    BY TypeInit DEF Init, RunInv, NoRun
  <1> QED
    BY <1>1, RunStep, PTL DEF Spec

\* A loan that was decided is opened again only by an assessment that read it while it
\* was not (ReopenedByOvertaken): whatever its activation, its repayment, another
\* assessment and the reconciliation do.
THEOREM DecidedStays == Spec => ReopenedByOvertaken
  <1> DEFINE Overtaken(r) == \E q \in Req : req[q].pc = "write" /\ req[q].row = r /\ req[q].seen \in Undecided
             Stays == \A r \in Rows(book) :
                        book[r].status \in Decided /\ book'[r].status \in Undecided => Overtaken(r)
  <1>1. RunInv /\ [Next]_vars => [Stays]_vars
    <2> SUFFICES ASSUME RunInv, Next, NEW r \in Rows(book),
                        book[r].status \in Decided, book'[r].status \in Undecided
                 PROVE  Overtaken(r)
      OBVIOUS
    <2>0. Decided \cap Undecided = {} /\ "active" \in Decided /\ "completed" \in Decided
          /\ OnLedger \subseteq Decided /\ TypeInv /\ r \in Row
      BY DEF Decided, Undecided, OnLedger, RunInv, Rows
    <2>1. ASSUME NEW q \in Req, AssessWrite(q) PROVE Overtaken(r)
      <3>1. req[q].row = r
        BY <2>0, <2>1 DEF AssessWrite, TypeInv
      <3> QED
        BY <2>0, <2>1, <3>1 DEF AssessWrite, TypeInv
    <2>2. ASSUME NEW amount \in Amount, NEW score \in Standing, NEW again \in Standing,
                 CreateLoan(amount, score, again)
          PROVE  FALSE
      <3>1. PICK s \in Row \ Rows(book), loan \in Loan : book' = [book EXCEPT ![s] = loan]
        BY <2>0, <2>2, CreateEffect
      <3> QED
        BY <2>0, <3>1 DEF TypeInv
    <2>3. CASE UNCHANGED book
      BY <2>0, <2>3
    <2>4. ASSUME NEW f \in confirmed, FollowUpActivate(f) PROVE FALSE
      BY <2>0, <2>4, ActivateEffect
    <2>5. CASE FollowUpRepayWrite
      BY <2>0, <2>5, RepayEffect
    <2>6. ASSUME NEW c \in Row, ReconcileKnown(c) PROVE FALSE
      BY <2>0, <2>6, KnownEffect DEF RunInv
    <2>7. ASSUME NEW c \in Row, ReconcileProvisional(c) PROVE FALSE
      <3>1. PICK s \in Rows(book) : book'[s].status \in OnLedger /\ \A x \in Row \ {s} : book'[x] = book[x]
        BY <2>0, <2>7, ResolveEffect DEF RunInv
      <3> QED
        BY <2>0, <3>1
    <2>8. Elsewhere => UNCHANGED book
      BY <2>0, TypeElsewhere
    <2>9. ASSUME NEW f \in confirmed, FollowUpRepayRead(f) PROVE UNCHANGED book
      BY <2>9 DEF FollowUpRepayRead
    <2>10. \/ ReconcileStart \/ ReconcileRead \/ ReconcileFails \/ \E c \in Row : ReconcileMissing(c)
           => UNCHANGED book
      BY DEF ReconcileStart, ReconcileRead, ReconcileFails, ReconcileMissing
    <2> HIDE DEF Overtaken
    <2> QED
      BY <2>1, <2>2, <2>3, <2>4, <2>5, <2>6, <2>7, <2>8, <2>9, <2>10
         DEF Next, RequestNext, FollowUpNext, ReconcileStep, Elsewhere
  <1> HIDE DEF Stays
  <1>2. Spec => [][Stays]_vars
    BY <1>1, RunInvariant, PTL DEF Spec
  <1> QED
    BY <1>2 DEF ReopenedByOvertaken, Stays

-----------------------------------------------------------------------------
\* A row has its own provisional id or a loan's of the contract, and no two rows the
\* same: a run that gives a row the id of a loan has seen every row that has it.

NamesOK ==
  /\ \A r \in Rows(book) : book[r].name = Prov(r) \/ \E c \in Row : book[r].name = Chain(c)
  /\ \A r, s \in Rows(book) : book[r].name = book[s].name => r = s

\* Nobody else writes the contract's ids, so that those a run has read stay all there are.
Seen(c) == \A s \in Rows(book) : book[s].name = Chain(c) =>
             s \in DOMAIN rec.rows /\ rec.rows[s].name = Chain(c)
SeenOK ==
  \A c \in Row : rec.pc = "index" \/ (rec.pc = "loans" /\ c \in DOMAIN rec.index) => Seen(c)

\* A follow-up that found a row by its provisional id has the row of that id.
CheckOK == chk.pc = "write" => \A r \in Row : chk.name = Prov(r) => r \in Rows(book)

NameInv == RunInv /\ NamesOK /\ SeenOK /\ CheckOK

\* A step that changes no name and makes no row.
NamesKept == Rows(book)' = Rows(book) /\ \A r \in Rows(book) : book'[r].name = book[r].name
AmountsKept == \A r \in Rows(book) : book'[r].amount = book[r].amount
BalancesKept ==
  \A r \in Rows(book) :
    \/ book'[r].owed = book[r].owed
    \/ chk.pc = "write" /\ r \in Named(chk.name) /\ book'[r].owed = chk.owed /\ chk' = NoCheck

\* What a run may go to without new readings.
RunGoesOn ==
  \/ UNCHANGED rec \/ rec' = NoRun
  \/ /\ rec'.pc = "loans" /\ rec.pc = "loans" /\ rec'.rows = rec.rows
     /\ DOMAIN rec'.index \subseteq DOMAIN rec.index
CheckGoesOn == UNCHANGED chk \/ chk' = NoCheck

\* Every step is one of these.
Creates == \E r \in Row \ Rows(book), loan \in Loan :
             /\ loan.name = Prov(r) /\ book' = [book EXCEPT ![r] = loan]
             /\ Rows(book)' = Rows(book) \cup {r}
             /\ UNCHANGED <<req, chk, rec, stray>>
Resolves == \E c \in Row : \E r \in Matches(c) :
              /\ rec.pc = "loans" /\ c \in DOMAIN rec.index /\ Known(c) = {} /\ r \in Rows(book)
              /\ Rows(book)' = Rows(book)
              /\ book'[r].name = Chain(c) /\ book'[r].amount = book[r].amount /\ book'[r].owed = book[r].owed
              /\ \A s \in Row \ {r} : book'[s] = book[s]
              /\ RunGoesOn /\ c \notin DOMAIN rec'.index
              /\ UNCHANGED <<req, chk, stray>>
Reads == /\ UNCHANGED <<book, req, chk>>
         /\ \/ rec'.pc = "rows" /\ DOMAIN rec'.rows = {} /\ UNCHANGED stray
            \/ rec'.pc = "index" /\ rec'.rows = RowsRead /\ UNCHANGED stray /\ DOMAIN rec'.index = {}
            \/ /\ \/ rec' = NoRun
                  \/ rec'.pc = "loans" /\ rec.pc = "index" /\ rec'.rows = rec.rows
                  \/ rec'.pc = "loans" /\ rec.pc = "rows" /\ rec'.rows = RowsRead
               /\ stray => stray'
               /\ ~stray' => DOMAIN rec'.index \subseteq DOMAIN rec'.rows
Finds == \E f \in confirmed, r \in Rows(book) :
           /\ book[r].name = chk'.name /\ chk'.pc = "write" /\ chk'.owed <= book[r].owed
           /\ UNCHANGED <<book, req, rec, stray>>
Keeps == /\ NamesKept /\ AmountsKept /\ BalancesKept /\ RunGoesOn /\ CheckGoesOn /\ UNCHANGED stray

LEMMA StepKinds == RunInv /\ [Next]_vars => Creates \/ Resolves \/ Reads \/ Finds \/ Keeps
  <1> SUFFICES ASSUME RunInv, [Next]_vars PROVE Creates \/ Resolves \/ Reads \/ Finds \/ Keeps
    OBVIOUS
  <1>0. TypeInv /\ DOMAIN rec.rows \subseteq Rows(book)
    BY DEF RunInv
  <1>a. ASSUME UNCHANGED book PROVE NamesKept /\ AmountsKept /\ BalancesKept
    BY <1>a DEF NamesKept, AmountsKept, BalancesKept, Rows
  <1>1. ASSUME NEW amount \in Amount, NEW score \in Standing, NEW again \in Standing,
               CreateLoan(amount, score, again)
        PROVE  Creates
    <2>1. PICK r \in Row \ Rows(book), loan \in Loan :
            /\ loan.name = Prov(r) /\ book' = [book EXCEPT ![r] = loan]
            /\ UNCHANGED <<req, index, confirmed, chk, rec, stray>>
      BY <1>0, <1>1, CreateEffect
    <2>2. Rows(book)' = Rows(book) \cup {r}
      BY <1>0, <2>1, RowFacts DEF TypeInv, Rows
    <2> QED
      BY <2>1, <2>2 DEF Creates
  <1>2. CASE Elsewhere
    <2>1. UNCHANGED <<book, rec, stray>>
      BY <1>0, <1>2, TypeElsewhere
    <2>2. CheckGoesOn
      BY <1>2 DEF CheckGoesOn, Elsewhere, AssessRead, PayRead, AssessDecide, RequestFails, PayAnswer, LedgerNext,
         LoanLands, RepaymentLands, IndexDefault, IndexRepaid, FollowUpFails
    <2> QED
      BY <1>a, <2>1, <2>2 DEF Keeps, RunGoesOn
  <1>3. ASSUME NEW q \in Req, AssessWrite(q) PROVE Keeps
    <2>1. NamesKept /\ AmountsKept /\ BalancesKept
      BY <1>0, <1>3, AssessEffect DEF StatusOnly, NamesKept, AmountsKept, BalancesKept
    <2> QED
      BY <1>3, <2>1 DEF AssessWrite, Keeps, RunGoesOn, CheckGoesOn
  <1>4. ASSUME NEW f \in confirmed, FollowUpActivate(f) PROVE Keeps
    <2>1. NamesKept /\ AmountsKept /\ BalancesKept
      BY <1>0, <1>4, ActivateEffect DEF StatusOnly, NamesKept, AmountsKept, BalancesKept
    <2> QED
      BY <1>4, <2>1 DEF FollowUpActivate, Keeps, RunGoesOn, CheckGoesOn
  <1>5. ASSUME NEW f \in confirmed, FollowUpRepayRead(f) PROVE Keeps \/ Finds
    <2>0. UNCHANGED <<book, req, rec, stray>>
      BY <1>5 DEF FollowUpRepayRead
    <2>1. CASE chk' = NoCheck
      BY <1>a, <2>0, <2>1 DEF Keeps, RunGoesOn, CheckGoesOn
    <2>2. CASE chk' # NoCheck
      <3>1. PICK r \in Named(f.name) : chk'.pc = "write" /\ chk'.name = f.name /\ chk'.owed <= book[r].owed
        BY <1>0, <1>5, <2>2, RepayReadEffect
      <3>2. r \in Rows(book) /\ book[r].name = chk'.name
        BY <3>1 DEF Named
      <3> QED
        BY <2>0, <3>1, <3>2 DEF Finds
    <2> QED
      BY <2>1, <2>2
  <1>6. CASE FollowUpRepayWrite
    <2>1. NamesKept /\ AmountsKept /\ BalancesKept
      BY <1>0, <1>6, RepayEffect DEF NamesKept, AmountsKept, BalancesKept, FollowUpRepayWrite
    <2> QED
      BY <1>6, <2>1 DEF FollowUpRepayWrite, Keeps, RunGoesOn, CheckGoesOn
  <1>7. CASE ReconcileStart
    <2>1. \/ rec' = [pc |-> "rows", rows |-> <<>>, index |-> IndexRead]
          \/ rec' = [pc |-> "index", rows |-> RowsRead, index |-> <<>>]
      BY <1>7 DEF ReconcileStart, NoRun
    <2>a. CASE rec' = [pc |-> "rows", rows |-> <<>>, index |-> IndexRead]
      BY <1>7, <2>a DEF ReconcileStart, Reads
    <2>b. CASE rec' = [pc |-> "index", rows |-> RowsRead, index |-> <<>>]
      BY <1>7, <2>b DEF ReconcileStart, Reads
    <2> QED
      BY <2>1, <2>a, <2>b
  <1>8. CASE ReconcileRead
    <2>1. \/ rec.pc = "index" /\ rec' \in {NoRun, [pc |-> "loans", rows |-> rec.rows, index |-> IndexRead]}
          \/ rec.pc = "rows" /\ rec' \in {NoRun, [pc |-> "loans", rows |-> RowsRead, index |-> rec.index]}
      BY <1>8, Zenon DEF ReconcileRead, Loop
    <2>s. /\ stray => stray'
          /\ ~stray' => DOMAIN rec'.index \subseteq DOMAIN rec'.rows
          /\ UNCHANGED <<book, req, chk>>
      BY <1>8, Zenon DEF ReconcileRead
    <2>a. CASE rec.pc = "index" /\ rec' = [pc |-> "loans", rows |-> rec.rows, index |-> IndexRead]
      BY <2>s, <2>a DEF Reads
    <2>b. CASE rec.pc = "rows" /\ rec' = [pc |-> "loans", rows |-> RowsRead, index |-> rec.index]
      BY <2>s, <2>b DEF Reads
    <2>c. CASE rec' = NoRun
      BY <2>s, <2>c DEF Reads
    <2> QED
      BY <2>1, <2>a, <2>b, <2>c
  <1>d. ASSUME NEW c \in Row, rec.pc = "loans", Done(c) PROVE RunGoesOn /\ c \notin DOMAIN rec'.index
    <2>1. DOMAIN NoRun.index = {}
      BY DEF NoRun
    <2> QED
      BY <1>0, <1>d, <2>1, DoneEffect DEF RunGoesOn
  <1>9. ASSUME NEW c \in Row, ReconcileKnown(c) PROVE Keeps
    <2>1. NamesKept /\ AmountsKept /\ BalancesKept
      BY <1>0, <1>9, KnownEffect DEF StatusOnly, NamesKept, AmountsKept, BalancesKept
    <2> QED
      BY <1>9, <1>d, <2>1 DEF ReconcileKnown, Keeps, CheckGoesOn
  <1>10. ASSUME NEW c \in Row, ReconcileProvisional(c) PROVE Resolves
    <2>1. PICK r \in Matches(c) :
            /\ r \in Rows(book) /\ Rows(book)' = Rows(book)
            /\ book'[r].name = Chain(c) /\ book'[r].amount = book[r].amount /\ book'[r].owed = book[r].owed
            /\ \A s \in Row \ {r} : book'[s] = book[s]
      BY <1>0, <1>10, ResolveEffect
    <2>2. /\ rec.pc = "loans" /\ c \in DOMAIN rec.index /\ Known(c) = {}
          /\ RunGoesOn /\ c \notin DOMAIN rec'.index
          /\ UNCHANGED <<req, chk, stray>>
      BY <1>10, <1>d DEF ReconcileProvisional
    <2> QED
      BY <2>1, <2>2 DEF Resolves
  <1>11. ASSUME NEW c \in Row, ReconcileMissing(c) PROVE Keeps
    BY <1>11, <1>a, <1>d DEF ReconcileMissing, Keeps, CheckGoesOn
  <1>12. CASE ReconcileFails
    BY <1>12, <1>a DEF ReconcileFails, Keeps, RunGoesOn, CheckGoesOn
  <1>13. CASE UNCHANGED vars
    BY <1>13, <1>a DEF vars, Keeps, RunGoesOn, CheckGoesOn
  <1> HIDE DEF Creates, Resolves, Reads, Finds, Keeps
  <1> QED
    BY <1>1, <1>2, <1>3, <1>4, <1>5, <1>6, <1>7, <1>8, <1>9, <1>10, <1>11, <1>12, <1>13
       DEF Next, RequestNext, FollowUpNext, ReconcileStep, Elsewhere

LEMMA NameStep == NameInv /\ [Next]_vars => NameInv'
  <1> SUFFICES ASSUME NameInv, [Next]_vars PROVE NameInv'
    OBVIOUS
  <1>0. /\ RunInv /\ NamesOK /\ SeenOK /\ CheckOK /\ TypeInv /\ DOMAIN rec.rows \subseteq Rows(book)
        /\ Rows(book) \subseteq Row
    BY DEF NameInv, RunInv, Rows
  <1>1. RunInv'
    BY <1>0, RunStep
  <1>n. NoCheck.pc # "write" /\ NoRun.pc \notin {"index", "loans"}
    BY Constants
  <1>2. CASE Creates
    <2>1. PICK r \in Row \ Rows(book), loan \in Loan :
             /\ loan.name = Prov(r) /\ book' = [book EXCEPT ![r] = loan]
             /\ Rows(book)' = Rows(book) \cup {r} /\ UNCHANGED <<chk, rec>>
      BY <1>2 DEF Creates
    <2>2. book'[r].name = Prov(r) /\ \A s \in Rows(book) : book'[s] = book[s]
      BY <1>0, <2>1 DEF TypeInv
    <2>2a. /\ book'[r].name = Prov(r)
           /\ \A s \in Rows(book) : book'[s].name = book[s].name /\ book[s].name # Prov(r)
      BY <1>0, <2>2, Constants DEF NamesOK
    <2>2b. \A s \in Rows(book)' : s \in Rows(book) \/ s = r
      BY <2>1
    <2>3. NamesOK'
      <3>1. \A s, t \in Rows(book)' : book'[s].name = book'[t].name => s = t
        BY <1>0, <2>2a, <2>2b DEF NamesOK
      <3>2. \A s \in Rows(book)' : book'[s].name = Prov(s) \/ \E c \in Row : book'[s].name = Chain(c)
        BY <1>0, <2>2a, <2>2b DEF NamesOK
      <3> QED
        BY <3>1, <3>2 DEF NamesOK
    <2>4. SeenOK'
      BY <1>0, <2>1, <2>2, Constants DEF SeenOK, Seen
    <2>5. CheckOK'
      BY <1>0, <2>1 DEF CheckOK
    <2> QED
      BY <1>1, <2>3, <2>4, <2>5 DEF NameInv
  <1>3. CASE Resolves
    <2>1. PICK c \in Row : \E r \in Matches(c) :
            /\ rec.pc = "loans" /\ c \in DOMAIN rec.index /\ Known(c) = {} /\ r \in Rows(book)
            /\ Rows(book)' = Rows(book) /\ book'[r].name = Chain(c)
            /\ \A s \in Row \ {r} : book'[s] = book[s]
            /\ RunGoesOn /\ c \notin DOMAIN rec'.index /\ UNCHANGED chk
      BY <1>3 DEF Resolves
    <2>1a. PICK r \in Matches(c) :
            /\ rec.pc = "loans" /\ c \in DOMAIN rec.index /\ Known(c) = {} /\ r \in Rows(book)
            /\ Rows(book)' = Rows(book) /\ book'[r].name = Chain(c)
            /\ \A s \in Row \ {r} : book'[s] = book[s]
            /\ RunGoesOn /\ c \notin DOMAIN rec'.index /\ UNCHANGED chk
      BY <2>1
    <2>2. \A s \in Rows(book) : book[s].name # Chain(c)
      BY <1>0, <2>1a DEF SeenOK, Seen, Known
    <2>3. NamesOK'
      BY <1>0, <2>1a, <2>2 DEF NamesOK
    <2>4. SeenOK'
      BY <1>0, <1>n, <2>1a, Constants DEF SeenOK, Seen, RunGoesOn
    <2>5. CheckOK'
      BY <1>0, <2>1a DEF CheckOK
    <2> QED
      BY <1>1, <2>3, <2>4, <2>5 DEF NameInv
  <1>4. CASE Reads
    <2>1. UNCHANGED <<book, chk>> /\ Rows(book)' = Rows(book)
      BY <1>4 DEF Reads, Rows
    <2>2. NamesOK' /\ CheckOK'
      BY <1>0, <2>1 DEF NamesOK, CheckOK
    <2>3. rec'.rows = RowsRead => \A c \in Row : Seen(c)'
      BY <1>0, <2>1, ReadTypes DEF Seen
    <2>4. \/ rec'.pc = "rows" \/ rec' = NoRun \/ rec'.rows = RowsRead
          \/ rec.pc = "index" /\ rec'.rows = rec.rows
      BY <1>4 DEF Reads
    <2>5. SeenOK'
      BY <1>0, <1>n, <2>1, <2>3, <2>4 DEF SeenOK, Seen
    <2> QED
      BY <1>1, <2>2, <2>5 DEF NameInv
  <1>5. CASE Finds
    <2>1. PICK r \in Rows(book) : book[r].name = chk'.name
      BY <1>5 DEF Finds
    <2>2. UNCHANGED <<book, rec>> /\ Rows(book)' = Rows(book)
      BY <1>5 DEF Finds, Rows
    <2>3. NamesOK' /\ SeenOK'
      BY <1>0, <2>2 DEF NamesOK, SeenOK, Seen
    <2>4. CheckOK'
      BY <1>0, <2>1, <2>2, Constants DEF NamesOK, CheckOK
    <2> QED
      BY <1>1, <2>3, <2>4 DEF NameInv
  <1>6. CASE Keeps
    <2>1. NamesKept /\ RunGoesOn /\ CheckGoesOn
      BY <1>6 DEF Keeps
    <2>2. NamesOK'
      BY <1>0, <2>1 DEF NamesOK, NamesKept
    <2>3. SeenOK'
      BY <1>0, <1>n, <2>1 DEF SeenOK, Seen, NamesKept, RunGoesOn
    <2>4. CheckOK'
      BY <1>0, <1>n, <2>1 DEF CheckOK, NamesKept, CheckGoesOn
    <2> QED
      BY <1>1, <2>2, <2>3, <2>4 DEF NameInv
  <1> QED
    BY <1>0, <1>2, <1>3, <1>4, <1>5, <1>6, StepKinds

LEMMA NameInvariant == Spec => []NameInv
  <1>1. Init => NameInv
    <2> SUFFICES ASSUME Init PROVE NameInv
      OBVIOUS
    <2>1. Rows(book) = {} /\ rec = NoRun /\ chk = NoCheck
      BY DEF Init, Rows
    <2> QED
      BY <2>1, TypeInit, Constants DEF NameInv, RunInv, NamesOK, SeenOK, CheckOK, NoRun
  <1> QED
    BY <1>1, NameStep, PTL DEF Spec

\* Every variable stays within its type, and loan_id is unique without a constraint.
THEOREM TypeCorrect == Spec => []TypeOK
  <1>1. NameInv => TypeOK
    <2> SUFFICES ASSUME NameInv PROVE TypeOK
      OBVIOUS
    <2>1. TypeInv /\ NamesOK
      BY DEF NameInv, RunInv
    <2>2. chk.pc \in {"idle", "write"} /\ chk.name \in Name /\ chk.owed \in Nat
      BY <2>1 DEF TypeInv, Check
    <2> QED
      BY <2>1, <2>2, RunFacts DEF TypeInv, TypeOK, NamesOK
  <1> QED
    BY <1>1, NameInvariant, PTL

-----------------------------------------------------------------------------
\* While the amounts tell the loans apart, a run finds for a loan the row it was asked
\* for in, and nothing else. Balances then only fall.

ToldInv ==
  /\ \A r \in Rows(book) : book[r].name \in {Prov(r), Chain(r)}
  /\ \A r \in DOMAIN rec.rows : rec.rows[r].name \in {Prov(r), Chain(r)}
  /\ rec.pc = "loans" => DOMAIN rec.index \subseteq DOMAIN rec.rows
  /\ chk.pc = "write" => \A c \in Row : chk.name = Chain(c) => c \in Rows(book) /\ book[c].name = Chain(c)
  /\ chk.pc = "write" => \A r \in Named(chk.name) : chk.owed <= book[r].owed
  /\ \A q \in Req : req[q].pc = "recheck" => book[req[q].row].owed <= req[q].owed

\* Amounts never change and rows never go, so that what cannot be told apart stays so.
LEMMA ToldBefore == NameInv /\ [Next]_vars /\ ToldApart' => ToldApart
  <1> SUFFICES ASSUME NameInv, [Next]_vars, ToldApart' PROVE ToldApart
    OBVIOUS
  <1>1. /\ stray => stray'
        /\ Rows(book) \subseteq Rows(book)'
        /\ \A r \in Rows(book) : book'[r].amount = book[r].amount
    <2>0. TypeInv /\ RunInv /\ Rows(book) \subseteq Row
      BY DEF NameInv, RunInv, Rows
    <2>1. CASE Creates
      <3>1. PICK r \in Row \ Rows(book), loan \in Loan :
              book' = [book EXCEPT ![r] = loan] /\ Rows(book)' = Rows(book) \cup {r} /\ UNCHANGED stray
        BY <2>1 DEF Creates
      <3> QED
        BY <2>0, <3>1 DEF TypeInv
    <2>2. CASE Resolves
      BY <2>0, <2>2 DEF Resolves
    <2>3. CASE Reads
      <3>1. UNCHANGED book /\ (stray => stray')
        BY <2>3 DEF Reads
      <3> QED
        BY <3>1 DEF Rows
    <2>4. CASE Finds
      BY <2>4 DEF Finds, Rows
    <2>5. CASE Keeps
      BY <2>5 DEF Keeps, NamesKept, AmountsKept
    <2> QED
      BY <2>0, <2>1, <2>2, <2>3, <2>4, <2>5, StepKinds
  <1> QED
    BY <1>1 DEF ToldApart, Principal

\* The row that a run matches with a loan is the loan's.
LEMMA OwnMatch ==
  ASSUME NameInv, ToldApart, ToldInv, NEW c \in DOMAIN rec.index, rec.pc = "loans", Known(c) = {}
  PROVE  Matches(c) = {c}
  <1>1. DOMAIN rec.rows \subseteq Rows(book) /\ c \in DOMAIN rec.rows
    BY DEF NameInv, RunInv, ToldInv
  <1>2. c \in Candidates
    BY <1>1 DEF ToldInv, Known, Candidates, Prov
  <1>3. \A r \in Candidates : Fits(c, r) <=> r = c
    BY <1>1 DEF Candidates, ToldApart, Fits
  <1> QED
    BY <1>2, <1>3 DEF Matches

\* A request that is going to be checked again has just read the balance, or had before.
LEMMA RecheckStep ==
  ASSUME NameInv, [Next]_vars, NEW q \in Req, req'[q].pc = "recheck"
  PROVE  \/ req'[q] = req[q]
         \/ UNCHANGED book /\ req'[q].owed = book[req'[q].row].owed /\ req'[q].row \in Rows(book)
  <1>0. RunInv /\ TypeInv
    BY DEF NameInv, RunInv
  <1>i. Idle.pc # "recheck"
    BY Constants
  <1>1. ASSUME NEW p \in Req, NEW r \in Row, PayRead(p, r)
        PROVE  \/ req'[q] = req[q]
               \/ UNCHANGED book /\ req'[q].owed = book[req'[q].row].owed /\ req'[q].row \in Rows(book)
    <2> DEFINE x == [Idle EXCEPT !.pc = "recheck", !.row = r, !.owed = book[r].owed]
    <2>1. x.row = r /\ x.owed = book[r].owed
      BY DEF Idle
    <2>2. req' = [req EXCEPT ![p] = x] /\ UNCHANGED book /\ r \in Rows(book)
      BY <1>1 DEF PayRead
    <2> HIDE DEF x
    <2> QED
      BY <1>0, <2>1, <2>2 DEF TypeInv
  <1>2. ASSUME NEW p \in Req, NEW r \in Row, AssessRead(p, r) PROVE req'[q] = req[q]
    <2> DEFINE x == [Idle EXCEPT !.pc = "decide", !.row = r, !.seen = book[r].status]
    <2>1. x.pc = "decide"
      BY DEF Idle
    <2>2. req' = [req EXCEPT ![p] = x]
      BY <1>2 DEF AssessRead
    <2> HIDE DEF x
    <2> QED
      BY <1>0, <2>1, <2>2 DEF TypeInv
  <1>3. ASSUME NEW p \in Req, NEW score \in Standing, AssessDecide(p, score) PROVE req'[q] = req[q]
    <2>1. PICK status \in {"rejected", "pending", "under_review"} :
            req' = [req EXCEPT ![p].pc = "write", ![p].status = status]
      BY <1>3 DEF AssessDecide
    <2> DEFINE x == [req[p] EXCEPT !.pc = "write", !.status = status]
    <2>2. x.pc = "write" /\ req' = [req EXCEPT ![p] = x]
      BY <1>0, <2>1 DEF TypeInv, Request
    <2> HIDE DEF x
    <2> QED
      BY <1>0, <2>2 DEF TypeInv
  <1>4. ASSUME NEW p \in Req, req' = [req EXCEPT ![p] = Idle] PROVE req'[q] = req[q]
    BY <1>0, <1>4, <1>i DEF TypeInv
  <1>5. ASSUME NEW p \in Req, AssessWrite(p) \/ RequestFails(p) \/ \E amount \in Payment : PayAnswer(p, amount)
        PROVE  req'[q] = req[q]
    BY <1>4, <1>5 DEF AssessWrite, RequestFails, PayAnswer
  <1>6. CASE UNCHANGED req
    BY <1>6
  <1>7. \/ LedgerNext \/ FollowUpNext \/ ReconcileStep \/ ReconcileFails \/ UNCHANGED vars
        \/ \E amount \in Amount, score, again \in Standing : CreateLoan(amount, score, again)
        => UNCHANGED req
    BY DEF LedgerNext, LoanLands, RepaymentLands, IndexDefault, IndexRepaid, FollowUpNext, FollowUpActivate,
       FollowUpRepayRead, FollowUpRepayWrite, FollowUpFails, ReconcileStep, ReconcileStart, ReconcileRead,
       ReconcileKnown, ReconcileProvisional, ReconcileMissing, ReconcileFails, vars, CreateLoan
  <1> QED
    BY <1>1, <1>2, <1>3, <1>5, <1>6, <1>7 DEF Next, RequestNext

LEMMA ToldStep ==
  NameInv /\ (ToldApart => ToldInv) /\ [Next]_vars => (ToldApart' => ToldInv')
  <1> SUFFICES ASSUME NameInv, ToldApart => ToldInv, [Next]_vars, ToldApart' PROVE ToldInv'
    OBVIOUS
  <1>0. /\ ToldApart /\ ToldInv /\ NameInv' /\ RunInv /\ TypeInv /\ NamesOK /\ CheckOK
        /\ DOMAIN rec.rows \subseteq Rows(book) /\ Rows(book) \subseteq Row
    BY ToldBefore, NameStep DEF NameInv, RunInv, Rows
  <1>n. NoCheck.pc # "write" /\ NoRun.pc # "loans" /\ DOMAIN NoRun.rows = {}
    BY Constants DEF NoRun
  <1>o. /\ \A r \in Rows(book) : book[r].owed \in Nat
        /\ chk.owed \in Nat
    BY <1>0, RowFacts DEF TypeInv, Loan, Check
  \* The parts that speak of the run alone.
  <1>r. ASSUME RunGoesOn
        PROVE  /\ \A r \in DOMAIN rec'.rows : rec'.rows[r].name \in {Prov(r), Chain(r)}
               /\ rec'.pc = "loans" => DOMAIN rec'.index \subseteq DOMAIN rec'.rows
    BY <1>0, <1>n, <1>r DEF RunGoesOn, ToldInv
  \* The requests, when balances only fall.
  <1>q. ASSUME \A r \in Rows(book) : book'[r].owed <= book[r].owed /\ book'[r].owed \in Nat
        PROVE  \A q \in Req : req'[q].pc = "recheck" => book'[req'[q].row].owed <= req'[q].owed
    <2> SUFFICES ASSUME NEW q \in Req, req'[q].pc = "recheck" PROVE book'[req'[q].row].owed <= req'[q].owed
      OBVIOUS
    <2>1. CASE req'[q] = req[q]
      <3>1. req[q].row \in Rows(book) /\ req[q].owed \in Nat
        BY <1>0, <2>1 DEF TypeInv, Request
      <3>2. book[req[q].row].owed <= req[q].owed
        BY <1>0, <2>1 DEF ToldInv
      <3> QED
        BY <1>o, <1>q, <2>1, <3>1, <3>2
    <2>2. CASE UNCHANGED book /\ req'[q].owed = book[req'[q].row].owed /\ req'[q].row \in Rows(book)
      BY <1>o, <2>2
    <2> QED
      BY <2>1, <2>2, RecheckStep
  <1>1. CASE Creates
    <2>1. PICK r \in Row \ Rows(book), loan \in Loan :
            /\ loan.name = Prov(r) /\ book' = [book EXCEPT ![r] = loan]
            /\ Rows(book)' = Rows(book) \cup {r} /\ UNCHANGED <<chk, rec>>
      BY <1>1 DEF Creates
    <2>2. book'[r].name = Prov(r) /\ \A s \in Rows(book) : book'[s] = book[s]
      BY <1>0, <2>1 DEF TypeInv
    <2>3. chk.pc = "write" => Named(chk.name)' = Named(chk.name)
      <3>1. chk.pc = "write" => chk.name # Prov(r)
        BY <1>0, <2>1 DEF CheckOK
      <3> QED
        BY <2>1, <2>2, <3>1 DEF Named
    <2>4. \A s \in Rows(book)' : book'[s].name \in {Prov(s), Chain(s)}
      BY <1>0, <2>1, <2>2 DEF ToldInv
    <2>5. chk'.pc = "write" => \A s \in Named(chk.name)' : chk'.owed <= book'[s].owed
      BY <1>0, <2>1, <2>2, <2>3 DEF ToldInv, Named
    <2>6. \A q \in Req : req'[q].pc = "recheck" => book'[req'[q].row].owed <= req'[q].owed
      BY <1>o, <1>q, <2>2
    <2>7. chk'.pc = "write" => \A c \in Row : chk'.name = Chain(c) => c \in Rows(book)' /\ book'[c].name = Chain(c)
      BY <1>0, <2>1, <2>2 DEF ToldInv
    <2> QED
      BY <1>r, <2>1, <2>4, <2>5, <2>6, <2>7 DEF ToldInv, RunGoesOn
  <1>2. CASE Resolves
    <2>1. PICK c \in Row : \E r \in Matches(c) :
            /\ rec.pc = "loans" /\ c \in DOMAIN rec.index /\ Known(c) = {} /\ r \in Rows(book)
            /\ Rows(book)' = Rows(book) /\ book'[r].name = Chain(c) /\ book'[r].owed = book[r].owed
            /\ \A s \in Row \ {r} : book'[s] = book[s]
            /\ RunGoesOn /\ UNCHANGED chk
      BY <1>2 DEF Resolves
    <2>2. Matches(c) = {c}
      BY <1>0, <2>1, OwnMatch
    <2>3. /\ c \in DOMAIN rec.index /\ rec.pc = "loans" /\ Known(c) = {} /\ c \in Rows(book)
          /\ Rows(book)' = Rows(book) /\ book'[c].name = Chain(c) /\ book'[c].owed = book[c].owed
          /\ \A s \in Row \ {c} : book'[s] = book[s]
          /\ RunGoesOn /\ UNCHANGED chk
      BY <2>1, <2>2
    <2>4. book[c].name # Chain(c)
      BY <1>0, <2>3 DEF NameInv, SeenOK, Seen, Known
    <2>5. chk.pc = "write" => chk.name # Chain(c) /\ Named(chk.name)' \subseteq Named(chk.name)
      <3>1. chk.pc = "write" => chk.name # Chain(c)
        BY <1>0, <2>4 DEF ToldInv
      <3> QED
        BY <1>0, <2>3, <3>1 DEF Named
    <2>6. \A s \in Rows(book) : book'[s].owed = book[s].owed
      BY <1>0, <2>3
    <2>7. \A s \in Rows(book)' : book'[s].name \in {Prov(s), Chain(s)}
      BY <1>0, <2>3 DEF ToldInv
    <2>8. chk'.pc = "write" => \A s \in Named(chk.name)' : chk'.owed <= book'[s].owed
      BY <1>0, <2>3, <2>5, <2>6 DEF ToldInv, Named
    <2>9. \A q \in Req : req'[q].pc = "recheck" => book'[req'[q].row].owed <= req'[q].owed
      BY <1>o, <1>q, <2>6
    <2>10. chk'.pc = "write" => \A d \in Row : chk'.name = Chain(d) => d \in Rows(book)' /\ book'[d].name = Chain(d)
      BY <1>0, <2>3, <2>5 DEF ToldInv
    <2> QED
      BY <1>r, <2>3, <2>7, <2>8, <2>9, <2>10 DEF ToldInv
  <1>3. CASE Reads
    <2>1. UNCHANGED <<book, chk>> /\ Rows(book)' = Rows(book) /\ Named(chk.name)' = Named(chk.name)
      BY <1>3 DEF Reads, Rows, Named
    <2>2. rec'.pc = "loans" => DOMAIN rec'.index \subseteq DOMAIN rec'.rows
      BY <1>3, <1>n DEF Reads, ToldApart
    <2>3. \A r \in DOMAIN rec'.rows : rec'.rows[r].name \in {Prov(r), Chain(r)}
      <3>1. DOMAIN rec'.rows = {} \/ rec'.rows = rec.rows \/ rec'.rows = RowsRead
        BY <1>3, <1>n DEF Reads
      <3>2. \A r \in DOMAIN RowsRead : RowsRead[r].name \in {Prov(r), Chain(r)}
        BY <1>0, ReadTypes DEF ToldInv
      <3> QED
        BY <1>0, <3>1, <3>2 DEF ToldInv
    <2>4. \A q \in Req : req'[q].pc = "recheck" => book'[req'[q].row].owed <= req'[q].owed
      BY <1>o, <1>q, <2>1
    <2> QED
      BY <1>0, <2>1, <2>2, <2>3, <2>4 DEF ToldInv
  <1>4. CASE Finds
    <2>1. PICK r \in Rows(book) : book[r].name = chk'.name /\ chk'.owed <= book[r].owed
      BY <1>4 DEF Finds
    <2>2. UNCHANGED <<book, rec>> /\ Rows(book)' = Rows(book)
      BY <1>4 DEF Finds, Rows
    <2>3. \A s \in Rows(book) : book[s].name = chk'.name => s = r
      BY <1>0, <2>1 DEF NamesOK
    <2>4. \A s \in Named(chk.name)' : chk'.owed <= book'[s].owed
      BY <2>1, <2>2, <2>3 DEF Named
    <2>5. \A c \in Row : chk'.name = Chain(c) => c \in Rows(book)' /\ book'[c].name = Chain(c)
      BY <1>0, <2>1, <2>2, Constants DEF ToldInv
    <2>6. \A q \in Req : req'[q].pc = "recheck" => book'[req'[q].row].owed <= req'[q].owed
      BY <1>o, <1>q, <2>2
    <2> QED
      BY <1>0, <2>2, <2>4, <2>5, <2>6 DEF ToldInv
  <1>5. CASE Keeps
    <2>1. NamesKept /\ BalancesKept /\ RunGoesOn /\ CheckGoesOn
      BY <1>5 DEF Keeps
    <2>2. \A s \in Rows(book)' : book'[s].name \in {Prov(s), Chain(s)}
      BY <1>0, <2>1 DEF ToldInv, NamesKept
    <2>3. chk.pc = "write" => \A s \in Named(chk.name) : chk.owed <= book[s].owed
      BY <1>0 DEF ToldInv
    <2>4. chk'.pc = "write" => \A s \in Named(chk.name)' : chk'.owed <= book'[s].owed
      BY <1>n, <1>o, <2>1, <2>3 DEF NamesKept, BalancesKept, CheckGoesOn, Named
    <2>5. chk'.pc = "write" => \A c \in Row : chk'.name = Chain(c) => c \in Rows(book)' /\ book'[c].name = Chain(c)
      BY <1>0, <1>n, <2>1 DEF ToldInv, NamesKept, CheckGoesOn
    <2>6. \A r \in Rows(book) : book'[r].owed <= book[r].owed /\ book'[r].owed \in Nat
      BY <1>o, <2>1, <2>3 DEF BalancesKept
    <2>7. \A q \in Req : req'[q].pc = "recheck" => book'[req'[q].row].owed <= req'[q].owed
      BY <1>q, <2>6
    <2> QED
      BY <1>r, <2>1, <2>2, <2>4, <2>5, <2>7 DEF ToldInv
  <1> HIDE DEF ToldInv
  <1> QED
    BY <1>0, <1>1, <1>2, <1>3, <1>4, <1>5, StepKinds

LEMMA ToldInvariant == Spec => [](NameInv /\ (ToldApart => ToldInv))
  <1>1. Init => (ToldApart => ToldInv)
    <2> SUFFICES ASSUME Init PROVE ToldInv
      OBVIOUS
    <2>1. Rows(book) = {} /\ rec = NoRun /\ chk = NoCheck /\ \A q \in Req : req[q] = Idle
      BY DEF Init, Rows
    <2>2. rec.pc = "idle" /\ DOMAIN rec.rows = {} /\ chk.pc = "idle" /\ Idle.pc = "idle"
      BY <2>1, Constants DEF NoRun
    <2> QED
      BY <2>1, <2>2 DEF ToldInv
  <1> QED
    BY <1>1, NameInvariant, ToldStep, PTL DEF Spec

\* The reconciliation gives every loan the row it was asked for in, as long as the
\* amounts tell the loans apart (RowsKeepTheirLoan): for every number of rows, requests
\* and runs, with the runs cut off anywhere.
THEOREM LoansKeepTheirRow == Spec => []RowsKeepTheirLoan
  <1>1. (ToldApart => ToldInv) => RowsKeepTheirLoan
    BY DEF ToldInv, RowsKeepTheirLoan
  <1> QED
    BY <1>1, ToldInvariant, PTL

\* A repayment that is offered never takes the balance that its preview was computed
\* from below zero (PreviewHolds): no writer of the row lets a balance grow.
THEOREM PreviewTheorem == Spec => PreviewHolds
  <1> DEFINE Holds == \A q \in Req, amount \in Payment :
                        ToldApart /\ PayAnswer(q, amount) => req[q].owed - amount >= 0
  <1>1. NameInv /\ (ToldApart => ToldInv) => Holds
    <2> SUFFICES ASSUME NameInv, ToldInv, NEW q \in Req, NEW amount \in Payment, PayAnswer(q, amount)
                 PROVE  req[q].owed - amount >= 0
      OBVIOUS
    <2>0. TypeInv
      BY DEF NameInv, RunInv
    <2>1. req[q].pc = "recheck" /\ amount <= book[req[q].row].owed
      BY DEF PayAnswer, Answered, Payable
    <2>2. req[q].row \in Rows(book) /\ req[q].owed \in Nat
      BY <2>0, <2>1 DEF TypeInv, Request
    <2>3. book[req[q].row].owed <= req[q].owed
      BY <2>1 DEF ToldInv
    <2>4. book[req[q].row].owed \in Nat /\ amount \in Nat
      BY <2>0, <2>2, RowFacts, BookAssumption DEF TypeInv, Loan
    <2> QED
      BY <2>1, <2>2, <2>3, <2>4
  <1> HIDE DEF Holds
  <1>2. Spec => [][Holds]_vars
    BY <1>1, ToldInvariant, PTL
  <1> QED
    BY <1>2 DEF PreviewHolds, Holds

=============================================================================
