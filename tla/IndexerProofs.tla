------------------------------ MODULE IndexerProofs ------------------------------
(* Theorems about Indexer, for every history of events, page size, retention,   *)
(* buffer and bound.                                                            *)
EXTENDS Indexer, Sums, WellFoundedInduction, TLAPS

LEMMA Least ==
  ASSUME NEW T \in SUBSET Nat, T # {}
  PROVE  \E x \in T : \A y \in T : x <= y
  <1>1. PICK x \in T : \A y \in T : ~ (<<y, x>> \in OpToRel(<, Nat))
    BY WFMin, NatLessThanWellFounded, ZenonT(30)
  <1>2. \A y \in T : ~(y < x)
    BY <1>1 DEF OpToRel
  <1> QED
    BY <1>2

InBatch == cyc.pc \in {"event", "sum", "status", "cache"}

\* The local state of a cycle.
CycleOK ==
  /\ cyc.batch \subseteq EventsOf(cyc.c)
  /\ InBatch <=> cyc.batch # {}
  /\ cyc.pc \in {"sum", "status"} => Current.kind = "repaid" /\ Current \in payments
  /\ cyc.pc = "cache" => Current.kind = "score" /\ Current \in history
  /\ cyc.pc = "heal" => cyc.start < cyc.latest - RetentionBuffer
  /\ cyc.pc \in {"tip", "heal", "fetch", "recover"} => cyc.start >= 1
  /\ cyc.pc = "recover" => cyc.latest >= 1
  /\ cyc.pc # "recover" => cyc.latest <= tip

TypeInv == TypeOK /\ CycleOK

ChainOK ==
  /\ chain \subseteq Event
  /\ \A e, d \in chain : /\ e.id = d.id => e = d
                         /\ e.id < d.id => e.ledger <= d.ledger
  /\ \A e \in chain : IF e.kind \in LoanKind THEN e.of \in Loan ELSE e.of \in Wallet
  /\ \A e \in chain : e.kind = "repaid" =>
       \E d \in chain : d.kind \in {"created", "undated"} /\ d.of = e.of /\ d.id < e.id

LEMMA ChainFacts == TypeOK => ChainOK
  BY ChainsAssumption DEF TypeOK, ChainOK

\* The current event is the first of the batch.
LEMMA CurrentFacts ==
  ASSUME TypeOK, cyc.batch # {}
  PROVE  /\ Current \in cyc.batch
         /\ Current \in chain
         /\ \A d \in cyc.batch : Current.id <= d.id
  <1>1. cyc.batch \subseteq chain /\ \A e \in chain : e.id \in Nat
    BY ChainFacts DEF TypeOK, ChainOK, Event, Cycle
  <1> DEFINE Ids == {e.id : e \in cyc.batch}
  <1>2. Ids \in SUBSET Nat /\ Ids # {} /\ \A d \in cyc.batch : d.id \in Ids
    BY <1>1
  <1>3. \E e \in cyc.batch : \A d \in cyc.batch : e.id <= d.id
    <2>1. \A x \in Ids : \E e \in cyc.batch : x = e.id
      OBVIOUS
    <2> HIDE DEF Ids
    <2>2. PICK x \in Ids : \A y \in Ids : x <= y
      BY <1>2, Least
    <2> QED
      BY <1>2, <2>1, <2>2
  <1>4. Current \in cyc.batch /\ \A d \in cyc.batch : Current.id <= d.id
    BY <1>3, Zenon DEF Current
  <1> QED
    BY <1>1, <1>4

LEMMA TypeInit == Init => TypeInv
  <1> SUFFICES ASSUME Init PROVE TypeInv
    OBVIOUS
  <1> QED
    BY BoundsAssumption DEF Init, Idle, TypeInv, TypeOK, CycleOK, InBatch, Contract, Cycle

\* The end of a contract and the end of an event keep the cycle's types.
LEMMA NextContractOK ==
  ASSUME TypeInv, UNCHANGED <<chain, tip>>, cyc' = NextContract \/ cyc' = Idle
  PROVE  cyc'.batch = {} /\ CycleOK' /\ ~InBatch' /\ cyc' \in Cycle'
  <1>1. \E pc \in {"idle", "cursor"}, c \in Contract :
          cyc' = [pc |-> pc, c |-> c, start |-> 0, latest |-> 0, max |-> 0, batch |-> {},
                  rows |-> {}]
    BY DEF NextContract, Idle, Contract
  <1>2. tip \in Nat
    BY BoundsAssumption DEF TypeInv, TypeOK
  <1>3. cyc' \in Cycle'
    BY <1>1 DEF Cycle
  <1>4. /\ cyc'.batch = {} /\ cyc'.pc \in {"idle", "cursor"} /\ cyc'.latest = 0
        /\ tip' = tip
    BY <1>1
  <1> QED
    BY <1>2, <1>3, <1>4 DEF CycleOK, InBatch

LEMMA LeaveOK ==
  ASSUME TypeInv, UNCHANGED <<chain, tip>>, InBatch, Persisted \/ NotPersisted
  PROVE  /\ cyc'.c = cyc.c /\ cyc'.latest = cyc.latest
         /\ cyc'.batch = cyc.batch \ {Current}
         /\ cyc'.max \in {cyc.max, Larger(cyc.max, Current.ledger)}
         /\ CycleOK' /\ cyc' \in Cycle'
         /\ cyc'.pc \in {"event", "save"}
  <1>1. Current \in cyc.batch /\ Current.ledger \in Nat
    BY CurrentFacts, ChainFacts DEF TypeInv, CycleOK, ChainOK, Event
  <1>2. PICK m \in {cyc.max, Larger(cyc.max, Current.ledger)} : Leave(m)
    BY DEF Persisted, NotPersisted
  <1>3. m \in Nat
    BY <1>1, <1>2 DEF TypeInv, TypeOK, Larger, Cycle
  <1>4. /\ cyc'.batch = cyc.batch \ {Current} /\ cyc'.max = m
        /\ cyc'.c = cyc.c /\ cyc'.latest = cyc.latest /\ cyc'.start = cyc.start /\ cyc'.rows = {}
        /\ cyc'.pc \in {"event", "save"} /\ (cyc'.pc = "save" <=> cyc.batch = {Current})
    BY <1>2 DEF TypeInv, TypeOK, Leave, Cycle
  <1>5. cyc' \in Cycle'
    BY <1>2, <1>3 DEF TypeInv, TypeOK, Leave, Cycle
  <1>6. CycleOK'
    <2>1. /\ cyc.batch \subseteq EventsOf(cyc.c) /\ cyc.latest <= tip
          /\ EventsOf(cyc.c)' = EventsOf(cyc.c)
      BY <1>4 DEF TypeInv, CycleOK, InBatch, EventsOf
    <2>2. (cyc.batch \ {Current} = {}) <=> (cyc.batch = {Current})
      BY <1>1
    <2> QED
      BY <1>4, <2>1, <2>2 DEF CycleOK, InBatch, EventsOf
  <1> QED
    BY <1>2, <1>4, <1>5, <1>6

\* What TypeInv says of the numbers of a cycle.
LEMMA Numbers ==
  ASSUME TypeInv
  PROVE  /\ tip \in Nat /\ cyc.start \in Nat /\ cyc.latest \in Nat /\ cyc.max \in Nat
         /\ tip >= 1 /\ RetentionBuffer \in Nat /\ CatchUpBuffer \in Nat
         /\ CatchUpBuffer <= RetentionBuffer /\ Window \in Nat
         /\ Oldest \in Nat /\ Oldest >= 1 /\ Oldest <= Larger(1, tip)
         /\ cyc.c \in Contract /\ cursor[cyc.c] \in Nat
         /\ Fault => faults' \in 0 .. MaxFault
  <1>0. Fault => faults' \in 0 .. MaxFault
    BY BoundsAssumption DEF TypeInv, TypeOK, Fault
  <1>1. /\ tip \in Nat /\ tip >= 1 /\ Window \in Nat \ {0} /\ RetentionBuffer \in Nat
        /\ CatchUpBuffer \in Nat /\ CatchUpBuffer <= RetentionBuffer
    BY BoundsAssumption DEF TypeInv, TypeOK
  <1>2. /\ cyc.start \in Nat /\ cyc.latest \in Nat /\ cyc.max \in Nat
        /\ cyc.c \in Contract /\ cursor[cyc.c] \in Nat
    BY DEF TypeInv, TypeOK, Cycle
  <1> QED
    BY <1>0, <1>1, <1>2 DEF Oldest, Larger

LEMMA TypeFetch == TypeInv /\ FetchNext => TypeInv'
  <1> SUFFICES ASSUME TypeInv, FetchNext PROVE TypeInv'
    OBVIOUS
  <1> USE Numbers DEF tables, past
  <1>1. CASE RunIndexer
    BY <1>1 DEF RunIndexer, Idle, TypeInv, TypeOK, CycleOK, InBatch, Cycle, EventsOf, Contract
  <1>2. CASE ReadCursor \/ ReadCursorFails
    <2>1. PICK n \in {1, cursor[cyc.c] + 1} : cyc' = [cyc EXCEPT !.pc = "tip", !.start = n]
      BY <1>2 DEF ReadCursor, ReadCursorFails
    <2>2. n \in Nat /\ n >= 1
      OBVIOUS
    <2>3. cyc' \in Cycle' /\ CycleOK'
      BY <1>2, <2>1, <2>2 DEF ReadCursor, ReadCursorFails, TypeInv, TypeOK, CycleOK, InBatch,
                              Cycle, EventsOf
    <2> QED
      BY <1>2, <2>3 DEF ReadCursor, ReadCursorFails, TypeInv, TypeOK
  <1>3. CASE ReadTip
    <2> DEFINE pc == IF cyc.start >= tip - RetentionBuffer THEN "fetch" ELSE "heal"
    <2>1. /\ cyc' = [cyc EXCEPT !.latest = tip, !.pc = pc] /\ UNCHANGED <<chain, tip>>
          /\ cyc.pc = "tip"
      BY <1>3 DEF ReadTip
    <2>2. pc \in {"fetch", "heal"} /\ (pc = "heal" => cyc.start < tip - RetentionBuffer)
      OBVIOUS
    <2> HIDE DEF pc
    <2>3. cyc' \in Cycle'
      BY <2>1, <2>2 DEF TypeInv, TypeOK, Cycle
    <2>4. CycleOK'
      BY <2>1, <2>2 DEF TypeInv, TypeOK, CycleOK, InBatch, Cycle, EventsOf
    <2> QED
      BY <1>3, <2>3, <2>4 DEF ReadTip, TypeInv, TypeOK
  <1>4. CASE CallFails
    <2>1. cyc' \in Cycle' /\ CycleOK'
      BY <1>4, NextContractOK DEF CallFails
    <2> QED
      BY <1>4, <2>1 DEF CallFails, TypeInv, TypeOK
  <1>5. CASE Heal
    <2> DEFINE n == cyc.latest - CatchUpBuffer
    <2>1. /\ cyc' = [cyc EXCEPT !.pc = "fetch", !.start = n] /\ UNCHANGED <<chain, tip>>
          /\ cursor' = [cursor EXCEPT ![cyc.c] = n - 1]
      BY <1>5 DEF Heal
    <2>2. n \in Nat /\ n >= 1
      BY <1>5 DEF Heal, TypeInv, CycleOK
    <2> HIDE DEF n
    <2>3. n - 1 \in Nat
      BY <2>2
    <2>4. cyc' \in Cycle' /\ cursor' \in [Contract -> Nat]
      BY <2>1, <2>2, <2>3 DEF TypeInv, TypeOK, Cycle
    <2>5. CycleOK'
      BY <1>5, <2>1, <2>2 DEF Heal, TypeInv, TypeOK, CycleOK, InBatch, Cycle, EventsOf
    <2> QED
      BY <1>5, <2>1, <2>4, <2>5 DEF Heal, TypeInv, TypeOK, PassedOver, EventsOf
  <1>6. CASE Fetch
    <2>1. Page \subseteq EventsOf(cyc.c) /\ EventsOf(cyc.c) \subseteq chain
          /\ Found \subseteq chain
      BY DEF Page, Found, EventsOf
    <2>2. PICK pc \in {"save", "event"} :
            /\ cyc' = [cyc EXCEPT !.batch = Page, !.max = cyc.start, !.pc = pc]
            /\ pc = "event" <=> Page # {}
      BY <1>6 DEF Fetch
    <2>3. cyc' \in Cycle'
      <3>1. chain' = chain
        BY <1>6 DEF Fetch
      <3> QED
        BY <2>1, <2>2, <3>1 DEF TypeInv, TypeOK, Cycle
    <2>4. CycleOK'
      <3>1. EventsOf(cyc.c)' = EventsOf(cyc.c)
        BY <1>6, <2>2 DEF Fetch, EventsOf, TypeInv, TypeOK, Cycle
      <3> QED
        BY <1>6, <2>1, <2>2, <3>1 DEF Fetch, TypeInv, TypeOK, CycleOK, InBatch, Cycle
    <2> QED
      BY <1>6, <2>1, <2>3, <2>4 DEF Fetch, TypeInv, TypeOK
  <1>7. CASE FetchNothing
    <2>1. cyc' \in Cycle' /\ CycleOK'
      BY <1>7 DEF FetchNothing, TypeInv, TypeOK, CycleOK, InBatch, Cycle, EventsOf
    <2> QED
      BY <1>7, <2>1 DEF FetchNothing, TypeInv, TypeOK
  <1>8. CASE FetchOutOfRange
    <2>1. cyc' \in Cycle' /\ CycleOK'
      BY <1>8 DEF FetchOutOfRange, TypeInv, TypeOK, CycleOK, InBatch, Cycle, EventsOf
    <2> QED
      BY <1>8, <2>1 DEF FetchOutOfRange, TypeInv, TypeOK
  <1>9. CASE Recover
    <2>1. cyc' \in Cycle' /\ CycleOK'
      BY <1>9, NextContractOK DEF Recover
    <2>2. cyc.latest - 1 \in Nat
      BY <1>9 DEF Recover, TypeInv, CycleOK
    <2> QED
      BY <1>9, <2>1, <2>2 DEF Recover, TypeInv, TypeOK, PassedOver, EventsOf
  <1> QED
    BY <1>1, <1>2, <1>3, <1>4, <1>5, <1>6, <1>7, <1>8, <1>9 DEF FetchNext

LEMMA TypeEvent == TypeInv /\ EventNext => TypeInv'
  <1> SUFFICES ASSUME TypeInv, EventNext PROVE TypeInv'
    OBVIOUS
  <1> USE DEF tables, past
  <1> USE Numbers
  <1>0. InBatch => /\ Current \in chain /\ Current.value \in Nat
                   /\ Current.kind \in LoanKind => Current.of \in Loan
                   /\ Current.kind = "score" => Current.of \in Wallet
    BY CurrentFacts, ChainFacts DEF TypeInv, CycleOK, ChainOK, Event, LoanKind
  <1>1. CASE SaveCursor
    <2>1. cyc' \in Cycle' /\ CycleOK'
      BY <1>1, NextContractOK DEF SaveCursor
    <2>2. Larger(cyc.max, cyc.latest) \in Nat
      BY Numbers DEF Larger
    <2> QED
      BY <1>1, <2>1, <2>2 DEF SaveCursor, TypeInv, TypeOK
  <1>2. CASE LoanRepaidInsert /\ Current \notin payments
    <2>1. Current' = Current
      BY <1>2 DEF LoanRepaidInsert, TypeInv, TypeOK, Cycle, Current
    <2>2. cyc' \in Cycle' /\ CycleOK'
      BY <1>2, <2>1 DEF LoanRepaidInsert, TypeInv, TypeOK, CycleOK, InBatch, Cycle, EventsOf
    <2> QED
      BY <1>0, <1>2, <2>2 DEF LoanRepaidInsert, TypeInv, TypeOK, InBatch
  <1>3. CASE ScoreHistory /\ Current \notin history
    <2>1. Current' = Current
      BY <1>3 DEF ScoreHistory, TypeInv, TypeOK, Cycle, Current
    <2>2. cyc' \in Cycle' /\ CycleOK'
      BY <1>3, <2>1 DEF ScoreHistory, TypeInv, TypeOK, CycleOK, InBatch, Cycle, EventsOf
    <2> QED
      BY <1>0, <1>3, <2>2 DEF ScoreHistory, TypeInv, TypeOK, InBatch
  <1>4. CASE LoanRepaidInsert /\ Current \in payments
    <2>1. cyc' \in Cycle' /\ CycleOK'
      BY <1>4, LeaveOK DEF LoanRepaidInsert, InBatch
    <2> QED
      BY <1>4, <2>1 DEF LoanRepaidInsert, TypeInv, TypeOK
  <1>5. CASE ScoreHistory /\ Current \in history
    <2>1. cyc' \in Cycle' /\ CycleOK'
      BY <1>5, LeaveOK DEF ScoreHistory, InBatch
    <2> QED
      BY <1>5, <2>1 DEF ScoreHistory, TypeInv, TypeOK
  <1>6. CASE LoanRepaidSum
    <2>1. Current' = Current /\ PaymentsOf(Current.of) \subseteq chain
      BY <1>6 DEF LoanRepaidSum, TypeInv, TypeOK, Cycle, Current, PaymentsOf
    <2>2. cyc' \in Cycle' /\ CycleOK'
      BY <1>6, <2>1 DEF LoanRepaidSum, TypeInv, TypeOK, CycleOK, InBatch, Cycle, EventsOf
    <2> QED
      BY <1>6, <2>2 DEF LoanRepaidSum, TypeInv, TypeOK
  <1>7. CASE \/ SkipUnparsed \/ LoanCreated \/ LoanCreatedUndated \/ LoanRepaidStatus
             \/ LoanRepaidFollowUpFails \/ LoanDefaulted \/ ScoreCache \/ ScoreCacheFails
             \/ PersistFails
    <2>0. InBatch
      BY <1>7 DEF InBatch, SkipUnparsed, LoanCreated, LoanCreatedUndated, LoanRepaidStatus,
                  LoanRepaidFollowUpFails, LoanDefaulted, ScoreCache, ScoreCacheFails, PersistFails
    <2>1. cyc' \in Cycle' /\ CycleOK'
      BY <1>7, <2>0, LeaveOK
         DEF SkipUnparsed, LoanCreated, LoanCreatedUndated, LoanRepaidStatus,
             LoanRepaidFollowUpFails, LoanDefaulted, ScoreCache, ScoreCacheFails, PersistFails
    <2>2. skipped' \subseteq chain /\ payments' \subseteq chain /\ history' \subseteq chain
      BY <1>7, <1>0, <2>0
         DEF SkipUnparsed, LoanCreated, LoanCreatedUndated, LoanRepaidStatus, Stored,
             LoanRepaidFollowUpFails, LoanDefaulted, ScoreCache, ScoreCacheFails, PersistFails,
             TypeInv, TypeOK
    <2>3. loanIndex' \in [Loan -> {"none", "active", "paid", "defaulted"}]
      BY <1>7 DEF SkipUnparsed, LoanCreated, LoanCreatedUndated, LoanRepaidStatus, Stored,
             LoanRepaidFollowUpFails, LoanDefaulted, ScoreCache, ScoreCacheFails, PersistFails,
             TypeInv, TypeOK
    <2>4. score' \in [Wallet -> Nat]
      BY <1>7, <1>0, <2>0
         DEF SkipUnparsed, LoanCreated, LoanCreatedUndated, LoanRepaidStatus, Stored,
             LoanRepaidFollowUpFails, LoanDefaulted, ScoreCache, ScoreCacheFails, PersistFails,
             TypeInv, TypeOK
    <2>5. UNCHANGED <<chain, tip, cursor, cut, jumped>> /\ (UNCHANGED faults \/ Fault)
      BY <1>7 DEF SkipUnparsed, LoanCreated, LoanCreatedUndated, LoanRepaidStatus,
             LoanRepaidFollowUpFails, LoanDefaulted, ScoreCache, ScoreCacheFails, PersistFails
    <2> QED
      BY <2>1, <2>2, <2>3, <2>4, <2>5 DEF TypeInv, TypeOK
  <1> QED
    BY <1>1, <1>2, <1>3, <1>4, <1>5, <1>6, <1>7 DEF EventNext, LoanNext

LEMMA TypeStep == TypeInv /\ [Next]_vars => TypeInv'
  <1> SUFFICES ASSUME TypeInv, [Next]_vars PROVE TypeInv'
    OBVIOUS
  <1> USE Numbers DEF tables, past
  <1>1. CASE FetchNext \/ EventNext
    BY <1>1, TypeFetch, TypeEvent
  <1>2. CASE CloseLedger
    BY <1>2, BoundsAssumption
       DEF CloseLedger, TypeInv, TypeOK, CycleOK, InBatch, Cycle, EventsOf, Current
  <1>3. CASE Crash
    <2>1. cyc' \in Cycle' /\ CycleOK'
      BY <1>3, NextContractOK DEF Crash
    <2>2. skipped' \subseteq chain
      BY <1>3, CurrentFacts DEF Crash, TypeInv, TypeOK, CycleOK, InBatch
    <2> QED
      BY <1>3, <2>1, <2>2 DEF Crash, TypeInv, TypeOK
  <1>4. CASE UNCHANGED vars
    BY <1>4 DEF vars, TypeInv, TypeOK, CycleOK, InBatch, Cycle, EventsOf, Current
  <1> QED
    BY <1>1, <1>2, <1>3, <1>4 DEF Next

\* Types, for every history of events: in particular neither a cursor nor a start
\* ledger ever becomes negative, however short the network's ledger history is.
THEOREM TypeCorrect == Spec => []TypeOK
  <1>1. Init => TypeInv
    BY TypeInit
  <1>2. TypeInv /\ [Next]_vars => TypeInv'
    BY TypeStep
  <1>3. TypeInv => TypeOK
    BY DEF TypeInv
  <1> QED
    BY <1>1, <1>2, <1>3, PTL DEF Spec

-----------------------------------------------------------------------------
(* EventsAccountedFor. While a cycle is at work, what lies below its start ledger is  *)
(* accounted for; once it has a page, so is everything that the cursor will pass,     *)
(* except what is still in the page.                                                  *)

Accounted(e) == Indexed(e) \/ e \in skipped \cup cut \cup jumped

BeforePage == cyc.pc \in {"tip", "heal", "fetch", "recover"}
AfterPage  == InBatch \/ cyc.pc = "save"

\* The cursor that is going to be saved passes e.
Passed(e) ==
  \/ e.ledger <= cyc.max
  \/ e.ledger <= cyc.latest
  \/ \E b \in cyc.batch : e.ledger <= b.ledger

BelowCursor ==
  \A c \in Contract : \A e \in EventsOf(c) : e.ledger <= cursor[c] => Accounted(e)
BelowStart ==
  BeforePage => \A e \in EventsOf(cyc.c) : e.ledger < cyc.start => Accounted(e)
BelowPage ==
  AfterPage => \A e \in EventsOf(cyc.c) : Passed(e) => Accounted(e) \/ e \in cyc.batch
NoMax == ~AfterPage => cyc.max = 0

AccountInv == TypeInv /\ BelowCursor /\ BelowStart /\ BelowPage /\ NoMax

\* The tables and the log only grow.
LEMMA TablesGrow ==
  ASSUME TypeInv, [Next]_vars
  PROVE  /\ chain' = chain
         /\ payments \subseteq payments' /\ history \subseteq history'
         /\ \A l \in Loan : loanIndex[l] # "none" => loanIndex'[l] # "none"
         /\ skipped \subseteq skipped' /\ cut \subseteq cut' /\ jumped \subseteq jumped'
  <1> USE DEF tables, past
  <1>1. CASE FetchNext
    BY <1>1 DEF FetchNext, RunIndexer, ReadCursor, ReadCursorFails, ReadTip, CallFails, Heal,
                Fetch, FetchNothing, FetchOutOfRange, Recover
  <1>2. CASE LoanCreated \/ LoanRepaidStatus \/ LoanDefaulted \/ PersistFails
    <2>1. loanIndex \in [Loan -> {"none", "active", "paid", "defaulted"}]
      BY DEF TypeInv, TypeOK
    <2> QED
      BY <1>2, <2>1 DEF LoanCreated, LoanRepaidStatus, LoanDefaulted, PersistFails, Stored
  <1>3. CASE \/ LoanCreatedUndated \/ LoanRepaidInsert \/ LoanRepaidSum
             \/ LoanRepaidFollowUpFails \/ SkipUnparsed \/ ScoreHistory \/ ScoreCache
             \/ ScoreCacheFails \/ SaveCursor
    BY <1>3 DEF LoanCreatedUndated, LoanRepaidInsert, LoanRepaidSum, LoanRepaidFollowUpFails,
                SkipUnparsed, ScoreHistory, ScoreCache, ScoreCacheFails, SaveCursor
  <1>4. CASE CloseLedger \/ Crash \/ UNCHANGED vars
    BY <1>4 DEF CloseLedger, Crash, vars
  <1> QED
    BY <1>1, <1>2, <1>3, <1>4 DEF Next, EventNext, LoanNext

LEMMA AccountedGrows ==
  ASSUME TypeInv, [Next]_vars, NEW e \in chain, Accounted(e)
  PROVE  Accounted(e)'
  <1>1. e.kind = "created" => e.of \in Loan
    BY ChainFacts DEF TypeInv, ChainOK, LoanKind
  <1> QED
    BY <1>1, TablesGrow DEF Accounted, Indexed

\* An event that leaves the page is accounted for.
LEMMA CurrentAccounted ==
  ASSUME TypeInv, EventNext, InBatch, NEW e, e = Current, Persisted \/ NotPersisted
  PROVE  Accounted(e)'
  <1> USE DEF tables, past
  <1>1. /\ e \in chain /\ (e.kind \in LoanKind => e.of \in Loan)
        /\ e.kind \in LoanKind \cup OtherKind
    BY CurrentFacts, ChainFacts DEF TypeInv, CycleOK, ChainOK, Event
  <1>2. loanIndex \in [Loan -> {"none", "active", "paid", "defaulted"}]
    BY DEF TypeInv, TypeOK
  <1>3. CASE e \in skipped'
    BY <1>3 DEF Accounted
  <1>4. CASE e.kind \in {"other", "undated", "defaulted"} /\ e \notin skipped'
    BY <1>4 DEF Accounted, Indexed
  <1>5. CASE e.kind = "created" /\ e \notin skipped'
    <2>1. LoanCreated
      <3>1. cyc.pc \notin {"sum", "status", "cache", "save"}
        BY <1>5 DEF TypeInv, CycleOK, InBatch
      <3> QED
        BY <1>5, <3>1
           DEF EventNext, LoanNext, LoanCreatedUndated, LoanRepaidInsert, LoanRepaidSum,
               LoanRepaidStatus, LoanRepaidFollowUpFails, LoanDefaulted, SkipUnparsed,
               ScoreHistory, ScoreCache, ScoreCacheFails, PersistFails, SaveCursor
    <2>2. loanIndex'[e.of] # "none"
      BY <1>1, <1>2, <1>5, <2>1 DEF LoanCreated, LoanKind
    <2> QED
      BY <1>5, <2>2 DEF Accounted, Indexed
  <1>6. CASE e.kind = "repaid" /\ e \notin skipped'
    <2>1. LoanRepaidInsert \/ LoanRepaidSum \/ LoanRepaidStatus
      <3>1. cyc.pc \in {"event", "sum", "status"}
        BY <1>6 DEF TypeInv, CycleOK, InBatch
      <3> QED
        BY <1>6, <3>1
           DEF EventNext, LoanNext, LoanCreated, LoanCreatedUndated,
               LoanRepaidFollowUpFails, LoanDefaulted, SkipUnparsed,
               ScoreHistory, ScoreCache, ScoreCacheFails, PersistFails, SaveCursor
    <2>2. e \in payments'
      BY <1>6, <2>1
         DEF LoanRepaidInsert, LoanRepaidSum, LoanRepaidStatus, TypeInv, CycleOK
    <2> QED
      BY <1>6, <2>2 DEF Accounted, Indexed
  <1>7. CASE e.kind = "score" /\ e \notin skipped'
    <2>1. ScoreHistory \/ ScoreCache
      <3>1. cyc.pc \in {"event", "cache"}
        BY <1>7 DEF TypeInv, CycleOK, InBatch
      <3> QED
        BY <1>7, <3>1
           DEF EventNext, LoanNext, LoanCreated, LoanCreatedUndated, LoanRepaidInsert,
               LoanRepaidSum, LoanRepaidStatus, LoanRepaidFollowUpFails, LoanDefaulted,
               SkipUnparsed, ScoreCacheFails, PersistFails, SaveCursor
    <2>2. e \in history'
      BY <1>7, <2>1 DEF ScoreHistory, ScoreCache, TypeInv, CycleOK
    <2> QED
      BY <1>7, <2>2 DEF Accounted, Indexed
  <1> QED
    BY <1>1, <1>3, <1>4, <1>5, <1>6, <1>7 DEF LoanKind, OtherKind

LEMMA AccountInit == Init => AccountInv
  <1> SUFFICES ASSUME Init PROVE AccountInv
    OBVIOUS
  <1>1. \A e \in chain : e.ledger \in Nat \ {0}
    BY TypeInit, ChainFacts DEF TypeInv, ChainOK, Event
  <1>2. BelowCursor
    BY <1>1 DEF Init, BelowCursor, EventsOf, Contract
  <1> QED
    BY <1>2, TypeInit
       DEF Init, AccountInv, BelowStart, BelowPage, NoMax, BeforePage, AfterPage, InBatch, Idle

\* A step that neither touches the cycle nor the cursor.
LEMMA AccountKept ==
  ASSUME AccountInv, [Next]_vars, UNCHANGED <<cyc, cursor>>
  PROVE  AccountInv'
  <1>1. TypeInv' /\ chain' = chain
    BY TypeStep, TablesGrow DEF AccountInv
  <1>2. \A e \in chain : Accounted(e) => Accounted(e)'
    BY AccountedGrows DEF AccountInv
  <1>3. \A c : EventsOf(c)' = EventsOf(c) /\ EventsOf(c) \subseteq chain
    BY <1>1 DEF EventsOf
  <1> QED
    BY <1>1, <1>2, <1>3
       DEF AccountInv, BelowCursor, BelowStart, BelowPage, NoMax, BeforePage, AfterPage, InBatch,
           Passed

LEMMA CycleEnds ==
  ASSUME cyc' = NextContract \/ cyc' = Idle \/ cyc' = [Idle EXCEPT !.pc = "cursor"]
  PROVE  cyc'.pc \in {"idle", "cursor"} /\ cyc'.max = 0
  <1>1. CASE cyc' = [Idle EXCEPT !.pc = "cursor", !.c = "reputation"]
    BY <1>1 DEF Idle
  <1>2. CASE cyc' = Idle
    BY <1>2 DEF Idle
  <1>3. CASE cyc' = [Idle EXCEPT !.pc = "cursor"]
    BY <1>3 DEF Idle
  <1> QED
    BY <1>1, <1>2, <1>3 DEF NextContract

\* The end of a cycle, with the cursor where it was.
LEMMA AccountLeft ==
  ASSUME AccountInv, [Next]_vars, cyc' = NextContract \/ cyc' = Idle, BelowCursor'
  PROVE  AccountInv'
  <1>1. cyc'.pc \in {"idle", "cursor"} /\ cyc'.max = 0
    BY CycleEnds
  <1> QED
    BY <1>1, TypeStep
       DEF AccountInv, BelowStart, BelowPage, NoMax, BeforePage, AfterPage, InBatch

LEMMA CursorKept ==
  ASSUME AccountInv, [Next]_vars, UNCHANGED cursor
  PROVE  BelowCursor'
  <1>1. chain' = chain /\ \A e \in chain : Accounted(e) => Accounted(e)'
    BY TablesGrow, AccountedGrows DEF AccountInv
  <1> QED
    BY <1>1 DEF AccountInv, BelowCursor, EventsOf

\* A cursor that moves in its own contract, to n.
LEMMA CursorMoved ==
  ASSUME AccountInv, [Next]_vars, NEW n \in Nat, cursor' = [cursor EXCEPT ![cyc.c] = n],
         \A e \in EventsOf(cyc.c) : e.ledger <= n => Accounted(e)'
  PROVE  BelowCursor'
  <1>1. chain' = chain /\ \A e \in chain : Accounted(e) => Accounted(e)'
    BY TablesGrow, AccountedGrows DEF AccountInv
  <1>2. \A c \in Contract : cursor'[c] = IF c = cyc.c THEN n ELSE cursor[c]
    BY DEF AccountInv, TypeInv, TypeOK, Cycle
  <1> SUFFICES ASSUME NEW c \in Contract, NEW e \in EventsOf(c), e.ledger <= cursor'[c]
               PROVE  Accounted(e)'
    BY <1>1 DEF BelowCursor, EventsOf
  <1>3. CASE c = cyc.c
    BY <1>2, <1>3
  <1>4. CASE c # cyc.c
    BY <1>1, <1>2, <1>4 DEF AccountInv, BelowCursor, EventsOf
  <1> QED
    BY <1>3, <1>4

LEMMA AccountFetch == AccountInv /\ FetchNext => AccountInv'
  <1> SUFFICES ASSUME AccountInv, FetchNext PROVE AccountInv'
    OBVIOUS
  <1>1. /\ [Next]_vars /\ TypeInv /\ TypeInv' /\ chain' = chain
        /\ \A e \in chain : e.ledger \in Nat \ {0} /\ e.id \in Nat
    BY TypeStep, TablesGrow, ChainFacts DEF Next, AccountInv, TypeInv, ChainOK, Event
  <1>2. /\ \A e \in chain : Accounted(e) => Accounted(e)'
        /\ \A c : EventsOf(c)' = EventsOf(c) /\ EventsOf(c) \subseteq chain
    BY <1>1, AccountedGrows DEF EventsOf
  <1>3. CASE RunIndexer
    <2>1. cyc'.pc = "cursor" /\ cyc'.max = 0
      BY <1>3 DEF RunIndexer, Idle
    <2> QED
      BY <1>1, <1>3, <2>1, CursorKept
         DEF AccountInv, RunIndexer, BelowStart, BelowPage, NoMax, BeforePage, AfterPage, InBatch
  <1>4. CASE ReadCursor \/ ReadCursorFails
    <2>1. PICK n \in {1, cursor[cyc.c] + 1} : cyc' = [cyc EXCEPT !.pc = "tip", !.start = n]
      BY <1>4 DEF ReadCursor, ReadCursorFails
    <2>2. BelowStart'
      BY <1>1, <1>2, <2>1, Numbers
         DEF AccountInv, BelowCursor, BelowStart, TypeInv, TypeOK, Cycle
    <2>3. NoMax' /\ BelowPage'
      BY <1>4, <2>1 DEF AccountInv, TypeInv, TypeOK, Cycle, NoMax, BelowPage, AfterPage,
                        InBatch, ReadCursor, ReadCursorFails
    <2>4. UNCHANGED cursor
      BY <1>4 DEF ReadCursor, ReadCursorFails
    <2> QED
      BY <1>1, <2>2, <2>3, <2>4, CursorKept DEF AccountInv
  <1>5. CASE ReadTip \/ FetchOutOfRange
    <2>1. /\ cyc'.c = cyc.c /\ cyc'.start = cyc.start /\ cyc'.max = cyc.max
          /\ cyc'.pc \in {"heal", "fetch", "recover"} /\ cyc.pc \in {"tip", "fetch"}
          /\ UNCHANGED cursor
      BY <1>5 DEF ReadTip, FetchOutOfRange, AccountInv, TypeInv, TypeOK, Cycle
    <2>2. BelowStart' /\ NoMax' /\ BelowPage'
      BY <1>2, <2>1
         DEF AccountInv, BelowStart, BelowPage, NoMax, BeforePage, AfterPage, InBatch
    <2> QED
      BY <1>1, <2>1, <2>2, CursorKept DEF AccountInv
  <1>6. CASE CallFails
    BY <1>1, <1>6, AccountLeft, CursorKept DEF CallFails
  <1>7. CASE Heal
    <2> DEFINE n == cyc.latest - CatchUpBuffer
    <2>1. /\ cyc' = [cyc EXCEPT !.pc = "fetch", !.start = n] /\ cyc.pc = "heal"
          /\ cursor' = [cursor EXCEPT ![cyc.c] = n - 1]
          /\ jumped' = jumped \cup PassedOver(n)
      BY <1>7 DEF Heal
    <2>2. n \in Nat /\ n >= 1 /\ n - 1 \in Nat
      BY <1>1, <2>1, Numbers DEF TypeInv, CycleOK
    <2> HIDE DEF n
    <2>3. \A e \in EventsOf(cyc.c) : e.ledger < n => Accounted(e)'
      BY <1>1, <1>2, <2>1, Numbers
         DEF AccountInv, BelowStart, BeforePage, PassedOver, Accounted
    <2>4. BelowCursor'
      <3>1. \A e \in EventsOf(cyc.c) : e.ledger <= n - 1 => Accounted(e)'
        BY <1>1, <1>2, <2>2, <2>3
      <3> QED
        BY <1>1, <2>1, <2>2, <3>1, CursorMoved
    <2>5. BelowStart' /\ NoMax' /\ BelowPage'
      BY <1>2, <2>1, <2>3
         DEF AccountInv, BelowStart, BelowPage, NoMax, BeforePage, AfterPage, InBatch, TypeInv,
             TypeOK, Cycle
    <2> QED
      BY <1>1, <2>4, <2>5 DEF AccountInv
  <1>8. CASE Fetch
    <2>1. PICK pc \in {"save", "event"} :
            cyc' = [cyc EXCEPT !.batch = Page, !.max = cyc.start, !.pc = pc]
      BY <1>8 DEF Fetch
    <2>2. /\ cyc.pc = "fetch" /\ cyc.start <= cyc.latest /\ cyc.latest <= tip
          /\ UNCHANGED cursor
          /\ cut' = cut \cup {e \in Found \ Page : \/ e.ledger <= cyc.latest
                                                  \/ \E d \in Page : e.ledger <= d.ledger}
      BY <1>1, <1>8 DEF Fetch, TypeInv, CycleOK
    <2>3. BelowStart' /\ NoMax'
      BY <2>1 DEF BelowStart, NoMax, BeforePage, AfterPage, InBatch, AccountInv, TypeInv, TypeOK,
                  Cycle
    <2>4. ASSUME NEW e \in EventsOf(cyc.c),
                 e.ledger <= cyc.start \/ e.ledger <= cyc.latest \/ \E b \in Page : e.ledger <= b.ledger
          PROVE  Accounted(e)' \/ e \in Page
      <3>1. CASE e.ledger < cyc.start
        BY <1>2, <2>2, <3>1 DEF AccountInv, BelowStart, BeforePage
      <3>2. CASE ~(e.ledger < cyc.start)
        <4>1. e.ledger \in Nat /\ \A b \in Page : b \in chain /\ b.ledger \in Nat /\ b.ledger <= tip
          BY <1>1, <1>2 DEF Page, Found
        <4>2. e \in Found /\ (e.ledger <= cyc.latest \/ \E b \in Page : e.ledger <= b.ledger)
          BY <1>1, <2>2, <2>4, <3>2, <4>1, Numbers DEF Found
        <4> QED
          BY <2>2, <4>2 DEF Accounted
      <3> QED
        BY <3>1, <3>2
    <2>5. BelowPage'
      BY <1>2, <2>1, <2>4 DEF BelowPage, Passed, AccountInv, TypeInv, TypeOK, Cycle
    <2> QED
      BY <1>1, <2>2, <2>3, <2>5, CursorKept DEF AccountInv
  <1>9. CASE FetchNothing
    <2>1. /\ cyc' = [cyc EXCEPT !.pc = "save"] /\ cyc.pc = "fetch" /\ cyc.start > cyc.latest
          /\ UNCHANGED cursor
      BY <1>9 DEF FetchNothing
    <2>2. BelowStart' /\ NoMax'
      BY <2>1 DEF AccountInv, BelowStart, NoMax, BeforePage, AfterPage, InBatch, TypeInv,
                  TypeOK, Cycle
    <2>3. cyc.max = 0 /\ cyc.batch = {}
      BY <2>1 DEF AccountInv, NoMax, AfterPage, InBatch, TypeInv, CycleOK
    <2>4. BelowPage'
      BY <1>1, <1>2, <2>1, <2>3, Numbers
         DEF AccountInv, BelowStart, BelowPage, BeforePage, Passed, TypeInv, TypeOK, Cycle
    <2> QED
      BY <1>1, <2>1, <2>2, <2>4, CursorKept DEF AccountInv
  <1>10. CASE Recover
    <2>1. /\ cyc.pc = "recover" /\ cyc' = NextContract
          /\ cursor' = [cursor EXCEPT ![cyc.c] = cyc.latest - 1]
          /\ jumped' = jumped \cup PassedOver(cyc.latest)
      BY <1>10 DEF Recover
    <2>2. cyc.latest - 1 \in Nat
      BY <1>1, <2>1, Numbers DEF TypeInv, CycleOK
    <2>3. \A e \in EventsOf(cyc.c) : e.ledger <= cyc.latest - 1 => Accounted(e)'
      BY <1>1, <1>2, <2>1, <2>2, Numbers
         DEF AccountInv, BelowStart, BeforePage, PassedOver, Accounted
    <2> QED
      BY <1>1, <2>1, <2>2, <2>3, CursorMoved, AccountLeft
  <1> QED
    BY <1>3, <1>4, <1>5, <1>6, <1>7, <1>8, <1>9, <1>10 DEF FetchNext

LEMMA AccountEvent == AccountInv /\ EventNext => AccountInv'
  <1> SUFFICES ASSUME AccountInv, EventNext PROVE AccountInv'
    OBVIOUS
  <1> USE DEF tables, past
  <1>1. /\ [Next]_vars /\ TypeInv /\ TypeInv' /\ chain' = chain
        /\ \A e \in chain : e.ledger \in Nat \ {0} /\ e.id \in Nat
    BY TypeStep, TablesGrow, ChainFacts DEF Next, AccountInv, TypeInv, ChainOK, Event
  <1>2. /\ \A e \in chain : Accounted(e) => Accounted(e)'
        /\ \A c : EventsOf(c)' = EventsOf(c) /\ EventsOf(c) \subseteq chain
    BY <1>1, AccountedGrows DEF EventsOf
  <1>3. CASE SaveCursor
    <2>1. /\ cyc.pc = "save" /\ cyc' = NextContract
          /\ cursor' = [cursor EXCEPT ![cyc.c] = Larger(cyc.max, cyc.latest)]
      BY <1>3 DEF SaveCursor
    <2>2. Larger(cyc.max, cyc.latest) \in Nat
      BY <1>1, Numbers DEF Larger
    <2>3. cyc.batch = {}
      BY <1>1, <2>1 DEF TypeInv, CycleOK, InBatch
    <2>4. \A e \in EventsOf(cyc.c) : e.ledger <= Larger(cyc.max, cyc.latest) => Accounted(e)'
      BY <1>1, <1>2, <2>1, <2>3, Numbers
         DEF AccountInv, BelowPage, AfterPage, Passed, Larger
    <2> QED
      BY <1>1, <2>1, <2>2, <2>4, CursorMoved, AccountLeft
  <1>4. CASE InBatch /\ (Persisted \/ NotPersisted) /\ UNCHANGED cursor
    <2>1. PICK cur : cur = Current
      OBVIOUS
    <2>2. Accounted(cur)'
      BY <1>1, <1>4, <2>1, CurrentAccounted
    <2>3. /\ cyc'.c = cyc.c /\ cyc'.latest = cyc.latest /\ cyc'.batch = cyc.batch \ {cur}
          /\ cyc'.max \in {cyc.max, Larger(cyc.max, cur.ledger)} /\ cyc'.pc \in {"event", "save"}
          /\ cur \in cyc.batch
      <3>1. UNCHANGED <<chain, tip>>
        BY DEF EventNext, LoanNext, SkipUnparsed, LoanCreated, LoanCreatedUndated,
               LoanRepaidInsert, LoanRepaidSum, LoanRepaidStatus, LoanRepaidFollowUpFails,
               LoanDefaulted, ScoreHistory, ScoreCache, ScoreCacheFails, PersistFails, SaveCursor
      <3> QED
        BY <1>1, <1>4, <2>1, <3>1, LeaveOK, CurrentFacts DEF TypeInv, CycleOK
    <2>4. \A e \in EventsOf(cyc.c) : Passed(e)' => Passed(e)
      BY <1>1, <2>3 DEF Passed, Larger
    <2>5. BelowPage'
      BY <1>2, <1>4, <2>2, <2>3, <2>4 DEF AccountInv, BelowPage, AfterPage
    <2>6. BelowStart' /\ NoMax'
      BY <2>3 DEF BelowStart, NoMax, BeforePage, AfterPage, InBatch
    <2> QED
      BY <1>1, <1>4, <2>5, <2>6, CursorKept DEF AccountInv
  <1>5. CASE /\ InBatch /\ UNCHANGED cursor
             /\ \E pc \in {"sum", "status", "cache"}, rows \in {cyc.rows, PaymentsOf(Current.of)} :
                  cyc' = [cyc EXCEPT !.pc = pc, !.rows = rows]
    <2>1. PICK pc \in {"sum", "status", "cache"}, rows \in {cyc.rows, PaymentsOf(Current.of)} :
            cyc' = [cyc EXCEPT !.pc = pc, !.rows = rows]
      BY <1>5
    <2>2. /\ cyc'.c = cyc.c /\ cyc'.latest = cyc.latest /\ cyc'.batch = cyc.batch
          /\ cyc'.max = cyc.max /\ cyc'.pc = pc
      BY <2>1 DEF AccountInv, TypeInv, TypeOK, Cycle
    <2>3. BelowPage' /\ BelowStart' /\ NoMax'
      BY <1>2, <1>5, <2>2
         DEF AccountInv, BelowPage, BelowStart, NoMax, Passed, BeforePage, AfterPage, InBatch
    <2> QED
      BY <1>1, <1>5, <2>3, CursorKept DEF AccountInv
  <1>6. CASE LoanRepaidInsert \/ ScoreHistory \/ LoanRepaidSum
    <2>1. \/ Persisted
          \/ cyc' = [cyc EXCEPT !.pc = "sum"] \/ cyc' = [cyc EXCEPT !.pc = "cache"]
          \/ cyc' = [cyc EXCEPT !.pc = "status", !.rows = PaymentsOf(Current.of)]
      BY <1>6 DEF LoanRepaidInsert, ScoreHistory, LoanRepaidSum
    <2>2. InBatch /\ UNCHANGED cursor
      BY <1>6 DEF LoanRepaidInsert, ScoreHistory, LoanRepaidSum, InBatch
    <2> QED
      BY <1>1, <1>4, <1>5, <2>1, <2>2 DEF TypeInv, TypeOK, Cycle
  <1>7. CASE \/ SkipUnparsed \/ LoanCreated \/ LoanCreatedUndated \/ LoanRepaidStatus
             \/ LoanRepaidFollowUpFails \/ LoanDefaulted \/ ScoreCache \/ ScoreCacheFails
             \/ PersistFails
    BY <1>4, <1>7 DEF SkipUnparsed, LoanCreated, LoanCreatedUndated, LoanRepaidStatus,
                      LoanRepaidFollowUpFails, LoanDefaulted, ScoreCache, ScoreCacheFails,
                      PersistFails, InBatch
  <1> QED
    BY <1>3, <1>6, <1>7 DEF EventNext, LoanNext

LEMMA AccountStep == AccountInv /\ [Next]_vars => AccountInv'
  <1> SUFFICES ASSUME AccountInv, [Next]_vars PROVE AccountInv'
    OBVIOUS
  <1>1. CASE FetchNext \/ EventNext
    BY <1>1, AccountFetch, AccountEvent
  <1>2. CASE CloseLedger \/ UNCHANGED vars
    BY <1>2, AccountKept DEF CloseLedger, vars
  <1>3. CASE Crash
    BY <1>3, AccountLeft, CursorKept DEF Crash
  <1> QED
    BY <1>1, <1>2, <1>3 DEF Next

\* EventsAccountedFor, for every history of events and every page size: what the cursor
\* has passed is in its table or in the log of failures, of full pages, of fast-forwards
\* and recoveries. A crash that falls between two events adds nothing to that log.
THEOREM NothingLost == Spec => []EventsAccountedFor
  <1>1. Init => AccountInv
    BY AccountInit
  <1>2. AccountInv /\ [Next]_vars => AccountInv'
    BY AccountStep
  <1>3. AccountInv => EventsAccountedFor
    BY DEF AccountInv, BelowCursor, Accounted, EventsAccountedFor
  <1> QED
    BY <1>1, <1>2, <1>3, PTL DEF Spec

-----------------------------------------------------------------------------
(* CoveredIsPaid. The status is computed from the payments of the loan as they are,   *)
(* and a loan has its row before its first payment is looked at.                      *)

RowsRead == cyc.pc = "status" => cyc.rows = PaymentsOf(Current.of)

NeverDefaulted(l) == \A e \in chain : e.of = l => e.kind # "defaulted"

PaidInv == AccountInv /\ RowsRead /\ CoveredIsPaid

LEMMA RowsReadStep ==
  ASSUME TypeInv, RowsRead, [Next]_vars
  PROVE  RowsRead'
  <1> USE DEF tables, past
  <1>1. CASE cyc'.pc # "status"
    BY <1>1 DEF RowsRead
  <1>2. CASE LoanRepaidSum
    <2>1. Current' = Current /\ cyc'.rows = PaymentsOf(Current.of) /\ payments' = payments
      BY <1>2 DEF LoanRepaidSum, TypeInv, TypeOK, Cycle, Current
    <2> QED
      BY <2>1 DEF RowsRead, PaymentsOf
  <1>3. CASE UNCHANGED <<cyc, payments>>
    BY <1>3 DEF RowsRead, PaymentsOf, Current
  <1>4. CASE FetchNext \/ Crash
    <2>1. CASE cyc' = NextContract \/ cyc' = Idle \/ cyc' = [Idle EXCEPT !.pc = "cursor"]
      BY <1>1, <2>1, CycleEnds
    <2>2. CASE \E pc \in {"tip", "heal", "fetch", "recover", "save", "event"} : cyc'.pc = pc
      BY <1>1, <2>2
    <2>3. cyc \in [pc : {"idle", "cursor", "tip", "heal", "fetch", "recover", "event", "sum",
                         "status", "cache", "save"},
                   c : Contract, start : Nat, latest : Nat, max : Nat, batch : SUBSET chain,
                   rows : SUBSET chain]
      BY DEF TypeInv, TypeOK, Cycle
    <2> QED
      BY <1>4, <2>1, <2>2, <2>3
         DEF FetchNext, RunIndexer, ReadCursor, ReadCursorFails, ReadTip, CallFails, Heal, Fetch,
             FetchNothing, FetchOutOfRange, Recover, Crash
  <1>5. CASE InBatch /\ (Persisted \/ NotPersisted) /\ UNCHANGED <<chain, tip>>
    BY <1>1, <1>5, LeaveOK
  <1>6. CASE EventNext /\ ~LoanRepaidSum
    <2>1. CASE SaveCursor
      BY <1>1, <2>1, CycleEnds DEF SaveCursor
    <2>2. CASE /\ LoanRepaidInsert \/ ScoreHistory
               /\ ~Persisted
      <3>1. cyc' = [cyc EXCEPT !.pc = "sum"] \/ cyc' = [cyc EXCEPT !.pc = "cache"]
        BY <2>2 DEF LoanRepaidInsert, ScoreHistory
      <3> QED
        BY <1>1, <3>1 DEF TypeInv, TypeOK, Cycle
    <2>3. CASE (~SaveCursor /\ ~(LoanRepaidInsert \/ ScoreHistory)) \/ Persisted
      BY <1>5, <1>6, <2>1, <2>3
         DEF EventNext, LoanNext, SkipUnparsed, LoanCreated, LoanCreatedUndated, LoanRepaidInsert,
             LoanRepaidStatus, LoanRepaidFollowUpFails, LoanDefaulted, ScoreHistory, ScoreCache,
             ScoreCacheFails, PersistFails, InBatch
    <2> QED
      BY <2>1, <2>2, <2>3
  <1> QED
    BY <1>2, <1>3, <1>4, <1>6 DEF Next, CloseLedger, vars

\* The loan of the payment being persisted has a row.
LEMMA CreatedBefore ==
  ASSUME AccountInv, cyc.pc = "status", Undisturbed(Current.of)
  PROVE  loanIndex[Current.of] # "none"
  <1>1. InBatch /\ Current \in chain /\ Current \in cyc.batch /\ Current.kind = "repaid"
        /\ \A d \in cyc.batch : Current.id <= d.id
    BY CurrentFacts DEF AccountInv, TypeInv, CycleOK, InBatch
  <1>2. PICK d \in chain : d.kind \in {"created", "undated"} /\ d.of = Current.of
                           /\ d.id < Current.id
    BY <1>1, ChainFacts DEF AccountInv, TypeInv, ChainOK
  <1>3. d.kind = "created" /\ d \notin skipped \cup cut \cup jumped
    BY <1>2 DEF Undisturbed
  <1>4. d.ledger <= Current.ledger /\ d.id \in Nat /\ Current.id \in Nat
    BY <1>1, <1>2, ChainFacts DEF AccountInv, TypeInv, ChainOK, Event
  <1>5. d \in EventsOf(cyc.c) /\ d \notin cyc.batch
    <2>1. Current \in EventsOf(cyc.c)
      BY <1>1 DEF AccountInv, TypeInv, CycleOK
    <2> QED
      BY <1>1, <1>2, <1>3, <1>4, <2>1 DEF EventsOf, LoanKind
  <1>6. Accounted(d)
    BY <1>1, <1>4, <1>5 DEF AccountInv, BelowPage, AfterPage, Passed
  <1> QED
    BY <1>2, <1>3, <1>6 DEF Accounted, Indexed

\* A step that leaves the loan's status and its payments alone.
LEMMA CoveredKept ==
  ASSUME PaidInv, [Next]_vars, NEW l \in Loan,
         loanIndex'[l] = loanIndex[l], PaymentsOf(l)' = PaymentsOf(l),
         BeingPaid(l) => BeingPaid(l)' \/ ~Undisturbed(l)',
         Undisturbed(l)', ~BeingPaid(l)', NeverDefaulted(l), PaymentsOf(l)' # {},
         TotalPaid(PaymentsOf(l)') >= Principal + Interest
  PROVE  loanIndex'[l] = "paid"
  <1>1. Undisturbed(l)
    BY TablesGrow DEF PaidInv, AccountInv, Undisturbed
  <1> QED
    BY <1>1 DEF PaidInv, CoveredIsPaid, NeverDefaulted

LEMMA CoveredStep ==
  ASSUME PaidInv, [Next]_vars
  PROVE  CoveredIsPaid'
  <1> USE DEF tables, past
  <1>1. TypeInv /\ chain' = chain /\ skipped \subseteq skipped' /\ AccountInv /\ RowsRead
    BY TablesGrow DEF PaidInv, AccountInv
  <1>2. SUFFICES ASSUME NEW l \in Loan, Undisturbed(l)', ~BeingPaid(l)', NeverDefaulted(l),
                        PaymentsOf(l)' # {},
                        TotalPaid(PaymentsOf(l)') >= Principal + Interest
                 PROVE  loanIndex'[l] = "paid"
    BY <1>1 DEF CoveredIsPaid, NeverDefaulted
  <1>3. Undisturbed(l)
    BY <1>2, TablesGrow DEF PaidInv, AccountInv, Undisturbed
  <1>4. InBatch => Current \in chain
    BY <1>1, CurrentFacts DEF TypeInv, CycleOK
  <1>5. loanIndex \in [Loan -> {"none", "active", "paid", "defaulted"}]
    BY <1>1 DEF TypeInv, TypeOK
  <1>6. CASE UNCHANGED <<loanIndex, payments>> /\ ~BeingPaid(l)
    BY <1>2, <1>6, CoveredKept DEF PaymentsOf
  <1>7. CASE \/ FetchNext \/ LoanCreatedUndated \/ SkipUnparsed \/ ScoreHistory \/ ScoreCache
             \/ ScoreCacheFails \/ SaveCursor
    BY <1>6, <1>7
       DEF FetchNext, RunIndexer, ReadCursor, ReadCursorFails, ReadTip, CallFails, Heal, Fetch,
           FetchNothing, FetchOutOfRange, Recover, LoanCreatedUndated, SkipUnparsed, ScoreHistory,
           ScoreCache, ScoreCacheFails, SaveCursor, BeingPaid
  <1>8. CASE CloseLedger \/ UNCHANGED vars
    BY <1>2, <1>8, CoveredKept DEF CloseLedger, vars, PaymentsOf, BeingPaid, Current
  <1>9. CASE LoanRepaidFollowUpFails \/ Crash
    <2>1. BeingPaid(l) => ~Undisturbed(l)'
      BY <1>1, <1>4, <1>9 DEF LoanRepaidFollowUpFails, Crash, BeingPaid, Undisturbed, InBatch
    <2> QED
      BY <1>2, <1>6, <1>9, <2>1 DEF LoanRepaidFollowUpFails, Crash
  <1>10. CASE LoanRepaidSum
    <2>1. BeingPaid(l) => BeingPaid(l)'
      BY <1>1, <1>10 DEF LoanRepaidSum, BeingPaid, Current, TypeInv, TypeOK, Cycle
    <2> QED
      BY <1>2, <1>6, <1>10, <2>1 DEF LoanRepaidSum
  <1>11. CASE LoanCreated
    <2>1. PaymentsOf(l)' = PaymentsOf(l) /\ ~BeingPaid(l)
      BY <1>11 DEF LoanCreated, PaymentsOf, BeingPaid
    <2>2. loanIndex[l] = "paid"
      BY <1>2, <1>3, <2>1 DEF PaidInv, CoveredIsPaid, NeverDefaulted
    <2> QED
      BY <1>5, <1>11, <2>2 DEF LoanCreated
  <1>12. CASE LoanDefaulted \/ PersistFails
    <2>1. Current.of # l
      BY <1>2, <1>4, <1>12
         DEF LoanDefaulted, PersistFails, NeverDefaulted, Undisturbed, InBatch
    <2>2. loanIndex'[l] = loanIndex[l] /\ PaymentsOf(l)' = PaymentsOf(l)
      BY <1>5, <1>12, <2>1 DEF LoanDefaulted, PersistFails, Stored, PaymentsOf
    <2> QED
      BY <1>2, <1>12, <2>2, CoveredKept DEF LoanDefaulted, PersistFails, BeingPaid
  <1>13. CASE LoanRepaidInsert
    <2>1. CASE Current \in payments
      BY <1>6, <1>13, <2>1 DEF LoanRepaidInsert, BeingPaid
    <2>2. CASE Current \notin payments
      <3>1. Current' = Current /\ cyc'.pc = "sum" /\ payments' = payments \cup {Current}
        BY <1>1, <1>13, <2>2 DEF LoanRepaidInsert, TypeInv, TypeOK, Cycle, Current
      <3>2. Current.of # l
        BY <1>2, <3>1 DEF BeingPaid
      <3>3. loanIndex'[l] = loanIndex[l] /\ PaymentsOf(l)' = PaymentsOf(l) /\ ~BeingPaid(l)
        BY <1>13, <3>1, <3>2 DEF LoanRepaidInsert, PaymentsOf, BeingPaid
      <3> QED
        BY <1>2, <3>3, CoveredKept
    <2> QED
      BY <2>1, <2>2
  <1>14. CASE LoanRepaidStatus
    <2>1. payments' = payments /\ PaymentsOf(l)' = PaymentsOf(l)
      BY <1>14 DEF LoanRepaidStatus, PaymentsOf
    <2>2. CASE Current.of = l
      <3>1. loanIndex[l] # "none"
        BY <1>1, <1>3, <1>14, <2>2, CreatedBefore DEF LoanRepaidStatus
      <3>2. cyc.rows = PaymentsOf(l)
        BY <1>1, <1>14, <2>2 DEF RowsRead, LoanRepaidStatus
      <3> QED
        BY <1>2, <1>5, <1>14, <2>1, <2>2, <3>1, <3>2 DEF LoanRepaidStatus
    <2>3. CASE Current.of # l
      <3>1. loanIndex'[l] = loanIndex[l]
        BY <1>5, <1>14, <2>3 DEF LoanRepaidStatus
      <3> QED
        BY <1>2, <2>1, <2>3, <3>1, CoveredKept DEF BeingPaid
    <2> QED
      BY <2>2, <2>3
  <1> QED
    BY <1>7, <1>8, <1>9, <1>10, <1>11, <1>12, <1>13, <1>14 DEF Next, EventNext, LoanNext

\* CoveredIsPaid: the payments of a loan that met no failure and no default decide its
\* status, whatever is read twice after crashes and however the cursor moves.
THEOREM CoveredPaid == Spec => []CoveredIsPaid
  <1>1. Init => PaidInv
    BY AccountInit DEF Init, PaidInv, RowsRead, CoveredIsPaid, Idle, PaymentsOf
  <1>2. PaidInv /\ [Next]_vars => PaidInv'
    BY AccountStep, RowsReadStep, CoveredStep DEF PaidInv, AccountInv
  <1>3. PaidInv => CoveredIsPaid
    BY DEF PaidInv
  <1> QED
    BY <1>1, <1>2, <1>3, PTL DEF Spec

-----------------------------------------------------------------------------
(* PaidIsCovered. A status is computed from what is paid by then, and payments are    *)
(* never taken back.                                                                  *)

PaidFor(S) == [e \in S |-> e.value]

\* What is paid is a sum over the payments.
LEMMA PaidTold ==
  ASSUME NEW S, IsFiniteSet(S), NEW v, \A e \in S : v[e] = e.value
  PROVE  TotalPaid(S) = Total(v, S)
  <1>1. PICK h : SumsOf(h, v, S) /\ Total(v, S) = h[S]
    BY TotalTold
  <1> DEFINE Pays(g) == g = [s \in SUBSET S |-> IF s = {} THEN 0 ELSE ChosenOf(s).value + g[RestOf(s)]]
             paid == CHOOSE g : Pays(g)
  <1>2. \A s \in SUBSET S : s # {} => v[ChosenOf(s)] = ChosenOf(s).value
    BY ChosenIn
  <1>3. \A g : Pays(g) <=> SumsOf(g, v, S)
    BY <1>2 DEF SumsOf
  <1>4. TotalPaid(S) = paid[S]
    BY DEF TotalPaid, MapThenSumSet, MapThenFoldSet, ChosenOf, RestOf
  <1> HIDE DEF Pays
  <1>5. Pays(paid)
    BY <1>1, <1>3
  <1>6. SumsOf(paid, v, S)
    BY <1>3, <1>5
  <1> HIDE DEF paid
  <1>7. AgreeOn(v, v, S) /\ S \subseteq S
    BY DEF AgreeOn
  <1>8. paid[S] = h[S]
    BY <1>1, <1>6, <1>7, SameSums
  <1> QED
    BY <1>1, <1>4, <1>8

\* More payments, no smaller sum.
LEMMA PaidGrows ==
  ASSUME NEW S, IsFiniteSet(S), S \subseteq Event, NEW R, R \subseteq S
  PROVE  TotalPaid(R) \in Nat /\ TotalPaid(S) \in Nat /\ TotalPaid(R) <= TotalPaid(S)
  <1>1. IsFiniteSet(R)
    BY FS_Subset
  <1>2. NatValued(PaidFor(S), S) /\ NatValued(PaidFor(S), R)
    BY DEF NatValued, PaidFor, Event
  <1>3. TotalPaid(S) = Total(PaidFor(S), S) /\ TotalPaid(R) = Total(PaidFor(S), R)
    BY <1>1, PaidTold DEF PaidFor
  <1>4. Total(PaidFor(S), S) \in Nat
    BY <1>2, TotalOfOneMore
  <1>5. Total(PaidFor(S), R) \in Nat
    BY <1>1, <1>2, TotalOfOneMore
  <1>6. Total(PaidFor(S), R) <= Total(PaidFor(S), S)
    BY <1>2, TotalGrows
  <1> QED
    BY <1>3, <1>4, <1>5, <1>6

CoverInv == TypeInv /\ RowsRead /\ PaidIsCovered

\* A loan that was paid already.
LEMMA StaysCovered ==
  ASSUME CoverInv, [Next]_vars, NEW l \in Loan, loanIndex[l] = "paid"
  PROVE  TotalPaid(PaymentsOf(l)') >= Principal + Interest
  <1>1. chain' = chain /\ payments \subseteq payments' /\ payments' \subseteq chain'
    BY TablesGrow, TypeStep DEF CoverInv, TypeInv, TypeOK
  <1>2. IsFiniteSet(chain) /\ chain \subseteq Event
    BY ChainsAssumption DEF CoverInv, TypeInv, TypeOK
  <1>3. PaymentsOf(l) \subseteq PaymentsOf(l)' /\ PaymentsOf(l)' \subseteq Event /\ IsFiniteSet(PaymentsOf(l)')
    <2>1. PaymentsOf(l)' \subseteq chain
      BY <1>1 DEF PaymentsOf
    <2> QED
      BY <1>1, <1>2, <2>1, FS_Subset DEF PaymentsOf
  <1>4. /\ TotalPaid(PaymentsOf(l)) \in Nat /\ TotalPaid(PaymentsOf(l)') \in Nat
        /\ TotalPaid(PaymentsOf(l)) <= TotalPaid(PaymentsOf(l)')
    BY <1>3, PaidGrows
  <1>5. TotalPaid(PaymentsOf(l)) >= Principal + Interest
    BY DEF CoverInv, PaidIsCovered
  <1> QED
    BY <1>4, <1>5, BoundsAssumption

LEMMA CoverStep == CoverInv /\ [Next]_vars => PaidIsCovered'
  <1> USE DEF tables, past
  <1>1. SUFFICES ASSUME CoverInv, [Next]_vars, NEW l \in Loan, loanIndex'[l] = "paid"
                 PROVE  TotalPaid(PaymentsOf(l)') >= Principal + Interest
    BY DEF PaidIsCovered, PaymentsOf
  <1>2. CASE loanIndex[l] = "paid"
    BY <1>1, <1>2, StaysCovered
  <1>3. CASE loanIndex[l] # "paid"
    <2>1. loanIndex \in [Loan -> {"none", "active", "paid", "defaulted"}]
      BY <1>1 DEF CoverInv, TypeInv, TypeOK
    <2>2. LoanRepaidStatus
      BY <1>1, <1>3, <2>1
         DEF Next, FetchNext, RunIndexer, ReadCursor, ReadCursorFails, ReadTip, CallFails, Heal, Fetch,
             FetchNothing, FetchOutOfRange, Recover, EventNext, LoanNext, LoanCreated, LoanCreatedUndated,
             LoanRepaidInsert, LoanRepaidSum, LoanRepaidFollowUpFails, LoanDefaulted, SkipUnparsed,
             ScoreHistory, ScoreCache, ScoreCacheFails, PersistFails, Stored, SaveCursor, CloseLedger,
             Crash, vars
    <2>3. Current.of = l /\ TotalPaid(cyc.rows) >= Principal + Interest
      BY <1>1, <1>3, <2>1, <2>2 DEF LoanRepaidStatus
    <2>4. cyc.rows = PaymentsOf(l) /\ PaymentsOf(l)' = PaymentsOf(l)
      BY <1>1, <2>2, <2>3 DEF CoverInv, RowsRead, LoanRepaidStatus, PaymentsOf
    <2> QED
      BY <2>3, <2>4
  <1> QED
    BY <1>2, <1>3

LEMMA CoverAlways == Spec => []CoverInv
  <1>1. Init => CoverInv
    BY TypeInit DEF Init, CoverInv, RowsRead, PaidIsCovered, Idle
  <1>2. CoverInv /\ [Next]_vars => CoverInv'
    BY TypeStep, RowsReadStep, CoverStep DEF CoverInv
  <1> QED
    BY <1>1, <1>2, PTL DEF Spec

\* PaidIsCovered: the index shows a loan as paid only when the payments it holds cover
\* principal and interest, whatever fails, is lost or is read again, for any history of
\* events.
THEOREM PaidCovered == Spec => []PaidIsCovered
  <1>1. CoverInv => PaidIsCovered
    BY DEF CoverInv
  <1> QED
    BY <1>1, CoverAlways, PTL

-----------------------------------------------------------------------------
(* How the status of a loan changes, and that Indexer implements IndexedLoans.        *)

\* The steps that leave both tables of the loans alone.
Elsewhere ==
  \/ FetchNext \/ CloseLedger \/ Crash \/ UNCHANGED vars
  \/ LoanCreatedUndated \/ LoanRepaidSum \/ LoanRepaidFollowUpFails \/ SkipUnparsed
  \/ ScoreHistory \/ ScoreCache \/ ScoreCacheFails \/ SaveCursor

LEMMA ElsewhereStep == Elsewhere => UNCHANGED <<loanIndex, payments>>
  BY DEF Elsewhere, tables, past, vars, FetchNext, RunIndexer, ReadCursor, ReadCursorFails, ReadTip,
     CallFails, Heal, Fetch, FetchNothing, FetchOutOfRange, Recover, CloseLedger, Crash,
     LoanCreatedUndated, LoanRepaidSum, LoanRepaidFollowUpFails, SkipUnparsed, ScoreHistory,
     ScoreCache, ScoreCacheFails, SaveCursor

LEMMA LoanSteps ==
  ASSUME [Next]_vars
  PROVE  Elsewhere \/ LoanCreated \/ LoanRepaidInsert \/ LoanRepaidStatus \/ LoanDefaulted \/ PersistFails
  BY DEF Next, EventNext, LoanNext, Elsewhere

\* The event of a step, and its loan.
LEMMA LoanOfEvent ==
  ASSUME TypeInv, InBatch, Current.kind \in LoanKind
  PROVE  Current \in chain /\ Current.of \in Loan
  BY CurrentFacts, ChainFacts DEF TypeInv, CycleOK, ChainOK

\* LoanRepaidStatus decides by all payments of the loan.
LEMMA StatusDecided ==
  ASSUME CoverInv, LoanRepaidStatus
  PROVE  LET l == Current.of
             decided == IF TotalPaid(PaymentsOf(l)) >= Principal + Interest THEN "paid" ELSE "active" IN
         /\ l \in Loan /\ PaymentsOf(l) # {} /\ UNCHANGED payments
         /\ loanIndex' = [loanIndex EXCEPT ![l] = IF @ = "none" THEN @ ELSE decided]
  <1>1. cyc.pc = "status" /\ TypeInv
    BY DEF CoverInv, LoanRepaidStatus
  <1>2. Current.kind = "repaid" /\ Current \in payments /\ InBatch
    BY <1>1 DEF TypeInv, CycleOK, InBatch
  <1>3. Current.of \in Loan
    BY <1>1, <1>2, LoanOfEvent DEF LoanKind
  <1>4. Current \in PaymentsOf(Current.of)
    BY <1>2 DEF PaymentsOf
  <1>5. cyc.rows = PaymentsOf(Current.of)
    BY <1>1 DEF CoverInv, RowsRead
  <1> QED
    BY <1>3, <1>4, <1>5 DEF LoanRepaidStatus

\* A loan that is paid in the index stays paid unless it defaults: neither a creation
\* that is read again nor a payment, late or repeated, makes it active again.
PaidStaysPaid ==
  [][\A l \in Loan : loanIndex[l] = "paid" => loanIndex'[l] \in {"paid", "defaulted"}]_vars

\* PaidStaysPaid: a paid loan is never made active again, by whatever is read again or
\* fails, for any history of events; payments only add up.
THEOREM PaidStays == Spec => PaidStaysPaid
  <1>1. CoverInv /\ [Next]_vars
          => [\A l \in Loan : loanIndex[l] = "paid" => loanIndex'[l] \in {"paid", "defaulted"}]_vars
    <2> SUFFICES ASSUME CoverInv, [Next]_vars, NEW l \in Loan, loanIndex[l] = "paid"
                 PROVE  loanIndex'[l] \in {"paid", "defaulted"}
      OBVIOUS
    <2>0. loanIndex \in [Loan -> {"none", "active", "paid", "defaulted"}]
      BY DEF CoverInv, TypeInv, TypeOK
    <2>1. CASE Elsewhere \/ LoanRepaidInsert
      BY <2>1, ElsewhereStep DEF LoanRepaidInsert
    <2>2. CASE LoanCreated \/ LoanDefaulted \/ PersistFails
      BY <2>0, <2>2 DEF LoanCreated, LoanDefaulted, PersistFails, Stored, tables
    <2>3. CASE LoanRepaidStatus
      <3>1. TotalPaid(PaymentsOf(l)) >= Principal + Interest
        BY DEF CoverInv, PaidIsCovered
      <3> QED
        BY <2>0, <2>3, <3>1, StatusDecided
    <2> QED
      BY <2>1, <2>2, <2>3, LoanSteps
  <1> QED
    BY <1>1, CoverAlways, PTL DEF Spec, PaidStaysPaid

\* A step of the indexer as a step of the index.
LEMMA IndexStep == CoverInv /\ [Next]_vars => [Index!Next]_(Index!vars)
  <1> SUFFICES ASSUME CoverInv, [Next]_vars PROVE Index!Next \/ UNCHANGED Index!vars
    OBVIOUS
  <1>0. TypeInv /\ loanIndex \in [Loan -> {"none", "active", "paid", "defaulted"}]
    BY DEF CoverInv, TypeInv, TypeOK
  <1>1. ASSUME UNCHANGED <<loanIndex, payments>> PROVE UNCHANGED Index!vars
    BY <1>1 DEF Index!vars
  <1>2. ASSUME NEW l \in Loan, loanIndex[l] = "none", UNCHANGED payments,
               loanIndex' = [loanIndex EXCEPT ![l] = "active"]
        PROVE  Index!Next
    BY <1>2 DEF Index!Next, Index!Open
  <1>3. ASSUME NEW l \in Loan, loanIndex[l] # "none", UNCHANGED payments,
               loanIndex' = [loanIndex EXCEPT ![l] = "defaulted"]
        PROVE  Index!Next
    BY <1>3 DEF Index!Next, Index!Default
  <1>4. ASSUME NEW e, e \notin payments, payments' = payments \cup {e}, UNCHANGED loanIndex
        PROVE  Index!Next
    BY <1>4 DEF Index!Next, Index!Enter
  <1>5. CASE Elsewhere
    BY <1>1, <1>5, ElsewhereStep
  <1>6. CASE LoanCreated
    <2>1. Current.of \in Loan /\ UNCHANGED payments
      BY <1>0, <1>6, LoanOfEvent DEF LoanCreated, InBatch, LoanKind
    <2>2. loanIndex' = [loanIndex EXCEPT ![Current.of] = IF @ = "none" THEN "active" ELSE @]
      BY <1>6 DEF LoanCreated
    <2>3. CASE loanIndex[Current.of] = "none"
      <3>1. loanIndex' = [loanIndex EXCEPT ![Current.of] = "active"]
        BY <2>2, <2>3
      <3> QED
        BY <1>2, <2>1, <2>3, <3>1
    <2>4. CASE loanIndex[Current.of] # "none"
      BY <1>0, <1>1, <2>1, <2>2, <2>4
    <2> QED
      BY <2>3, <2>4
  <1>7. CASE LoanRepaidInsert
    BY <1>1, <1>4, <1>7 DEF LoanRepaidInsert
  <1>8. CASE LoanRepaidStatus
    <2> DEFINE l == Current.of
               decided == IF TotalPaid(PaymentsOf(l)) >= Principal + Interest THEN "paid" ELSE "active"
    <2>1. /\ l \in Loan /\ PaymentsOf(l) # {} /\ UNCHANGED payments
          /\ loanIndex' = [loanIndex EXCEPT ![l] = IF @ = "none" THEN @ ELSE decided]
      BY <1>8, StatusDecided
    <2>2. /\ Index!PaymentsOf(l) = PaymentsOf(l)
          /\ decided = IF Index!Covered(l) THEN "paid" ELSE "active"
      BY DEF Index!PaymentsOf, PaymentsOf, Index!Covered, TotalPaid, MapThenSumSet, MapThenFoldSet,
         Index!MapThenSumSet, Index!MapThenFoldSet
    <2> HIDE DEF l, decided
    <2>3. CASE loanIndex[l] = "none"
      BY <1>0, <1>1, <2>1, <2>3
    <2>4. CASE loanIndex[l] # "none"
      <3>1. loanIndex' = [loanIndex EXCEPT ![l] = decided]
        BY <2>1, <2>4
      <3>2. Index!Settle(l)
        BY <2>1, <2>2, <2>4, <3>1 DEF Index!Settle
      <3> QED
        BY <2>1, <3>2 DEF Index!Next
    <2> QED
      BY <2>3, <2>4
  <1>9. CASE LoanDefaulted
    <2>1. Current.of \in Loan /\ UNCHANGED payments
      BY <1>0, <1>9, LoanOfEvent DEF LoanDefaulted, InBatch, LoanKind
    <2>2. loanIndex' = [loanIndex EXCEPT ![Current.of] = IF @ = "none" THEN @ ELSE "defaulted"]
      BY <1>9 DEF LoanDefaulted
    <2>3. CASE loanIndex[Current.of] = "none"
      BY <1>0, <1>1, <2>1, <2>2, <2>3
    <2>4. CASE loanIndex[Current.of] # "none"
      <3>1. loanIndex' = [loanIndex EXCEPT ![Current.of] = "defaulted"]
        BY <2>2, <2>4
      <3> QED
        BY <1>3, <2>1, <2>4, <3>1
    <2> QED
      BY <2>3, <2>4
  <1>10. CASE PersistFails /\ UNCHANGED tables
    BY <1>1, <1>10 DEF tables
  <1>11. CASE PersistFails /\ Stored(Current)
    <2> DEFINE e == Current
    <2>0. e.kind \in {"created", "repaid", "defaulted", "score"} /\ InBatch
      BY <1>11 DEF PersistFails, InBatch
    <2>1. e.kind # "score" => e.of \in Loan
      BY <1>0, <2>0, LoanOfEvent DEF LoanKind
    <2>2. /\ loanIndex' = [l \in Loan |->
               CASE l = e.of /\ e.kind = "created" /\ loanIndex[l] = "none"   -> "active"
                 [] l = e.of /\ e.kind = "defaulted" /\ loanIndex[l] # "none" -> "defaulted"
                 [] OTHER                                                    -> loanIndex[l]]
          /\ payments' = IF e.kind = "repaid" THEN payments \cup {e} ELSE payments
      BY <1>11 DEF Stored
    <2> HIDE DEF e
    <2>3. CASE e.kind = "created" /\ loanIndex[e.of] = "none"
      <3>1. loanIndex' = [loanIndex EXCEPT ![e.of] = "active"] /\ UNCHANGED payments
        BY <1>0, <2>2, <2>3
      <3> QED
        BY <1>2, <2>1, <2>3, <3>1
    <2>4. CASE e.kind = "defaulted" /\ loanIndex[e.of] # "none"
      <3>1. loanIndex' = [loanIndex EXCEPT ![e.of] = "defaulted"] /\ UNCHANGED payments
        BY <1>0, <2>2, <2>4
      <3> QED
        BY <1>3, <2>1, <2>4, <3>1
    <2>5. CASE ~(e.kind = "created" /\ loanIndex[e.of] = "none") /\ ~(e.kind = "defaulted" /\ loanIndex[e.of] # "none")
      <3>1. loanIndex' = loanIndex
        BY <1>0, <2>2, <2>5
      <3> QED
        BY <1>1, <1>4, <2>2, <3>1
    <2> QED
      BY <2>3, <2>4, <2>5
  <1> QED
    BY <1>5, <1>6, <1>7, <1>8, <1>9, <1>10, <1>11, LoanSteps DEF PersistFails

\* Indexer implements IndexedLoans: whatever fails, is lost or is read again, the index
\* changes as if a status followed from all payments in one step.
THEOREM KeepsIndex == Spec => IndexKept
  <1>1. Init => Index!Init
    BY DEF Init, Index!Init
  <1> QED
    BY <1>1, CoverAlways, IndexStep, PTL DEF Spec, IndexKept, Index!Spec
=============================================================================
